---------------------------- MODULE ThreeTierProofs ----------------------------
(***************************************************************************)
(* Proofs about ThreeTier, for every set of requests and any number of     *)
(* deaths from outside: type correctness, what a death does to the callers *)
(* and to the frontend, and that each tier keeps the rpc contract towards  *)
(* a caller that lives.  There is one lemma per part of the invariant and  *)
(* one step per action in it.                                              *)
(***************************************************************************)
EXTENDS ThreeTier, TLAPS

(* The tree of calls: who calls whom, nobody calls itself or its caller,   *)
(* and nobody has two callers.                                             *)
LEMMA Tree ==
  /\ Svc = {"s0", "s1", "s2", "s3"}
  /\ Down \in [Svc -> SUBSET Svc]
  /\ Down["s0"] = {"s1", "s2"} /\ Down["s1"] = {"s3"} /\ Down["s2"] = {} /\ Down["s3"] = {}
  /\ \A c \in Svc : "s0" \notin Down[c]
  /\ \A c, s \in Svc : s \in Down[c] => c \notin Down[s] /\ c # s
  /\ \A c, d, s \in Svc : s \in Down[c] /\ s \in Down[d] => c = d
BY DEF Svc, Down

LEMMA Callers == Caller("s1") = "s0" /\ Caller("s2") = "s0" /\ Caller("s3") = "s1"
BY Tree DEF Caller

(* Both kinds of death are one step of Die.                                *)
LEMMA DeathIsDie ==
  ASSUME NEW s \in Svc, Crash(s) \/ \E q \in Req : AssertOk(s, q)
  PROVE  up[s] /\ Die(s)
BY DEF Crash, AssertOk

-----------------------------------------------------------------------------
(* Type correctness.                                                       *)

LEMMA TypeInit == Init => TypeOK
BY ThreeTierAssumption DEF Init, TypeOK, Stage

LEMMA TypeStart ==
  ASSUME TypeOK, NEW T \in SUBSET Svc, NEW q \in Req, NEW newStage \in [Svc -> [Req -> Stage]],
         StartCalls(T, q, newStage)
  PROVE  /\ stage' \in [Svc -> [Req -> Stage]]
         /\ resp'  \in [Svc -> [Req -> {"none", "ok", "error"}]]
BY DEF TypeOK, StartCalls, Stage

LEMMA TypeDie ==
  ASSUME TypeOK, NEW s \in Svc, Die(s)
  PROVE  /\ up' \in [Svc -> BOOLEAN] /\ died' \in SUBSET Svc
         /\ front' = front /\ got' = got
         /\ stage' \in [Svc -> [Req -> Stage]]
         /\ resp'  \in [Svc -> [Req -> {"none", "ok", "error"}]]
         /\ orphan' \in [Svc -> SUBSET Req]
<1>1. stage' \in [Svc -> [Req -> Stage]]
  BY DEF TypeOK, Die, Stage
<1>2. resp' \in [Svc -> [Req -> {"none", "ok", "error"}]]
  BY DEF TypeOK, Die
<1>3. orphan' \in [Svc -> SUBSET Req]
  BY DEF TypeOK, Die
<1> QED BY <1>1, <1>2, <1>3 DEF TypeOK, Die

LEMMA TypeNext == TypeOK /\ [Next]_vars => TypeOK'
<1> SUFFICES ASSUME TypeOK, [Next]_vars PROVE TypeOK'
  OBVIOUS
<1>1. ASSUME NEW q \in Req, Request(q) PROVE TypeOK'
  BY <1>1, TypeStart, Tree DEF TypeOK, Request
<1>2. ASSUME NEW q \in Req, Return(q) PROVE TypeOK'
  BY <1>2, Tree DEF TypeOK, Return
<1>3. ASSUME NEW s \in Svc, Crash(s) PROVE TypeOK'
  <2>1. crashes' \in 0 .. MaxCrashes /\ asserts' = asserts /\ Die(s)
    BY <1>3, ThreeTierAssumption DEF TypeOK, Crash
  <2>2. asserts' \in SUBSET died'
    BY <2>1 DEF TypeOK, Die
  <2> QED BY <2>1, <2>2, TypeDie DEF TypeOK
<1>4. ASSUME NEW s \in Svc, Restart(s) PROVE TypeOK'
  BY <1>4 DEF TypeOK, Restart
<1>5. ASSUME NEW s \in Svc, NEW q \in Req, Accept(s, q) PROVE TypeOK'
  <2>1. [stage EXCEPT ![s][q] = "accepted"] \in [Svc -> [Req -> Stage]]
    BY DEF TypeOK, Stage
  <2>2. Down[s] \in SUBSET Svc
    BY Tree
  <2>3. StartCalls(Down[s], q, [stage EXCEPT ![s][q] = "accepted"])
    BY <1>5 DEF Accept
  <2>4. /\ stage' \in [Svc -> [Req -> Stage]]
        /\ resp'  \in [Svc -> [Req -> {"none", "ok", "error"}]]
    BY <2>1, <2>2, <2>3, TypeStart
  <2> QED BY <1>5, <2>4 DEF TypeOK, Accept
<1>6. ASSUME NEW s \in Svc, NEW q \in Req, Finish(s, q) PROVE TypeOK'
  BY <1>6 DEF TypeOK, Finish, Stage
<1>7. ASSUME NEW s \in Svc, NEW q \in Req, Delete(s, q) PROVE TypeOK'
  BY <1>7 DEF TypeOK, Delete, Stage
<1>8. ASSUME NEW s \in Svc, NEW q \in Req, AssertOk(s, q) PROVE TypeOK'
  BY <1>8, TypeDie DEF TypeOK, AssertOk, Die
<1>9. ASSUME NEW s \in Svc, NEW q \in Req, Drop(s, q) PROVE TypeOK'
  BY <1>9 DEF TypeOK, Drop, Stage
<1>10. ASSUME NEW s \in Svc, NEW d \in Svc, NEW q \in Req, Record(s, d, q) PROVE TypeOK'
  BY <1>10 DEF TypeOK, Record
<1>11. CASE UNCHANGED vars
  BY <1>11 DEF TypeOK, vars
<1> QED BY <1>1, <1>2, <1>3, <1>4, <1>5, <1>6, <1>7, <1>8, <1>9, <1>10, <1>11 DEF Next, Serve

(* Every variable keeps its type, whatever dies and whenever.              *)
THEOREM TypeCorrect == Spec => []TypeOK
BY TypeInit, TypeNext, PTL DEF Spec

-----------------------------------------------------------------------------
(* The inductive invariant.                                                *)

(* What the start of calls does to a service and a request.                *)
StartsAt(T, q, newStage, s, p) ==
  \/ /\ s \in T /\ p = q
     /\ stage'[s][p] = "sent" /\ resp'[s][p] = resp[s][p]
  \/ /\ s \in T /\ p = q /\ s \in died
     /\ stage'[s][p] = newStage[s][p] /\ resp'[s][p] = "error"
  \/ /\ ~(s \in T /\ p = q)
     /\ stage'[s][p] = newStage[s][p] /\ resp'[s][p] = resp[s][p]

LEMMA Started ==
  ASSUME TypeOK, DeathInv, NEW T \in SUBSET Svc, NEW q \in Req,
         NEW newStage \in [Svc -> [Req -> Stage]], StartCalls(T, q, newStage)
  PROVE  \A s \in Svc, p \in Req : StartsAt(T, q, newStage, s, p)
BY DEF TypeOK, DeathInv, StartCalls, StartsAt

(* What a request of the frontend and its acceptance by a service change.  *)
LEMMA Requested ==
  ASSUME IInv, NEW q \in Req, Request(q)
  PROVE  /\ front[q] = "idle" /\ front' = [front EXCEPT ![q] = "waiting"]
         /\ UNCHANGED <<up, died, got, orphan>>
         /\ \A s \in Svc, p \in Req : StartsAt({"s0"}, q, stage, s, p)
<1>1. {"s0"} \in SUBSET Svc
  BY Tree
<1>2. TypeOK /\ DeathInv /\ stage \in [Svc -> [Req -> Stage]]
  BY DEF IInv, TypeOK
<1>3. StartCalls({"s0"}, q, stage)
  BY DEF Request
<1>4. \A s \in Svc, p \in Req : StartsAt({"s0"}, q, stage, s, p)
  BY <1>1, <1>2, <1>3, Started
<1> QED BY <1>4 DEF Request

LEMMA Accepted ==
  ASSUME IInv, NEW s \in Svc, NEW q \in Req, Accept(s, q)
  PROVE  /\ up[s] /\ stage[s][q] = "sent"
         /\ UNCHANGED <<up, died, front, got, orphan>>
         /\ \A d \in Svc, p \in Req : StartsAt(Down[s], q, [stage EXCEPT ![s][q] = "accepted"], d, p)
<1>1. Down[s] \in SUBSET Svc
  BY Tree
<1>2. TypeOK /\ DeathInv /\ [stage EXCEPT ![s][q] = "accepted"] \in [Svc -> [Req -> Stage]]
  BY DEF IInv, TypeOK, Stage
<1>3. StartCalls(Down[s], q, [stage EXCEPT ![s][q] = "accepted"])
  BY DEF Accept
<1>4. \A d \in Svc, p \in Req : StartsAt(Down[s], q, [stage EXCEPT ![s][q] = "accepted"], d, p)
  BY <1>1, <1>2, <1>3, Started
<1> QED BY <1>4 DEF Accept

(* What the death of s, of either kind, does to a service and a request.   *)
DiesAt(s, d, q) ==
  /\ stage'[d][q] = IF d = s /\ stage[d][q] \in {"sent", "accepted", "replied"}
                     THEN "lost" ELSE stage[d][q]
  /\ d \in Down[s] => /\ resp'[d][q] = "none"
                      /\ q \in orphan'[d] <=>
                           q \in orphan[d] \/ stage[d][q] \in {"sent", "accepted", "replied"}
  /\ d = s => /\ orphan'[d] = {}
              /\ resp'[d][q] # resp[d][q] =>
                   resp'[d][q] = "error" /\ (resp[d][q] = "ok" \/ Owes(d, q))
              /\ Owes(d, q) => resp'[d][q] = "error"
  /\ d # s /\ d \notin Down[s] => resp'[d][q] = resp[d][q] /\ orphan'[d] = orphan[d]

LEMMA Died ==
  ASSUME IInv, NEW s \in Svc, Crash(s) \/ \E q \in Req : AssertOk(s, q)
  PROVE  /\ front' = front /\ got' = got /\ died' = died \cup {s} /\ up' = [up EXCEPT ![s] = FALSE]
         /\ \A d \in Svc, q \in Req : DiesAt(s, d, q)
<1>1. up[s] /\ Die(s) /\ TypeOK
  BY DeathIsDie DEF IInv
<1>2. front' = front /\ got' = got /\ died' = died \cup {s} /\ up' = [up EXCEPT ![s] = FALSE]
  BY <1>1 DEF Die
<1>3. ASSUME NEW d \in Svc, NEW q \in Req PROVE DiesAt(s, d, q)
  <2>1. d \in Down[s] => d # s
    BY Tree
  <2>2. /\ stage'[d][q] = IF d = s /\ stage[d][q] \in {"sent", "accepted", "replied"}
                           THEN "lost" ELSE stage[d][q]
    BY <1>1 DEF TypeOK, Die, Active
  <2>3. /\ d \in Down[s] => (q \in orphan'[d] <=>
                              q \in orphan[d] \/ stage[d][q] \in {"sent", "accepted", "replied"})
        /\ d = s => orphan'[d] = {}
        /\ d # s /\ d \notin Down[s] => orphan'[d] = orphan[d]
    BY <1>1, <2>1 DEF TypeOK, Die, Active
  <2>4. /\ d \in Down[s] => resp'[d][q] = "none"
        /\ d = s => /\ resp'[d][q] # resp[d][q] =>
                         resp'[d][q] = "error" /\ (resp[d][q] = "ok" \/ Owes(d, q))
                    /\ Owes(d, q) => resp'[d][q] = "error"
        /\ d # s /\ d \notin Down[s] => resp'[d][q] = resp[d][q]
    BY <1>1, <2>1 DEF TypeOK, Die, Owes
  <2> QED BY <2>2, <2>3, <2>4 DEF DiesAt
<1> QED BY <1>2, <1>3

LEMMA IInvInit == Init => IInv
<1> SUFFICES ASSUME Init PROVE IInv
  OBVIOUS
<1> USE Tree
<1>1. TypeOK            BY TypeInit
<1>2. DeathInv          BY DEF Init, DeathInv
<1>3. UnsentInv         BY DEF Init, UnsentInv
<1>4. WaitInv           BY DEF Init, WaitInv, Owes
<1>5. OrphanInv         BY DEF Init, OrphanInv
<1>6. AssertsSpreadDown BY DEF Init, AssertsSpreadDown
<1> QED BY <1>1, <1>2, <1>3, <1>4, <1>5, <1>6 DEF IInv

(* Who is down has died, and so has the caller of who is left alone.       *)
LEMMA DeathInvNext ==
  ASSUME IInv, TypeOK', [Next]_vars
  PROVE  DeathInv'
<1> USE Tree
<1>1. ASSUME NEW q \in Req, Request(q) PROVE DeathInv'
  <2>1. /\ front[q] = "idle" /\ front' = [front EXCEPT ![q] = "waiting"]
        /\ UNCHANGED <<up, died, got, orphan>>
        /\ \A s \in Svc, p \in Req : StartsAt({"s0"}, q, stage, s, p)
    BY <1>1, Requested
  <2>2. (\A s1 \in Svc : ~up[s1] => s1 \in died)'
    BY <2>1 DEF IInv, TypeOK, DeathInv, StartsAt, Owes, WaitInv
  <2>3. (orphan["s0"] = {})'
    BY <2>1 DEF IInv, TypeOK, DeathInv, StartsAt, Owes, WaitInv
  <2>4. (\A s1, c \in Svc : s1 \in Down[c] /\ orphan[s1] # {} => c \in died)'
    BY <2>1 DEF IInv, TypeOK, DeathInv, StartsAt, Owes, WaitInv
  <2>5. (\A p \in Req : front[p] = "error" \/ resp["s0"][p] = "error" => "s0" \in died)'
    BY <2>1 DEF IInv, TypeOK, DeathInv, StartsAt, Owes, WaitInv
  <2> QED BY <2>2, <2>3, <2>4, <2>5 DEF DeathInv
<1>2. ASSUME NEW q \in Req, Return(q) PROVE DeathInv'
  BY <1>2 DEF IInv, TypeOK, DeathInv, Owes, Return, UnsentInv, WaitInv, OrphanInv
<1>3. ASSUME NEW s \in Svc, Crash(s) \/ \E q \in Req : AssertOk(s, q) PROVE DeathInv'
  <2>1. /\ front' = front /\ got' = got /\ died' = died \cup {s} /\ up' = [up EXCEPT ![s] = FALSE]
        /\ \A d \in Svc, q \in Req : DiesAt(s, d, q)
    BY <1>3, Died
  <2>2. (\A s1 \in Svc : ~up[s1] => s1 \in died)'
    BY <2>1 DEF IInv, TypeOK, DeathInv
  <2>3. (orphan["s0"] = {})'
    <3>1. ASSUME NEW q \in Req PROVE q \notin orphan'["s0"]
      <4>1. DiesAt(s, "s0", q) /\ orphan["s0"] = {}
        BY <2>1 DEF IInv, DeathInv
      <4> QED BY <4>1 DEF DiesAt
    <3> QED BY <3>1 DEF TypeOK
  <2>4. ASSUME NEW d \in Svc, NEW c \in Svc, d \in Down[c], orphan'[d] # {} PROVE c \in died'
    <3>1. PICK q \in Req : q \in orphan'[d]
      BY <2>4 DEF TypeOK
    <3>2. DiesAt(s, d, q)
      BY <2>1
    <3>3. CASE d \in Down[s]
      BY <2>1, <2>4, <3>3
    <3>4. CASE d \notin Down[s]
      BY <2>1, <2>4, <3>1, <3>2, <3>4 DEF DiesAt, IInv, DeathInv
    <3> QED BY <3>3, <3>4
  <2>5. (\A p \in Req : front[p] = "error" \/ resp["s0"][p] = "error" => "s0" \in died)'
    BY <2>1 DEF IInv, TypeOK, DeathInv, DiesAt, Owes, WaitInv
  <2> QED BY <2>2, <2>3, <2>4, <2>5 DEF DeathInv
<1>4. ASSUME NEW s \in Svc, Restart(s) PROVE DeathInv'
  BY <1>4 DEF IInv, TypeOK, DeathInv, Owes, Restart
<1>5. ASSUME NEW s \in Svc, NEW q \in Req, Accept(s, q) PROVE DeathInv'
  <2>1. /\ stage[s][q] = "sent"
        /\ UNCHANGED <<up, died, front, got, orphan>>
        /\ \A d \in Svc, p \in Req : StartsAt(Down[s], q, [stage EXCEPT ![s][q] = "accepted"], d, p)
    BY <1>5, Accepted
  <2>2. (\A s1 \in Svc : ~up[s1] => s1 \in died)'
    BY <2>1 DEF IInv, TypeOK, DeathInv, StartsAt, Owes, WaitInv
  <2>3. (orphan["s0"] = {})'
    BY <2>1 DEF IInv, TypeOK, DeathInv, StartsAt, Owes, WaitInv
  <2>4. (\A s1, c \in Svc : s1 \in Down[c] /\ orphan[s1] # {} => c \in died)'
    BY <2>1 DEF IInv, TypeOK, DeathInv, StartsAt, Owes, WaitInv
  <2>5. (\A p \in Req : front[p] = "error" \/ resp["s0"][p] = "error" => "s0" \in died)'
    BY <2>1 DEF IInv, TypeOK, DeathInv, StartsAt, Owes, WaitInv
  <2> QED BY <2>2, <2>3, <2>4, <2>5 DEF DeathInv
<1>6. ASSUME NEW s \in Svc, NEW q \in Req, Finish(s, q) PROVE DeathInv'
  BY <1>6 DEF IInv, TypeOK, DeathInv, Owes, Finish, UnsentInv, WaitInv, OrphanInv
<1>7. ASSUME NEW s \in Svc, NEW q \in Req, Delete(s, q) PROVE DeathInv'
  BY <1>7 DEF IInv, TypeOK, DeathInv, Owes, Delete, WaitInv, OrphanInv
<1>8. ASSUME NEW s \in Svc, NEW q \in Req, Drop(s, q) PROVE DeathInv'
  BY <1>8 DEF IInv, TypeOK, DeathInv, Owes, Drop, WaitInv
<1>9. ASSUME NEW s \in Svc, NEW d \in Svc, NEW q \in Req, Record(s, d, q) PROVE DeathInv'
  BY <1>9 DEF IInv, TypeOK, DeathInv, Owes, Record, WaitInv, UnsentInv
<1>10. CASE UNCHANGED vars
  BY <1>10 DEF IInv, TypeOK, DeathInv, Owes, vars
<1> HIDE Tree
<1> QED BY <1>1, <1>2, <1>3, <1>4, <1>5, <1>6, <1>7, <1>8, <1>9, <1>10 DEF Next, Serve

(* Below a request that is not accepted, nothing has started.              *)
LEMMA UnsentInvNext ==
  ASSUME IInv, TypeOK', [Next]_vars
  PROVE  UnsentInv'
<1> USE Tree
<1>1. ASSUME NEW q \in Req, Request(q) PROVE UnsentInv'
  <2>1. /\ front[q] = "idle" /\ front' = [front EXCEPT ![q] = "waiting"]
        /\ UNCHANGED <<up, died, got, orphan>>
        /\ \A s \in Svc, p \in Req : StartsAt({"s0"}, q, stage, s, p)
    BY <1>1, Requested
  <2>2. \A p \in Req : (front[p] = "idle" => stage["s0"][p] = "unsent" /\ resp["s0"][p] = "none")'
    BY <2>1 DEF IInv, TypeOK, UnsentInv, StartsAt, Owes
  <2>3. ASSUME NEW c \in Svc, NEW p \in Req
        PROVE  /\ (p \in orphan[c] => stage[c][p] # "unsent")'
               /\ (stage[c][p] \in {"unsent", "sent"} => got[c][p] = {})'
    BY <2>1 DEF IInv, TypeOK, UnsentInv, StartsAt
  <2>4. ASSUME NEW c \in Svc, NEW p \in Req, NEW e \in Down[c], stage'[c][p] \in {"unsent", "sent"}
        PROVE  stage'[e][p] = "unsent" /\ resp'[e][p] = "none"
    <3>1. e \in Svc /\ e # "s0" /\ StartsAt({"s0"}, q, stage, e, p) /\ StartsAt({"s0"}, q, stage, c, p)
      BY <2>1
    <3>2. stage'[e][p] = stage[e][p] /\ resp'[e][p] = resp[e][p]
      BY <3>1 DEF StartsAt
    <3>3. stage[c][p] \in {"unsent", "sent"}
      BY <2>1, <2>4, <3>1 DEF StartsAt, IInv, UnsentInv
    <3> QED BY <3>1, <3>2, <3>3 DEF IInv, UnsentInv
  <2> QED BY <2>2, <2>3, <2>4 DEF UnsentInv
<1>2. ASSUME NEW q \in Req, Return(q) PROVE UnsentInv'
  BY <1>2 DEF IInv, TypeOK, UnsentInv, Owes, Return, WaitInv, OrphanInv
<1>3. ASSUME NEW s \in Svc, Crash(s) \/ \E q \in Req : AssertOk(s, q) PROVE UnsentInv'
  <2>1. /\ front' = front /\ got' = got /\ died' = died \cup {s} /\ up' = [up EXCEPT ![s] = FALSE]
        /\ \A d \in Svc, q \in Req : DiesAt(s, d, q)
    BY <1>3, Died
  <2>2. ASSUME NEW p \in Req, front'[p] = "idle" PROVE stage'["s0"][p] = "unsent" /\ resp'["s0"][p] = "none"
    <3>1. DiesAt(s, "s0", p)
      BY <2>1
    <3>2. stage["s0"][p] = "unsent" /\ resp["s0"][p] = "none"
      BY <2>1, <2>2 DEF IInv, UnsentInv
    <3> QED BY <3>1, <3>2 DEF DiesAt, Owes
  <2>3. ASSUME NEW c \in Svc, NEW p \in Req
        PROVE  /\ (p \in orphan[c] => stage[c][p] # "unsent")'
               /\ (stage[c][p] \in {"unsent", "sent"} => got[c][p] = {})'
    <3>1. DiesAt(s, c, p) /\ got' = got
      BY <2>1
    <3>2. stage[c][p] = "unsent" <=> stage'[c][p] = "unsent"
      BY <3>1 DEF DiesAt
    <3>3. p \in orphan'[c] => p \in orphan[c] \/ stage[c][p] \in {"sent", "accepted", "replied"}
      BY <3>1 DEF DiesAt
    <3> QED BY <3>1, <3>2, <3>3 DEF DiesAt, IInv, UnsentInv
  <2>4. ASSUME NEW c \in Svc, NEW p \in Req, NEW e \in Down[c], stage'[c][p] \in {"unsent", "sent"}
        PROVE  stage'[e][p] = "unsent" /\ resp'[e][p] = "none"
    <3>1. e \in Svc /\ DiesAt(s, c, p) /\ DiesAt(s, e, p)
      BY <2>1
    <3>2. stage[c][p] \in {"unsent", "sent"}
      BY <2>4, <3>1 DEF DiesAt
    <3>3. stage[e][p] = "unsent" /\ resp[e][p] = "none"
      BY <3>1, <3>2 DEF IInv, UnsentInv
    <3> QED BY <3>1, <3>3 DEF DiesAt, Owes
  <2> QED BY <2>2, <2>3, <2>4 DEF UnsentInv
<1>4. ASSUME NEW s \in Svc, Restart(s) PROVE UnsentInv'
  BY <1>4 DEF IInv, TypeOK, UnsentInv, Owes, Restart
<1>5. ASSUME NEW s \in Svc, NEW q \in Req, Accept(s, q) PROVE UnsentInv'
  <2>1. /\ stage[s][q] = "sent"
        /\ UNCHANGED <<up, died, front, got, orphan>>
        /\ \A d \in Svc, p \in Req : StartsAt(Down[s], q, [stage EXCEPT ![s][q] = "accepted"], d, p)
    BY <1>5, Accepted
  <2>2. \A p \in Req : (front[p] = "idle" => stage["s0"][p] = "unsent" /\ resp["s0"][p] = "none")'
    BY <2>1 DEF IInv, TypeOK, UnsentInv, StartsAt, Owes
  <2>3. ASSUME NEW c \in Svc, NEW p \in Req
        PROVE  /\ (p \in orphan[c] => stage[c][p] # "unsent")'
               /\ (stage[c][p] \in {"unsent", "sent"} => got[c][p] = {})'
    <3> DEFINE ns == [stage EXCEPT ![s][q] = "accepted"]
    <3>1. StartsAt(Down[s], q, ns, c, p) /\ orphan' = orphan /\ got' = got
      BY <2>1
    <3>2. ns[c][p] = IF c = s /\ p = q THEN "accepted" ELSE stage[c][p]
      BY DEF IInv, TypeOK
    <3> HIDE DEF ns
    <3> QED BY <2>1, <3>1, <3>2 DEF StartsAt, IInv, UnsentInv
  <2>4. ASSUME NEW c \in Svc, NEW p \in Req, NEW e \in Down[c], stage'[c][p] \in {"unsent", "sent"}
        PROVE  stage'[e][p] = "unsent" /\ resp'[e][p] = "none"
    <3> DEFINE ns == [stage EXCEPT ![s][q] = "accepted"]
    <3>1. e \in Svc /\ StartsAt(Down[s], q, ns, e, p) /\ StartsAt(Down[s], q, ns, c, p)
      BY <2>1
    <3>2. \A x \in Svc, y \in Req : ns[x][y] = IF x = s /\ y = q THEN "accepted" ELSE stage[x][y]
      BY DEF IInv, TypeOK
    <3> HIDE DEF ns
    <3>3. stage[c][p] \in {"unsent", "sent"} /\ ~(c = s /\ p = q)
      BY <2>1, <2>4, <3>1, <3>2 DEF StartsAt, IInv, UnsentInv
    <3>4. stage[e][p] = "unsent" /\ resp[e][p] = "none"
      BY <3>3 DEF IInv, UnsentInv
    <3>5. ~(e \in Down[s] /\ p = q) /\ ~(e = s /\ p = q)
      BY <2>1, <3>1, <3>3, <3>4
    <3> QED BY <3>1, <3>2, <3>4, <3>5 DEF StartsAt
  <2> QED BY <2>2, <2>3, <2>4 DEF UnsentInv
<1>6. ASSUME NEW s \in Svc, NEW q \in Req, Finish(s, q) PROVE UnsentInv'
  <2>1. /\ stage[s][q] = "accepted" /\ stage' = [stage EXCEPT ![s][q] = "replied"]
        /\ resp' = resp \/ resp' = [resp EXCEPT ![s][q] = "ok"]
        /\ UNCHANGED <<front, got, orphan>>
    BY <1>6 DEF Finish
  <2>2. /\ \A c \in Svc, p \in Req : stage'[c][p] = IF c = s /\ p = q THEN "replied" ELSE stage[c][p]
        /\ \A c \in Svc, p \in Req : ~(c = s /\ p = q) => resp'[c][p] = resp[c][p]
    BY <2>1 DEF IInv, TypeOK
  <2> QED BY <2>1, <2>2 DEF IInv, UnsentInv
<1>7. ASSUME NEW s \in Svc, NEW q \in Req, Delete(s, q) PROVE UnsentInv'
  BY <1>7 DEF IInv, TypeOK, UnsentInv, Owes, Delete, WaitInv, OrphanInv
<1>8. ASSUME NEW s \in Svc, NEW q \in Req, Drop(s, q) PROVE UnsentInv'
  BY <1>8 DEF IInv, TypeOK, UnsentInv, Owes, Drop, WaitInv
<1>9. ASSUME NEW s \in Svc, NEW d \in Svc, NEW q \in Req, Record(s, d, q) PROVE UnsentInv'
  BY <1>9 DEF IInv, TypeOK, UnsentInv, Owes, Record, WaitInv
<1>10. CASE UNCHANGED vars
  BY <1>10 DEF IInv, TypeOK, UnsentInv, Owes, vars
<1> HIDE Tree
<1> QED BY <1>1, <1>2, <1>3, <1>4, <1>5, <1>6, <1>7, <1>8, <1>9, <1>10 DEF Next, Serve

(* Who owes an answer has a caller that waits for it.                      *)
LEMMA WaitInvNext ==
  ASSUME IInv, TypeOK', [Next]_vars
  PROVE  WaitInv'
<1> USE Tree
<1>1. ASSUME NEW q \in Req, Request(q) PROVE WaitInv'
  <2>1. /\ front[q] = "idle" /\ front' = [front EXCEPT ![q] = "waiting"]
        /\ UNCHANGED <<up, died, got, orphan>>
        /\ \A s \in Svc, p \in Req : StartsAt({"s0"}, q, stage, s, p)
    BY <1>1, Requested
  <2>2. ASSUME NEW c \in Svc, NEW p \in Req PROVE (Owes(c, p) => resp[c][p] = "none")'
    BY <2>1 DEF IInv, TypeOK, UnsentInv, WaitInv, StartsAt, Owes
  <2>3. ASSUME NEW e \in Svc, NEW p \in Req, Owes(e, p)' \/ resp'[e][p] # "none"
        PROVE  /\ e = "s0" => front'[p] = "waiting"
               /\ \A c \in Svc : e \in Down[c] => stage'[c][p] = "accepted" /\ e \notin got'[c][p]
    BY <2>1, <2>3 DEF IInv, TypeOK, UnsentInv, WaitInv, StartsAt, Owes
  <2> QED BY <2>2, <2>3 DEF WaitInv
<1>2. ASSUME NEW q \in Req, Return(q) PROVE WaitInv'
  BY <1>2 DEF IInv, TypeOK, WaitInv, Owes, Return, UnsentInv, OrphanInv
<1>3. ASSUME NEW s \in Svc, Crash(s) \/ \E q \in Req : AssertOk(s, q) PROVE WaitInv'
  <2>1. /\ front' = front /\ got' = got /\ died' = died \cup {s} /\ up' = [up EXCEPT ![s] = FALSE]
        /\ \A d \in Svc, q \in Req : DiesAt(s, d, q)
    BY <1>3, Died
  <2>2. ASSUME NEW c \in Svc, NEW p \in Req PROVE (Owes(c, p) => resp[c][p] = "none")'
    <3>1. DiesAt(s, c, p)
      BY <2>1
    <3>2. Owes(c, p)' => Owes(c, p) /\ c # s /\ c \notin Down[s]
      BY <3>1 DEF DiesAt, Owes
    <3> QED BY <3>1, <3>2 DEF DiesAt, IInv, WaitInv
  <2>3. ASSUME NEW e \in Svc, NEW p \in Req, Owes(e, p)' \/ resp'[e][p] # "none"
        PROVE  /\ e = "s0" => front'[p] = "waiting"
               /\ \A c \in Svc : e \in Down[c] => stage'[c][p] = "accepted" /\ e \notin got'[c][p]
    <3>1. DiesAt(s, e, p)
      BY <2>1
    <3>2. e \notin Down[s] /\ (Owes(e, p) \/ resp[e][p] # "none")
      BY <2>3, <3>1 DEF DiesAt, Owes
    <3>3. /\ e = "s0" => front[p] = "waiting"
          /\ \A c \in Svc : e \in Down[c] => stage[c][p] = "accepted" /\ e \notin got[c][p]
      BY <3>2 DEF IInv, WaitInv
    <3>4. \A c \in Svc : e \in Down[c] => stage'[c][p] = stage[c][p]
      BY <2>1, <3>2 DEF DiesAt
    <3> QED BY <2>1, <3>3, <3>4
  <2> QED BY <2>2, <2>3 DEF WaitInv
<1>4. ASSUME NEW s \in Svc, Restart(s) PROVE WaitInv'
  BY <1>4 DEF IInv, TypeOK, WaitInv, Owes, Restart
<1>5. ASSUME NEW s \in Svc, NEW q \in Req, Accept(s, q) PROVE WaitInv'
  <2>1. /\ stage[s][q] = "sent"
        /\ UNCHANGED <<up, died, front, got, orphan>>
        /\ \A d \in Svc, p \in Req : StartsAt(Down[s], q, [stage EXCEPT ![s][q] = "accepted"], d, p)
    BY <1>5, Accepted
  <2>2. ASSUME NEW c \in Svc, NEW p \in Req PROVE (Owes(c, p) => resp[c][p] = "none")'
    BY <2>1 DEF IInv, TypeOK, UnsentInv, WaitInv, StartsAt, Owes
  <2>3. ASSUME NEW e \in Svc, NEW p \in Req, Owes(e, p)' \/ resp'[e][p] # "none"
        PROVE  /\ e = "s0" => front'[p] = "waiting"
               /\ \A c \in Svc : e \in Down[c] => stage'[c][p] = "accepted" /\ e \notin got'[c][p]
    BY <2>1, <2>3 DEF IInv, TypeOK, UnsentInv, WaitInv, StartsAt, Owes
  <2> QED BY <2>2, <2>3 DEF WaitInv
<1>6. ASSUME NEW s \in Svc, NEW q \in Req, Finish(s, q) PROVE WaitInv'
  BY <1>6 DEF IInv, TypeOK, WaitInv, Owes, Finish, UnsentInv, OrphanInv
<1>7. ASSUME NEW s \in Svc, NEW q \in Req, Delete(s, q) PROVE WaitInv'
  BY <1>7 DEF IInv, TypeOK, WaitInv, Owes, Delete, OrphanInv
<1>8. ASSUME NEW s \in Svc, NEW q \in Req, Drop(s, q) PROVE WaitInv'
  BY <1>8 DEF IInv, TypeOK, WaitInv, Owes, Drop
<1>9. ASSUME NEW s \in Svc, NEW d \in Svc, NEW q \in Req, Record(s, d, q) PROVE WaitInv'
  BY <1>9 DEF IInv, TypeOK, WaitInv, Owes, Record, UnsentInv
<1>10. CASE UNCHANGED vars
  BY <1>10 DEF IInv, TypeOK, WaitInv, Owes, vars
<1> HIDE Tree
<1> QED BY <1>1, <1>2, <1>3, <1>4, <1>5, <1>6, <1>7, <1>8, <1>9, <1>10 DEF Next, Serve

(* Who is left alone works for a request that is lost or done with.        *)
LEMMA OrphanInvNext ==
  ASSUME IInv, TypeOK', [Next]_vars
  PROVE  OrphanInv'
<1> USE Tree
<1>1. ASSUME NEW q \in Req, Request(q) PROVE OrphanInv'
  <2>1. /\ front[q] = "idle" /\ front' = [front EXCEPT ![q] = "waiting"]
        /\ UNCHANGED <<up, died, got, orphan>>
        /\ \A s \in Svc, p \in Req : StartsAt({"s0"}, q, stage, s, p)
    BY <1>1, Requested
  <2>2. ASSUME NEW p \in Req, NEW c \in Svc, NEW e \in Down[c], p \in orphan'[e]
        PROVE  stage'[c][p] \in {"lost", "done"}
    <3>1. StartsAt({"s0"}, q, stage, c, p) /\ p \in orphan[e]
      BY <2>1, <2>2
    <3>2. stage[c][p] \in {"lost", "done"}
      BY <3>1 DEF IInv, OrphanInv
    <3>3. ~(c = "s0" /\ p = q)
      BY <2>1, <3>2 DEF IInv, UnsentInv
    <3> QED BY <3>1, <3>2, <3>3 DEF StartsAt
  <2>3. ASSUME NEW p \in Req, NEW e \in Down["s0"], p \in orphan'[e], stage'[e][p] \in {"sent", "accepted"}
        PROVE  stage'["s0"][p] = "lost" /\ front'[p] # "ok" /\ resp'["s0"][p] # "ok"
    BY <2>1, <2>3 DEF IInv, TypeOK, UnsentInv, WaitInv, OrphanInv, DeathInv, StartsAt, Owes
  <2> QED BY <2>2, <2>3 DEF OrphanInv
<1>2. ASSUME NEW q \in Req, Return(q) PROVE OrphanInv'
  BY <1>2 DEF IInv, TypeOK, OrphanInv, Owes, Return, UnsentInv, WaitInv
<1>3. ASSUME NEW s \in Svc, Crash(s) \/ \E q \in Req : AssertOk(s, q) PROVE OrphanInv'
  <2>1. /\ front' = front /\ got' = got /\ died' = died \cup {s} /\ up' = [up EXCEPT ![s] = FALSE]
        /\ \A d \in Svc, q \in Req : DiesAt(s, d, q)
    BY <1>3, Died
  <2>2. ASSUME NEW p \in Req, NEW c \in Svc, NEW e \in Down[c], p \in orphan'[e]
        PROVE  stage'[c][p] \in {"lost", "done"}
    <3>1. e \in Svc /\ DiesAt(s, e, p) /\ DiesAt(s, c, p)
      BY <2>1
    <3>2. CASE p \in orphan[e]
      BY <3>1, <3>2 DEF DiesAt, IInv, OrphanInv
    <3>3. CASE p \notin orphan[e]
      <4>1. c = s /\ stage[e][p] \in {"sent", "accepted", "replied"}
        BY <2>2, <3>1, <3>3 DEF DiesAt
      <4>2. stage[c][p] \notin {"unsent", "sent"}
        BY <4>1 DEF IInv, UnsentInv
      <4> QED BY <3>1, <4>1, <4>2 DEF DiesAt, IInv, TypeOK, Stage
    <3> QED BY <3>2, <3>3
  <2>3. ASSUME NEW p \in Req, NEW e \in Down["s0"], p \in orphan'[e], stage'[e][p] \in {"sent", "accepted"}
        PROVE  stage'["s0"][p] = "lost" /\ front'[p] # "ok" /\ resp'["s0"][p] # "ok"
    BY <2>1, <2>3, SMTT(30) DEF IInv, TypeOK, UnsentInv, WaitInv, OrphanInv, DeathInv, DiesAt, Owes
  <2> QED BY <2>2, <2>3 DEF OrphanInv
<1>4. ASSUME NEW s \in Svc, Restart(s) PROVE OrphanInv'
  BY <1>4 DEF IInv, TypeOK, OrphanInv, Owes, Restart
<1>5. ASSUME NEW s \in Svc, NEW q \in Req, Accept(s, q) PROVE OrphanInv'
  <2>1. /\ stage[s][q] = "sent"
        /\ UNCHANGED <<up, died, front, got, orphan>>
        /\ \A d \in Svc, p \in Req : StartsAt(Down[s], q, [stage EXCEPT ![s][q] = "accepted"], d, p)
    BY <1>5, Accepted
  <2>2. ASSUME NEW p \in Req, NEW c \in Svc, NEW e \in Down[c], p \in orphan'[e]
        PROVE  stage'[c][p] \in {"lost", "done"}
    BY <2>1, <2>2, SMTT(30) DEF IInv, TypeOK, UnsentInv, WaitInv, OrphanInv, StartsAt, Owes
  <2>3. ASSUME NEW p \in Req, NEW e \in Down["s0"], p \in orphan'[e], stage'[e][p] \in {"sent", "accepted"}
        PROVE  stage'["s0"][p] = "lost" /\ front'[p] # "ok" /\ resp'["s0"][p] # "ok"
    BY <2>1, <2>3, SMTT(30) DEF IInv, TypeOK, UnsentInv, WaitInv, OrphanInv, DeathInv, StartsAt, Owes
  <2> QED BY <2>2, <2>3 DEF OrphanInv
<1>6. ASSUME NEW s \in Svc, NEW q \in Req, Finish(s, q) PROVE OrphanInv'
  BY <1>6 DEF IInv, TypeOK, OrphanInv, Owes, Finish, UnsentInv, WaitInv
<1>7. ASSUME NEW s \in Svc, NEW q \in Req, Delete(s, q) PROVE OrphanInv'
  BY <1>7 DEF IInv, TypeOK, OrphanInv, Owes, Delete, WaitInv
<1>8. ASSUME NEW s \in Svc, NEW q \in Req, Drop(s, q) PROVE OrphanInv'
  BY <1>8 DEF IInv, TypeOK, OrphanInv, Owes, Drop, WaitInv
<1>9. ASSUME NEW s \in Svc, NEW d \in Svc, NEW q \in Req, Record(s, d, q) PROVE OrphanInv'
  BY <1>9 DEF IInv, TypeOK, OrphanInv, Owes, Record, WaitInv, UnsentInv
<1>10. CASE UNCHANGED vars
  BY <1>10 DEF IInv, TypeOK, OrphanInv, Owes, vars
<1> HIDE Tree
<1> QED BY <1>1, <1>2, <1>3, <1>4, <1>5, <1>6, <1>7, <1>8, <1>9, <1>10 DEF Next, Serve

(* Who dies by the assertion has a caller that has died.                   *)
LEMMA AssertsNext ==
  ASSUME IInv, [Next]_vars
  PROVE  AssertsSpreadDown'
<1>1. ASSUME NEW s \in Svc, NEW q \in Req, AssertOk(s, q) PROVE AssertsSpreadDown'
  <2>1. q \in orphan[s]
    BY <1>1 DEF AssertOk
  <2>2. Caller(s) \in died
    BY <2>1, Tree, Callers DEF IInv, DeathInv
  <2> QED BY <1>1, <2>2 DEF IInv, AssertsSpreadDown, AssertOk, Die
<1>2. ASSUME NEW s \in Svc, Crash(s) PROVE AssertsSpreadDown'
  BY <1>2 DEF IInv, AssertsSpreadDown, Crash, Die
<1>3. CASE /\ \A s \in Svc : ~Crash(s)
           /\ \A s \in Svc, q \in Req : ~AssertOk(s, q)
  <2>1. UNCHANGED <<asserts, died>>
    BY <1>3 DEF Next, Serve, vars, Request, Return, Restart, Accept, Finish, Delete, Drop, Record
  <2> QED BY <2>1 DEF IInv, AssertsSpreadDown
<1> QED BY <1>1, <1>2, <1>3

LEMMA IInvNext == IInv /\ [Next]_vars => IInv'
<1> SUFFICES ASSUME IInv, [Next]_vars PROVE IInv'
  OBVIOUS
<1>1. TypeOK'
  BY TypeNext DEF IInv
<1> QED BY <1>1, DeathInvNext, UnsentInvNext, WaitInvNext, OrphanInvNext, AssertsNext DEF IInv

(* Nothing is left alone but by a death of its caller, nothing starts      *)
(* before it is asked for, and every answer that is owed is waited for.    *)
THEOREM Invariance == Spec => []IInv
BY IInvInit, IInvNext, PTL DEF Spec

-----------------------------------------------------------------------------
(* What the frontend and the operator may rely on.                         *)

(* A service dies by its assertion only after its caller has died.         *)
THEOREM AssertsDown == Spec => []AssertsSpreadDown
<1>1. IInv => AssertsSpreadDown
  BY DEF IInv
<1> QED BY <1>1, Invariance, PTL

(* An http error means that s0 itself has died.                            *)
THEOREM ErrorsAreOfS0 == Spec => []ErrorsStopAtS0
<1>1. IInv => ErrorsStopAtS0
  BY DEF IInv, DeathInv, ErrorsStopAtS0
<1> QED BY <1>1, Invariance, PTL

(* When a request has been answered with success, what still goes on for   *)
(* it is work of callers that have died.                                   *)
THEOREM SuccessSettles == Spec => []SuccessIsSettled
<1>1. ASSUME IInv PROVE SuccessIsSettled
  <2> SUFFICES ASSUME NEW q \in Req, NEW s \in Svc, front[q] = "ok", Owes(s, q)
               PROVE  FALSE
    BY DEF SuccessIsSettled, Owes
  <2>1. \A c \in Svc : s \in Down[c] => stage[c][q] = "accepted"
    BY <1>1 DEF IInv, WaitInv
  <2>2. ~Owes("s0", q)
    BY <1>1, Tree DEF IInv, WaitInv
  <2>3. stage["s0"][q] \notin {"sent", "accepted"}
    BY <1>1, <2>2 DEF IInv, DeathInv, Owes
  <2>4. s = "s3" /\ stage["s1"][q] = "accepted"
    BY <2>1, <2>2, <2>3, Tree
  <2>5. q \in orphan["s1"]
    <3>1. Owes("s1", q) => stage["s0"][q] = "accepted"
      BY <1>1, Tree DEF IInv, WaitInv
    <3> QED BY <2>3, <2>4, <3>1 DEF Owes
  <2> QED BY <1>1, <2>4, <2>5, Tree DEF IInv, OrphanInv
<1> QED BY <1>1, Invariance, PTL

-----------------------------------------------------------------------------
(* The refinement of the rpc contract, tier by tier.                       *)

C(s) == INSTANCE RpcContract WITH Rpcs <- Down[s], rq <- Progress(s), done <- got[s]

(* While neither a service nor its caller has died, each step is a step of *)
(* the service's contract or leaves it alone.                              *)
LEMMA ContractStep ==
  ASSUME IInv, IInv', [Next]_vars, NEW s \in Svc, s \notin died',
         \A c \in Svc : s \in Down[c] => c \notin died'
  PROVE  C(s)!Next \/ UNCHANGED C(s)!vars
<1>1. died \subseteq died'
  <2>1. ASSUME NEW q \in Req, Request(q) \/ Return(q) PROVE died' = died
    BY <2>1 DEF Request, Return
  <2>2. ASSUME NEW d \in Svc, Crash(d) \/ Restart(d) PROVE died \subseteq died'
    BY <2>2 DEF Crash, Die, Restart
  <2>3. ASSUME NEW d \in Svc, NEW q \in Req, Serve(d, q) \/ Drop(d, q) PROVE died \subseteq died'
    <3>1. CASE AssertOk(d, q) BY <3>1 DEF AssertOk, Die
    <3>2. CASE Accept(d, q) BY <3>2 DEF Accept
    <3>3. CASE Finish(d, q) BY <3>3 DEF Finish
    <3>4. CASE Delete(d, q) BY <3>4 DEF Delete
    <3>5. CASE Drop(d, q) BY <3>5 DEF Drop
    <3> QED BY <2>3, <3>1, <3>2, <3>3, <3>4, <3>5 DEF Serve
  <2>4. ASSUME NEW d \in Svc, NEW e \in Svc, NEW q \in Req, Record(d, e, q) PROVE died' = died
    BY <2>4 DEF Record
  <2>5. CASE UNCHANGED vars
    BY <2>5 DEF vars
  <2> QED BY <2>1, <2>2, <2>3, <2>4, <2>5 DEF Next
<1>2. /\ orphan[s] = {} /\ up[s] /\ s \notin died
      /\ \A c \in Svc : s \in Down[c] => c \notin died
  BY <1>1, Tree DEF IInv, DeathInv
<1>3. /\ Down[s] \subseteq Svc /\ s \notin Down[s]
      /\ Progress(s) \in [Req -> Stage] /\ Progress(s)' \in [Req -> Stage]
      /\ got[s] \in [Req -> SUBSET Svc] /\ got'[s] \in [Req -> SUBSET Svc]
  BY Tree DEF IInv, TypeOK, Progress, Stage
<1>4. ASSUME \A q \in Req : stage'[s][q] = stage[s][q], got'[s] = got[s]
      PROVE  UNCHANGED C(s)!vars
  BY <1>4 DEF C!vars, Progress
<1>5. ASSUME NEW q \in Req, stage[s][q] = "unsent", stage'[s][q] = "sent", got'[s] = got[s],
             \A p \in Req \ {q} : stage'[s][p] = stage[s][p]
      PROVE  C(s)!Send(q)
  <2>1. Progress(s)[q] = "unsent" /\ Progress(s)'[q] = "sent"
        /\ \A p \in Req \ {q} : Progress(s)'[p] = Progress(s)[p]
    BY <1>5 DEF Progress
  <2> QED BY <1>3, <1>5, <2>1 DEF C!Send
<1>6. ASSUME NEW q \in Req, Request(q) PROVE C(s)!Next \/ UNCHANGED C(s)!vars
  <2>1. /\ got'[s] = got[s] /\ front[q] = "idle" /\ \A p \in Req : StartsAt({"s0"}, q, stage, s, p)
    BY <1>6, Requested
  <2>2. CASE s = "s0"
    <3>1. stage[s][q] = "unsent"
      BY <2>1, <2>2 DEF IInv, UnsentInv
    <3>2. stage'[s][q] = "sent" /\ \A p \in Req \ {q} : stage'[s][p] = stage[s][p]
      BY <1>2, <2>1, <2>2 DEF StartsAt
    <3> QED BY <1>5, <2>1, <3>1, <3>2 DEF C!Next
  <2>3. CASE s # "s0"
    BY <1>4, <2>1, <2>3 DEF StartsAt
  <2> QED BY <2>2, <2>3
<1>7. ASSUME NEW x \in Svc, NEW q \in Req, Accept(x, q) PROVE C(s)!Next \/ UNCHANGED C(s)!vars
  <2> DEFINE ns == [stage EXCEPT ![x][q] = "accepted"]
  <2>1. got'[s] = got[s] /\ stage[x][q] = "sent" /\ \A p \in Req : StartsAt(Down[x], q, ns, s, p)
    BY <1>7, Accepted
  <2>2. \A p \in Req : ns[s][p] = IF s = x /\ p = q THEN "accepted" ELSE stage[s][p]
    BY DEF IInv, TypeOK
  <2> HIDE DEF ns
  <2>3. CASE s = x
    <3>1. Progress(s)[q] = "sent" /\ Progress(s)'[q] = "accepted"
          /\ \A p \in Req \ {q} : Progress(s)'[p] = Progress(s)[p]
      BY <1>3, <2>1, <2>2, <2>3 DEF StartsAt, Progress
    <3>2. C(s)!Accept(q)
      BY <1>3, <2>1, <3>1 DEF C!Accept
    <3> QED BY <3>2 DEF C!Next
  <2>4. CASE s # x /\ s \in Down[x]
    <3>1. stage[s][q] = "unsent"
      BY <2>1, <2>4 DEF IInv, UnsentInv
    <3>2. stage'[s][q] = "sent" /\ \A p \in Req \ {q} : stage'[s][p] = stage[s][p]
      BY <1>2, <2>1, <2>2, <2>4 DEF StartsAt
    <3> QED BY <1>5, <2>1, <3>1, <3>2 DEF C!Next
  <2>5. CASE s # x /\ s \notin Down[x]
    BY <1>4, <2>1, <2>2, <2>5 DEF StartsAt
  <2> QED BY <2>3, <2>4, <2>5
<1>8. ASSUME NEW x \in Svc, NEW q \in Req, Finish(x, q) PROVE C(s)!Next \/ UNCHANGED C(s)!vars
  <2>1. CASE s = x
    <3>1. Progress(s)[q] = "accepted" /\ Progress(s)'[q] = "replied" /\ got[s][q] = Down[s] /\ got' = got
          /\ \A p \in Req \ {q} : Progress(s)'[p] = Progress(s)[p]
      BY <1>8, <2>1 DEF Finish, Progress, IInv, TypeOK
    <3>2. C(s)!Reply(q)
      BY <1>3, <3>1 DEF C!Reply
    <3> QED BY <3>2 DEF C!Next
  <2>2. CASE s # x
    BY <1>4, <1>8, <2>2 DEF Finish, IInv, TypeOK
  <2> QED BY <2>1, <2>2
<1>9. ASSUME NEW x \in Svc, NEW d \in Svc, NEW q \in Req, Record(x, d, q)
      PROVE  C(s)!Next \/ UNCHANGED C(s)!vars
  <2>1. CASE s = x
    <3>1. Progress(s)[q] = "accepted" /\ Progress(s)' = Progress(s) /\ d \in Down[s]
          /\ got'[s] = [got[s] EXCEPT ![q] = @ \cup {d}]
      BY <1>9, <2>1 DEF Record, Progress, IInv, TypeOK
    <3>2. d \notin got[s][q]
      BY <1>9, <2>1 DEF Record, IInv, WaitInv
    <3>3. C(s)!Complete(q, d)
      BY <3>1, <3>2 DEF C!Complete
    <3> QED BY <3>1, <3>3 DEF C!Next
  <2>2. CASE s # x
    BY <1>4, <1>9, <2>2 DEF Record, IInv, TypeOK
  <2> QED BY <2>1, <2>2
<1>10. ASSUME NEW x \in Svc, NEW q \in Req, Delete(x, q) PROVE UNCHANGED C(s)!vars
  <2>1. got' = got /\ \A p \in Req : Progress(s)'[p] = Progress(s)[p]
    BY <1>10 DEF Delete, Progress, IInv, TypeOK
  <2> QED BY <1>3, <2>1 DEF C!vars
<1>11. ASSUME NEW x \in Svc, Crash(x) \/ \E q \in Req : AssertOk(x, q) PROVE UNCHANGED C(s)!vars
  <2>1. got' = got /\ died' = died \cup {x} /\ \A q \in Req : DiesAt(x, s, q)
    BY <1>11, Died
  <2>2. x # s
    BY <2>1, <1>2
  <2> QED BY <1>4, <2>1, <2>2 DEF DiesAt
<1>12. ASSUME NEW x \in Svc, NEW q \in Req, Drop(x, q) PROVE UNCHANGED C(s)!vars
  BY <1>2, <1>4, <1>12 DEF Drop, IInv, TypeOK
<1>13. ASSUME NEW x \in Svc, Restart(x) PROVE UNCHANGED C(s)!vars
  BY <1>4, <1>13 DEF Restart
<1>14. ASSUME NEW q \in Req, Return(q) PROVE UNCHANGED C(s)!vars
  BY <1>4, <1>14 DEF Return
<1>15. CASE UNCHANGED vars
  BY <1>4, <1>15 DEF vars
<1> QED BY <1>6, <1>7, <1>8, <1>9, <1>10, <1>11, <1>12, <1>13, <1>14, <1>15 DEF Next, Serve

(* The four instances of the contract in ThreeTier are C of the services.  *)
LEMMA Instances ==
  /\ (C("s0")!Next <=> C0!Next) /\ (UNCHANGED C("s0")!vars <=> UNCHANGED C0!vars)
  /\ (C("s1")!Next <=> C1!Next) /\ (UNCHANGED C("s1")!vars <=> UNCHANGED C1!vars)
  /\ (C("s2")!Next <=> C2!Next) /\ (UNCHANGED C("s2")!vars <=> UNCHANGED C2!vars)
  /\ (C("s3")!Next <=> C3!Next) /\ (UNCHANGED C("s3")!vars <=> UNCHANGED C3!vars)
<1>1. (C("s0")!Next <=> C0!Next) /\ (UNCHANGED C("s0")!vars <=> UNCHANGED C0!vars)
  BY DEF C!Next, C!vars, C!Send, C!Accept, C!Reply, C!Complete,
         C0!Next, C0!vars, C0!Send, C0!Accept, C0!Reply, C0!Complete
<1>2. (C("s1")!Next <=> C1!Next) /\ (UNCHANGED C("s1")!vars <=> UNCHANGED C1!vars)
  BY DEF C!Next, C!vars, C!Send, C!Accept, C!Reply, C!Complete,
         C1!Next, C1!vars, C1!Send, C1!Accept, C1!Reply, C1!Complete
<1>3. (C("s2")!Next <=> C2!Next) /\ (UNCHANGED C("s2")!vars <=> UNCHANGED C2!vars)
  BY DEF C!Next, C!vars, C!Send, C!Accept, C!Reply, C!Complete,
         C2!Next, C2!vars, C2!Send, C2!Accept, C2!Reply, C2!Complete
<1>4. (C("s3")!Next <=> C3!Next) /\ (UNCHANGED C("s3")!vars <=> UNCHANGED C3!vars)
  BY DEF C!Next, C!vars, C!Send, C!Accept, C!Reply, C!Complete,
         C3!Next, C3!vars, C3!Send, C3!Accept, C3!Reply, C3!Complete
<1> QED BY <1>1, <1>2, <1>3, <1>4

(* As long as neither a service nor its caller has died, the service gives *)
(* its caller the contract of RpcContract, for any number of requests,     *)
(* whatever happens to the services below it and however often they die.   *)
THEOREM Contracts == Spec => KeepsContracts
<1> DEFINE Step == /\ "s0" \notin died'                => C0!Next \/ UNCHANGED C0!vars
                   /\ {"s0", "s1"} \cap died' = {}      => C1!Next \/ UNCHANGED C1!vars
                   /\ {"s0", "s2"} \cap died' = {}      => C2!Next \/ UNCHANGED C2!vars
                   /\ {"s1", "s3"} \cap died' = {}      => C3!Next \/ UNCHANGED C3!vars
<1>1. Init => C0!Init /\ C1!Init /\ C2!Init /\ C3!Init
  BY Tree DEF Init, Progress, C0!Init, C1!Init, C2!Init, C3!Init
<1>2. ASSUME IInv, IInv', [Next]_vars PROVE Step
  <2>1. "s0" \notin died' => C("s0")!Next \/ UNCHANGED C("s0")!vars
    BY <1>2, ContractStep, Tree
  <2>2. {"s0", "s1"} \cap died' = {} => C("s1")!Next \/ UNCHANGED C("s1")!vars
    BY <1>2, ContractStep, Tree
  <2>3. {"s0", "s2"} \cap died' = {} => C("s2")!Next \/ UNCHANGED C("s2")!vars
    BY <1>2, ContractStep, Tree
  <2>4. {"s1", "s3"} \cap died' = {} => C("s3")!Next \/ UNCHANGED C("s3")!vars
    BY <1>2, ContractStep, Tree
  <2> QED BY <2>1, <2>2, <2>3, <2>4, Instances
<1>3. [Next]_vars /\ IInv /\ IInv' => [Step]_vars
  BY <1>2
<1>4. Spec => [][Step]_vars
  BY <1>3, Invariance, PTL DEF Spec
<1>5. Spec => C0!Init /\ C1!Init /\ C2!Init /\ C3!Init
  BY <1>1 DEF Spec
<1> QED BY <1>4, <1>5 DEF KeepsContracts
================================================================================
