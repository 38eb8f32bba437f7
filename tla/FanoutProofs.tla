----------------------------- MODULE FanoutProofs -----------------------------
(***************************************************************************)
(* Proofs about FanoutService, for every number of requests, blocks and    *)
(* downstream rpcs and for any number of exceptions.  Type correctness     *)
(* holds whatever the allocator does; mutual exclusion, the single reply   *)
(* and the contract hold as long as it does not hand a freed block out     *)
(* again (Reuse = FALSE), which is when the unlock that follows the delete *)
(* of an object is harmless.                                               *)
(***************************************************************************)
EXTENDS FanoutService, TLAPS

(* The activations and the two other owners of the mutex are distinct.     *)
LEMMA Names ==
  /\ ReqTag \in Acts /\ FinTag \in Acts /\ Rpcs \subseteq Acts
  /\ Ctor \notin Acts /\ Nobody \notin Acts /\ Ctor # Nobody
  /\ ReqTag \notin Rpcs /\ FinTag \notin Rpcs /\ ReqTag # FinTag
BY FanoutAssumption DEF Acts, Rpcs, ReqTag, FinTag, Ctor, Nobody

LEMMA Pairs == \A x, y : <<x, y>>[1] = x /\ <<x, y>>[2] = y
OBVIOUS

-----------------------------------------------------------------------------
(* Type correctness.                                                       *)

LEMMA TypeInit == Init => TypeOK
<1> SUFFICES ASSUME Init PROVE TypeOK
  OBVIOUS
<1>1. PICK first \in Block : Init!(first)
  BY DEF Init
<1>2. 0 \in 0 .. N
  BY FanoutAssumption
<1>3. /\ mem \in [Block -> {"raw", "live", "freed"}] /\ status_ \in [Block -> Status]
      /\ mtx \in [Block -> Acts \cup {Ctor, Nobody}] /\ getResponse \in [Block -> SUBSET Rpcs]
      /\ call \in [Block -> Req \cup {None}]
  BY <1>1 DEF Status
<1>4. /\ pc \in [Block -> [Acts -> Label]] /\ nxt \in [Block -> [Acts -> 0 .. N]]
      /\ maker \in [Block -> (Block \X Acts) \cup {None}] /\ stale \in [Block -> Nat]
      /\ outstanding \in [Block -> [Rpcs -> Nat]]
  BY <1>1, <1>2 DEF Label
<1>5. /\ listening \in SUBSET Block /\ cq \in SUBSET (Block \X {ReqTag, FinTag})
      /\ rq \in [Req -> Stage] /\ faults \in Nat /\ aborted \in BOOLEAN
  BY <1>1 DEF Stage
<1> QED BY <1>3, <1>4, <1>5 DEF TypeOK

LEMMA TypeStep ==
  ASSUME TypeOK, NEW b \in Block, NEW a \in Acts, Step(b, a) \/ Throw(b, a)
  PROVE  TypeOK'
<1> USE FanoutAssumption, Names DEF TypeOK, Status, Label, Stage, At, Goto, object, thread, grpc
<1>1. CASE Lock(b, a)         BY <1>1 DEF Lock
<1>2. CASE StartProcess(b, a) BY <1>2 DEF StartProcess
<1>3. CASE Forward(b, a)
  <2>1. nxt[b][a] + 1 \in 0 .. N BY <1>3 DEF Forward, Rpcs
  <2>2. outstanding[b][nxt[b][a]] + 1 \in Nat BY <1>3 DEF Forward
  <2> QED BY <1>3, <2>1, <2>2 DEF Forward
<1>4. CASE EndProcess(b, a)   BY <1>4 DEF EndProcess
<1>5. CASE Record(b, a)       BY <1>5 DEF Record
<1>6. CASE AwaitMore(b, a)    BY <1>6 DEF AwaitMore
<1>7. CASE Finish(b, a)       BY <1>7 DEF Finish
<1>8. CASE FinishTwice(b, a)  BY <1>8 DEF FinishTwice
<1>9. CASE MarkDestroy(b, a)  BY <1>9 DEF MarkDestroy
<1>10. CASE Unlock(b, a)      BY <1>10 DEF Unlock
<1>11. CASE Delete(b, a)      BY <1>11 DEF Delete
<1>12. CASE Throw(b, a)       BY <1>12 DEF Throw
<1> QED BY <1>1, <1>2, <1>3, <1>4, <1>5, <1>6, <1>7, <1>8, <1>9, <1>10, <1>11, <1>12 DEF Step

LEMMA TypeNext == TypeOK /\ [Next]_vars => TypeOK'
<1> SUFFICES ASSUME TypeOK, [Next]_vars PROVE TypeOK'
  OBVIOUS
<1> USE FanoutAssumption, Names
<1>1. ASSUME NEW q \in Req, Send(q) PROVE TypeOK'
  BY <1>1 DEF TypeOK, Send, Stage, object, thread
<1>2. ASSUME NEW q \in Req, NEW b \in Block, Accept(q, b) PROVE TypeOK'
  BY <1>2 DEF TypeOK, Accept, Stage, thread
<1>3. ASSUME NEW b \in Block, NEW a \in {ReqTag, FinTag}, Dispatch(b, a) PROVE TypeOK'
  BY <1>3 DEF TypeOK, Dispatch, Goto, Label, object
<1>4. ASSUME NEW b \in Block, NEW r \in Rpcs, Respond(b, r) PROVE TypeOK'
  <2>1. outstanding[b][r] - 1 \in Nat BY <1>4 DEF Respond, TypeOK
  <2> QED BY <1>4, <2>1 DEF TypeOK, Respond, Goto, Label, object
<1>5. ASSUME NEW b \in Block, CtorReturn(b) PROVE TypeOK'
  <2>1. maker[b] \in Block \X Acts BY <1>5 DEF CtorReturn, TypeOK
  <2> QED BY <1>5, <2>1 DEF TypeOK, CtorReturn, Goto, Label, grpc
<1>6. ASSUME NEW b \in Block, StaleUnlock(b) PROVE TypeOK'
  BY <1>6 DEF TypeOK, StaleUnlock, grpc
<1>7. CASE UNCHANGED vars
  BY <1>7 DEF TypeOK, vars, object, thread, grpc
<1> QED BY <1>1, <1>2, <1>3, <1>4, <1>5, <1>6, <1>7, TypeStep DEF Next

(* Every variable keeps its type, whatever the allocator does: no response *)
(* is delivered that was not sent, and no client is forwarded to beyond    *)
(* the last.                                                               *)
THEOREM TypeCorrect == Spec => []TypeOK
BY TypeInit, TypeNext, PTL DEF Spec
-----------------------------------------------------------------------------
(* The inductive invariant, one lemma for the steps of an activation and   *)
(* one for the other steps.                                                *)

(* A raw block stays out of everything.                                    *)
LEMMA RawStep ==
  ASSUME Reuse = FALSE, TypeOK, RawInv, MutexInv, StatusInv, NEW b \in Block, NEW a \in Acts, Step(b, a) \/ Throw(b, a)
  PROVE  RawInv'
<1> USE Names, FanoutAssumption DEF TypeOK, RawInv, Inside, At, Goto, object, thread, grpc
<1>1. CASE Lock(b, a) BY <1>1 DEF Lock
<1>2. CASE StartProcess(b, a) BY <1>2 DEF StartProcess, Allocatable
<1>3. CASE Forward(b, a) BY <1>3 DEF Forward
<1>4. CASE EndProcess(b, a) BY <1>4 DEF EndProcess
<1>5. CASE Record(b, a) BY <1>5 DEF Record
<1>6. CASE AwaitMore(b, a) BY <1>6 DEF AwaitMore
<1>7. CASE Finish(b, a) BY <1>7 DEF Finish
<1>8. CASE FinishTwice(b, a) BY <1>8 DEF FinishTwice
<1>9. CASE MarkDestroy(b, a) BY <1>9 DEF MarkDestroy
<1>10. CASE Unlock(b, a) BY <1>10 DEF Unlock
<1>11. CASE Delete(b, a) BY <1>11 DEF Delete
<1>12. CASE Throw(b, a) BY <1>12 DEF Throw
<1> QED BY <1>1, <1>2, <1>3, <1>4, <1>5, <1>6, <1>7, <1>8, <1>9, <1>10, <1>11, <1>12 DEF Step

LEMMA RawOther ==
  ASSUME Reuse = FALSE, TypeOK, RawInv, MutexInv, [Next]_vars,
         ~ \E b \in Block, a \in Acts : Step(b, a) \/ Throw(b, a)
  PROVE  RawInv'
<1> USE Names, FanoutAssumption DEF TypeOK, RawInv, MutexInv, Inside, At, Goto, object, thread, grpc
<1>1. ASSUME NEW q \in Req, Send(q) PROVE RawInv'
  BY <1>1 DEF Send
<1>2. ASSUME NEW q \in Req, NEW b \in Block, Accept(q, b) PROVE RawInv'
  BY <1>2 DEF Accept
<1>3. ASSUME NEW b \in Block, NEW a \in {ReqTag, FinTag}, Dispatch(b, a) PROVE RawInv'
  BY <1>3 DEF Dispatch
<1>4. ASSUME NEW b \in Block, NEW r \in Rpcs, Respond(b, r) PROVE RawInv'
  BY <1>4 DEF Respond
<1>5. ASSUME NEW b \in Block, CtorReturn(b) PROVE RawInv'
  BY <1>5 DEF CtorReturn
<1>6. ASSUME NEW b \in Block, StaleUnlock(b) PROVE RawInv'
  BY <1>6 DEF StaleUnlock
<1>7. CASE UNCHANGED vars
  BY <1>7 DEF vars
<1> QED BY <1>1, <1>2, <1>3, <1>4, <1>5, <1>6, <1>7 DEF Next

(* The lock of Proceed and the unlocks that answer it.                     *)
LEMMA MutexStep ==
  ASSUME Reuse = FALSE, TypeOK, RawInv, MutexInv, StatusInv, NEW b \in Block, NEW a \in Acts, Step(b, a) \/ Throw(b, a)
  PROVE  MutexInv'
<1> USE Names, FanoutAssumption DEF TypeOK, RawInv, MutexInv, Inside, At, Goto, object, thread, grpc
<1>1. CASE Lock(b, a) BY <1>1 DEF Lock
<1>2. CASE StartProcess(b, a) BY <1>2 DEF StartProcess, Allocatable
<1>3. CASE Forward(b, a) BY <1>3 DEF Forward
<1>4. CASE EndProcess(b, a) BY <1>4 DEF EndProcess
<1>5. CASE Record(b, a) BY <1>5 DEF Record
<1>6. CASE AwaitMore(b, a) BY <1>6 DEF AwaitMore
<1>7. CASE Finish(b, a) BY <1>7 DEF Finish
<1>8. CASE FinishTwice(b, a) BY <1>8 DEF FinishTwice
<1>9. CASE MarkDestroy(b, a) BY <1>9 DEF MarkDestroy
<1>10. CASE Unlock(b, a) BY <1>10 DEF Unlock
<1>11. CASE Delete(b, a) BY <1>11 DEF Delete
<1>12. CASE Throw(b, a) BY <1>12 DEF Throw
<1> QED BY <1>1, <1>2, <1>3, <1>4, <1>5, <1>6, <1>7, <1>8, <1>9, <1>10, <1>11, <1>12 DEF Step

LEMMA MutexOther ==
  ASSUME Reuse = FALSE, TypeOK, RawInv, MutexInv, [Next]_vars,
         ~ \E b \in Block, a \in Acts : Step(b, a) \/ Throw(b, a)
  PROVE  MutexInv'
<1> USE Names, FanoutAssumption DEF TypeOK, RawInv, MutexInv, Inside, At, Goto, object, thread, grpc
<1>1. ASSUME NEW q \in Req, Send(q) PROVE MutexInv'
  BY <1>1 DEF Send
<1>2. ASSUME NEW q \in Req, NEW b \in Block, Accept(q, b) PROVE MutexInv'
  BY <1>2 DEF Accept
<1>3. ASSUME NEW b \in Block, NEW a \in {ReqTag, FinTag}, Dispatch(b, a) PROVE MutexInv'
  BY <1>3 DEF Dispatch
<1>4. ASSUME NEW b \in Block, NEW r \in Rpcs, Respond(b, r) PROVE MutexInv'
  BY <1>4 DEF Respond
<1>5. ASSUME NEW c \in Block, CtorReturn(c) PROVE MutexInv'
  <2>1. PICK b \in Block, a \in Acts : maker[c] = <<b, a>>
    BY <1>5 DEF CtorReturn
  <2>2. /\ pc' = [pc EXCEPT ![b][a] = "fwd"] /\ mtx' = [mtx EXCEPT ![c] = Nobody]
        /\ maker' = [maker EXCEPT ![c] = None] /\ stale' = stale
    BY <1>5, <2>1 DEF CtorReturn
  <2>3. maker[c] # None /\ mtx[c] = Ctor /\ stale[c] = 0 /\ pc[b][a] = "new"
    <3>1. maker[c] # None
      BY <1>5 DEF CtorReturn
    <3>2. mtx[c] = Ctor /\ stale[c] = 0 /\ pc[maker[c][1]][maker[c][2]] = "new"
      BY <3>1 DEF MutexInv
    <3>3. maker[c][1] = b /\ maker[c][2] = a
      BY <2>1, Pairs
    <3> QED BY <3>1, <3>2, <3>3
  <2>4. mtx[b] = a /\ b # c
    BY <2>3
  <2>5. \A x \in Acts : ~Inside(c, x)
    BY <2>3
  <2>6. \A d \in Block : d # c => maker[d] # <<b, a>>
    <3>1. \A d \in Block : maker[d] = maker[c] /\ maker[d] # None => d = c
      BY DEF MutexInv
    <3> HIDE DEF TypeOK, RawInv, MutexInv
    <3> QED BY <2>1, <2>3, <3>1
  <2>7. \A d \in Block, x \in Acts : Inside(d, x)' => mtx'[d] = x /\ stale'[d] = 0
    BY <2>2, <2>3, <2>4, <2>5
  <2>8. \A d \in Block : maker'[d] # None =>
          /\ mtx'[d] = Ctor /\ stale'[d] = 0
          /\ pc'[maker'[d][1]][maker'[d][2]] = "new"
    <3> SUFFICES ASSUME NEW d \in Block, maker'[d] # None
                 PROVE  /\ mtx'[d] = Ctor /\ stale'[d] = 0
                        /\ pc'[maker'[d][1]][maker'[d][2]] = "new"
      OBVIOUS
    <3>1. d # c /\ maker'[d] = maker[d]
      BY <2>2
    <3>2. PICK p \in Block, x \in Acts : maker[d] = <<p, x>>
      BY <3>1
    <3>3. <<p, x>> # <<b, a>>
      BY <2>6, <3>1, <3>2
    <3> QED BY <2>2, <3>1, <3>2, <3>3
  <2>9. \A d, e \in Block : maker'[d] = maker'[e] /\ maker'[d] # None => d = e
    BY <2>2
  <2>10. \A d \in Block : stale'[d] > 0 => stale'[d] = 1 /\ mtx'[d] # Nobody
    BY <2>2, <2>3
  <2> QED BY <2>7, <2>8, <2>9, <2>10
<1>6. ASSUME NEW b \in Block, StaleUnlock(b) PROVE MutexInv'
  BY <1>6 DEF StaleUnlock
<1>7. CASE UNCHANGED vars
  BY <1>7 DEF vars
<1> QED BY <1>1, <1>2, <1>3, <1>4, <1>5, <1>6, <1>7 DEF Next

(* Only the activation inside writes status_.                              *)
LEMMA StatusStep ==
  ASSUME Reuse = FALSE, TypeOK, RawInv, MutexInv, StatusInv, NEW b \in Block, NEW a \in Acts, Step(b, a) \/ Throw(b, a)
  PROVE  StatusInv'
<1> USE Names, FanoutAssumption DEF TypeOK, RawInv, MutexInv, StatusInv, Inside, At, Goto, object, thread, grpc
<1>1. CASE Lock(b, a) BY <1>1 DEF Lock
<1>2. CASE StartProcess(b, a) BY <1>2 DEF StartProcess, Allocatable
<1>3. CASE Forward(b, a) BY <1>3 DEF Forward
<1>4. CASE EndProcess(b, a) BY <1>4 DEF EndProcess
<1>5. CASE Record(b, a) BY <1>5 DEF Record
<1>6. CASE AwaitMore(b, a) BY <1>6 DEF AwaitMore
<1>7. CASE Finish(b, a) BY <1>7 DEF Finish
<1>8. CASE FinishTwice(b, a) BY <1>8 DEF FinishTwice
<1>9. CASE MarkDestroy(b, a) BY <1>9 DEF MarkDestroy
<1>10. CASE Unlock(b, a) BY <1>10 DEF Unlock
<1>11. CASE Delete(b, a) BY <1>11 DEF Delete
<1>12. CASE Throw(b, a) BY <1>12 DEF Throw
<1> QED BY <1>1, <1>2, <1>3, <1>4, <1>5, <1>6, <1>7, <1>8, <1>9, <1>10, <1>11, <1>12 DEF Step

LEMMA StatusOther ==
  ASSUME Reuse = FALSE, TypeOK, RawInv, MutexInv, StatusInv, [Next]_vars,
         ~ \E b \in Block, a \in Acts : Step(b, a) \/ Throw(b, a)
  PROVE  StatusInv'
<1> USE Names, FanoutAssumption DEF TypeOK, StatusInv, MutexInv, Inside, At, Goto, object, thread, grpc
<1>1. ASSUME NEW q \in Req, Send(q) PROVE StatusInv'
  BY <1>1 DEF Send
<1>2. ASSUME NEW q \in Req, NEW b \in Block, Accept(q, b) PROVE StatusInv'
  BY <1>2 DEF Accept
<1>3. ASSUME NEW b \in Block, NEW a \in {ReqTag, FinTag}, Dispatch(b, a) PROVE StatusInv'
  BY <1>3 DEF Dispatch
<1>4. ASSUME NEW b \in Block, NEW r \in Rpcs, Respond(b, r) PROVE StatusInv'
  BY <1>4 DEF Respond
<1>5. ASSUME NEW b \in Block, CtorReturn(b) PROVE StatusInv'
  BY <1>5 DEF CtorReturn
<1>6. ASSUME NEW b \in Block, StaleUnlock(b) PROVE StatusInv'
  BY <1>6 DEF StaleUnlock
<1>7. CASE UNCHANGED vars
  BY <1>7 DEF vars
<1> QED BY <1>1, <1>2, <1>3, <1>4, <1>5, <1>6, <1>7 DEF Next

LEMMA MarkedIsReplied ==
  ASSUME CallInv, NEW b \in Block, NEW a \in Acts, pc[b][a] = "mark"
  PROVE  call[b] # None /\ rq[call[b]] = "replied"
BY DEF CallInv

(* An object serves one request and answers it once.                      *)
LEMMA CallStep ==
  ASSUME Reuse = FALSE, TypeOK, RawInv, MutexInv, StatusInv, CallInv, NEW b \in Block, NEW a \in Acts, Step(b, a) \/ Throw(b, a)
  PROVE  CallInv'
<1> USE Names, FanoutAssumption DEF TypeOK, RawInv, MutexInv, StatusInv, CallInv, Inside, At, Goto, object, thread, grpc
<1>1. CASE Lock(b, a) BY <1>1 DEF Lock
<1>2. CASE StartProcess(b, a) BY <1>2 DEF StartProcess, Allocatable
<1>3. CASE Forward(b, a)
  <2>1. call[b] # None
    BY <1>3 DEF Forward
  <2>2. /\ UNCHANGED <<status_, getResponse, call, pc, listening, cq, rq>>
        /\ \A c \in Block, r \in Rpcs : c # b => outstanding'[c][r] = outstanding[c][r]
    BY <1>3 DEF Forward
  <2> QED BY <2>1, <2>2
<1>4. CASE EndProcess(b, a) BY <1>4 DEF EndProcess
<1>5. CASE Record(b, a)
  <2>1. call[b] # None /\ status_[b] = "FINISH"
    BY <1>5 DEF Record
  <2>2. /\ UNCHANGED <<status_, call, outstanding, listening, cq, rq>>
        /\ pc' = [pc EXCEPT ![b][a] = "check"] /\ pc[b][a] = "run"
        /\ \A c \in Block : c # b => getResponse'[c] = getResponse[c]
    BY <1>5 DEF Record
  <2> QED BY <2>1, <2>2
<1>6. CASE AwaitMore(b, a) BY <1>6 DEF AwaitMore
<1>7. CASE Finish(b, a) BY <1>7 DEF Finish
<1>8. CASE FinishTwice(b, a) BY <1>8 DEF FinishTwice
<1>9. CASE MarkDestroy(b, a)
  <2>1. call[b] # None /\ rq[call[b]] = "replied"
    BY <1>9, MarkedIsReplied DEF MarkDestroy
  <2>2. /\ UNCHANGED <<getResponse, call, outstanding, listening, cq, rq>>
        /\ pc' = [pc EXCEPT ![b][a] = "unlock"] /\ pc[b][a] = "mark"
        /\ status_' = [status_ EXCEPT ![b] = "DESTROY"]
    BY <1>9 DEF MarkDestroy
  <2>3. \A c \in Block, x \in Acts : c # b => pc'[c][x] = pc[c][x]
    BY <2>2
  <2> QED BY <2>1, <2>2, <2>3
<1>10. CASE Unlock(b, a) BY <1>10 DEF Unlock
<1>11. CASE Delete(b, a) BY <1>11 DEF Delete
<1>12. CASE Throw(b, a) BY <1>12 DEF Throw
<1> QED BY <1>1, <1>2, <1>3, <1>4, <1>5, <1>6, <1>7, <1>8, <1>9, <1>10, <1>11, <1>12 DEF Step

(* grpc gives a registered object its request.                             *)
LEMMA AcceptCall ==
  ASSUME TypeOK, CallInv, NEW q \in Req, NEW b \in Block, Accept(q, b)
  PROVE  CallInv'
<1>1. /\ rq[q] = "sent"
      /\ rq' = [rq EXCEPT ![q] = "accepted"] /\ call' = [call EXCEPT ![b] = q]
      /\ listening' = listening \ {b} /\ cq' = cq \cup {<<b, ReqTag>>}
      /\ status_' = status_ /\ getResponse' = getResponse
      /\ outstanding' = outstanding /\ pc' = pc
  BY DEF Accept, thread
<1>2. q # None
  BY FanoutAssumption
<1>3. call[b] = None /\ status_[b] # "DESTROY" /\ \A x \in Acts : pc[b][x] = "idle"
  BY DEF CallInv, Accept
<1>4. \A c \in Block : call[c] # q
  BY <1>1, <1>2 DEF CallInv
<1>5. call'[b] = q /\ rq'[q] = "accepted"
  BY <1>1 DEF TypeOK
<1>6. \A c \in Block : c # b => call'[c] = call[c] /\ (call[c] # None => rq'[call[c]] = rq[call[c]])
  BY <1>1, <1>4 DEF TypeOK
<1>7. \A c, d \in Block : call'[c] = call'[d] /\ call'[c] # None => c = d
  BY <1>4, <1>5, <1>6 DEF CallInv
<1>8. \A c \in Block, x \in Acts : <<c, x>> \in cq' /\ c # b => <<c, x>> \in cq
  BY <1>1
<1>9. ASSUME NEW c \in Block
      PROVE  /\ call'[c] # None => rq'[call'[c]] \in {"accepted", "replied"}
             /\ c \in listening' => call'[c] = None
             /\ call'[c] = None =>
                  /\ getResponse'[c] = {} /\ status_'[c] # "DESTROY"
                  /\ \A r \in Rpcs : outstanding'[c][r] = 0
                  /\ \A a \in Acts : pc'[c][a] = "idle" /\ <<c, a>> \notin cq'
             /\ status_'[c] = "DESTROY" => rq'[call'[c]] = "replied"
             /\ call'[c] # None /\ rq'[call'[c]] = "replied" =>
                  status_'[c] = "DESTROY" \/ \E a \in Acts : pc'[c][a] = "mark"
             /\ \A a \in Acts : pc'[c][a] = "mark" => rq'[call'[c]] = "replied"
  <2>1. CASE c = b
    BY <2>1, <1>1, <1>2, <1>3, <1>5
  <2>2. CASE c # b
    BY <2>2, <1>1, <1>6, <1>8 DEF CallInv
  <2> QED BY <2>1, <2>2
<1> QED BY <1>7, <1>9 DEF CallInv

LEMMA CallOther ==
  ASSUME Reuse = FALSE, TypeOK, RawInv, MutexInv, StatusInv, CallInv, [Next]_vars,
         ~ \E b \in Block, a \in Acts : Step(b, a) \/ Throw(b, a)
  PROVE  CallInv'
<1> USE Names, FanoutAssumption DEF TypeOK, MutexInv, CallInv, Inside, At, Goto, object, thread, grpc
<1>1. ASSUME NEW q \in Req, Send(q) PROVE CallInv'
  BY <1>1 DEF Send
<1>2. ASSUME NEW q \in Req, NEW b \in Block, Accept(q, b) PROVE CallInv'
  BY <1>2, AcceptCall
<1>3. ASSUME NEW b \in Block, NEW a \in {ReqTag, FinTag}, Dispatch(b, a) PROVE CallInv'
  BY <1>3 DEF Dispatch
<1>4. ASSUME NEW b \in Block, NEW r \in Rpcs, Respond(b, r) PROVE CallInv'
  BY <1>4 DEF Respond
<1>5. ASSUME NEW b \in Block, CtorReturn(b) PROVE CallInv'
  BY <1>5 DEF CtorReturn
<1>6. ASSUME NEW b \in Block, StaleUnlock(b) PROVE CallInv'
  BY <1>6 DEF StaleUnlock
<1>7. CASE UNCHANGED vars
  BY <1>7 DEF vars
<1> QED BY <1>1, <1>2, <1>3, <1>4, <1>5, <1>6, <1>7 DEF Next

(* With the mutex intact no activation reaches a second Finish.            *)
LEMMA NoSecondFinish ==
  ASSUME MutexInv, StatusInv, CallInv, NEW b \in Block, NEW a \in Acts, FinishTwice(b, a)
  PROVE  FALSE
<1>1. pc[b][a] = "check" /\ status_[b] = "FINISH" /\ call[b] # None
  BY DEF FinishTwice, At, StatusInv, CallInv
<1>2. PICK x \in Acts : pc[b][x] = "mark"
  BY <1>1 DEF FinishTwice, CallInv
<1>3. x = a
  BY <1>1, <1>2 DEF MutexInv, Inside
<1> QED BY <1>1, <1>2, <1>3

-----------------------------------------------------------------------------
(* The order of the calls of one object: OrderInv.                         *)

Ordered == /\ Reuse = FALSE /\ TypeOK /\ RawInv /\ MutexInv /\ StatusInv /\ CallInv
           /\ Orderly /\ FlightInv /\ FanOutInv /\ FirstInv /\ LastInv /\ RepliedInv
           /\ FreedIsQuiet

LEMMA FanOutOrder ==
  ASSUME NEW k \in Rpcs, NEW r \in Rpcs
  PROVE  /\ r >= k + 1 => r >= k /\ r # k
         /\ N <= 2 /\ r >= 1 => r >= k /\ r # 0
         /\ r # ReqTag
BY FanoutAssumption DEF Rpcs, ReqTag

(* What the parts of the invariant say at a label.                         *)
LEMMA NewHasNone ==
  ASSUME TypeOK, FlightInv, NEW b \in Block, NEW r \in Rpcs, pc[b][r] = "new"
  PROVE  outstanding[b][r] = 0
<1>1. outstanding[b][r] \in Nat
  BY DEF TypeOK
<1>2. outstanding[b][r] > 0 => pc[b][r] \in {"idle", "fwd", "unlock"}
  BY DEF FlightInv
<1> QED BY <1>1, <1>2

LEMMA ListeningIsIdle ==
  ASSUME CallInv, FirstInv, NEW b \in Block, b \in listening
  PROVE  /\ status_[b] = "PROCESS" /\ pc[b][ReqTag] = "idle"
         /\ \A r \in Rpcs : outstanding[b][r] = 0 /\ pc[b][r] = "idle"
<1>1. call[b] = None /\ status_[b] = "PROCESS"
  BY DEF CallInv, FirstInv
<1> QED BY <1>1, Names DEF CallInv

LEMMA CheckIsFinish ==
  ASSUME StatusInv, FirstInv, NEW b \in Block, NEW a \in Acts, pc[b][a] = "check"
  PROVE  a # ReqTag /\ status_[b] = "FINISH"
BY DEF StatusInv, FirstInv

LEMMA NoTags ==
  ASSUME NEW b, <<b, ReqTag>> \notin cq, <<b, FinTag>> \notin cq
  PROVE  cq \cap ({b} \X {ReqTag, FinTag}) = {}
OBVIOUS

(* Who is inside is there alone; the reply's tag finds status_ DESTROY.    *)
LEMMA Alone ==
  ASSUME MutexInv, NEW b \in Block, NEW a \in Acts, Inside(b, a)
  PROVE  maker[b] = None /\ \A x \in Acts : Inside(b, x) => x = a
BY Names DEF MutexInv

LEMMA FinTagRuns ==
  ASSUME MutexInv, CallInv, LastInv, NEW b \in Block, pc[b][FinTag] = "run"
  PROVE  status_[b] = "DESTROY"
<1>1. rq[call[b]] = "replied" /\ call[b] # None
  BY Names DEF LastInv, CallInv
<1>2. \A x \in Acts : pc[b][x] # "mark"
  BY Alone, Names DEF Inside
<1> QED BY <1>1, <1>2 DEF CallInv

(* The object is deleted by the tag of its reply, when all else is over.   *)
LEMMA DeleteIsLast ==
  ASSUME Ordered, NEW b \in Block, NEW a \in Acts, Delete(b, a)
  PROVE  /\ a = FinTag /\ \A x \in Acts \ {FinTag} : pc[b][x] = "idle"
         /\ \A r \in Rpcs : outstanding[b][r] = 0
         /\ <<b, FinTag>> \notin cq /\ <<b, ReqTag>> \notin cq
         /\ b \notin listening /\ maker[b] = None
<1>1. /\ pc[b][a] = "run" /\ status_[b] = "DESTROY"
      /\ MutexInv /\ CallInv /\ FlightInv /\ LastInv /\ RepliedInv
  BY DEF Delete, At, Ordered
<1>2. call[b] # None /\ rq[call[b]] = "replied"
  BY <1>1 DEF CallInv
<1>3. getResponse[b] = Rpcs /\ pc[b][ReqTag] = "idle" /\ <<b, ReqTag>> \notin cq
  BY <1>1, <1>2 DEF RepliedInv
<1>4. \A r \in Rpcs : outstanding[b][r] = 0 /\ pc[b][r] \in {"idle", "check", "mark", "unlock"}
  BY <1>1, <1>3 DEF FlightInv, Ordered, TypeOK
<1>5. a = FinTag
  BY <1>1, <1>3, <1>4 DEF Acts
<1>6. maker[b] = None /\ \A x \in Acts : Inside(b, x) => x = a
  BY <1>1, Alone DEF Inside
<1>7. \A x \in Acts \ {FinTag} : pc[b][x] = "idle"
  BY <1>3, <1>4, <1>5, <1>6 DEF Acts, Inside
<1>8. <<b, FinTag>> \notin cq /\ b \notin listening
  BY <1>1, <1>2, <1>5 DEF LastInv, CallInv
<1> QED BY <1>3, <1>4, <1>5, <1>6, <1>7, <1>8

(* A call goes out once and its response is recorded once.                 *)
LEMMA FlightStep ==
  ASSUME Ordered, Orderly', NEW b \in Block, NEW a \in Acts, Step(b, a) \/ Throw(b, a)
  PROVE  FlightInv'
<1> USE Names, FanoutAssumption DEF Ordered, TypeOK, Quiet, Inside, At, Goto, object, thread, grpc, FlightInv, FanOutInv, MutexInv, StatusInv, FirstInv, LastInv
<1>1. CASE Lock(b, a) BY <1>1 DEF Lock
<1>2. CASE StartProcess(b, a) BY <1>2 DEF StartProcess, Allocatable, RawInv
<1>3. CASE Forward(b, a) BY <1>3 DEF Forward
<1>4. CASE EndProcess(b, a) BY <1>4 DEF EndProcess
<1>5. CASE Record(b, a) BY <1>5 DEF Record
<1>6. CASE AwaitMore(b, a) BY <1>6 DEF AwaitMore
<1>7. CASE Finish(b, a) BY <1>7 DEF Finish
<1>8. CASE FinishTwice(b, a) BY <1>8, NoSecondFinish
<1>9. CASE MarkDestroy(b, a) BY <1>9 DEF MarkDestroy
<1>10. CASE Unlock(b, a) BY <1>10 DEF Unlock
<1>11. CASE Delete(b, a) BY <1>11 DEF Delete
<1>12. CASE Throw(b, a)
  <2>1. /\ UNCHANGED <<outstanding, getResponse, status_>> /\ faults' > 0 /\ N <= 2
        /\ pc' = [pc EXCEPT ![b][a] = "unlock"]
        /\ \/ pc[b][a] = "run" /\ status_[b] = "PROCESS"
           \/ pc[b][a] = "fwd" /\ nxt[b][a] \in Rpcs
           \/ pc[b][a] = "check"
    BY <1>12 DEF Throw, Orderly
  <2>2. ASSUME NEW c \in Block, NEW r \in Rpcs, r >= 1, status_[c] = "PROCESS", \A x \in Acts : pc'[c][x] # "fwd"
        PROVE  outstanding[c][r] = 0 /\ pc'[c][r] = "idle"
    <3>1. CASE c # b
      BY <2>1, <2>2, <3>1
    <3>2. CASE c = b /\ pc[b][a] = "run"
      BY <2>1, <2>2, <3>2
    <3>3. CASE c = b /\ pc[b][a] = "fwd"
      <4>1. a = ReqTag \/ a = 0
        BY <3>3
      <4>2. r >= nxt[b][a] /\ r # a
        BY <2>1, <2>2, <3>3, <4>1, FanOutOrder
      <4> QED BY <2>1, <3>3, <4>2
    <3>4. CASE c = b /\ pc[b][a] = "check"
      BY <2>2, <3>4
    <3> QED BY <2>1, <3>1, <3>2, <3>3, <3>4
  <2>3. ASSUME NEW c \in Block, NEW r \in Rpcs
        PROVE  /\ outstanding[c][r] > 0 => /\ outstanding[c][r] = 1 /\ r \notin getResponse[c]
                                           /\ pc'[c][r] \in {"idle", "fwd", "unlock"}
               /\ r \in getResponse[c]  => /\ pc'[c][r] \in {"idle", "check", "mark", "unlock"}
                                           /\ status_[c] \in {"FINISH", "DESTROY"}
    BY <2>1
  <2> QED BY <2>1, <2>2, <2>3
<1> QED BY <1>1, <1>2, <1>3, <1>4, <1>5, <1>6, <1>7, <1>8, <1>9, <1>10, <1>11, <1>12 DEF Step

LEMMA FlightOther ==
  ASSUME Ordered, Orderly', [Next]_vars, ~ \E b \in Block, a \in Acts : Step(b, a) \/ Throw(b, a)
  PROVE  FlightInv'
<1> USE Names, FanoutAssumption DEF Ordered, TypeOK, Quiet, Inside, At, Goto, object, thread, grpc, FlightInv, FanOutInv, MutexInv, CallInv
<1>1. ASSUME NEW q \in Req, Send(q) PROVE FlightInv'
  BY <1>1 DEF Send
<1>2. ASSUME NEW q \in Req, NEW b \in Block, Accept(q, b) PROVE FlightInv'
  BY <1>2 DEF Accept
<1>3. ASSUME NEW b \in Block, NEW a \in {ReqTag, FinTag}, Dispatch(b, a) PROVE FlightInv'
  BY <1>3 DEF Dispatch
<1>4. ASSUME NEW b \in Block, NEW r \in Rpcs, Respond(b, r) PROVE FlightInv'
  BY <1>4 DEF Respond
<1>5. ASSUME NEW c \in Block, CtorReturn(c) PROVE FlightInv'
  BY <1>5 DEF CtorReturn
<1>6. ASSUME NEW b \in Block, StaleUnlock(b) PROVE FlightInv'
  BY <1>6 DEF StaleUnlock
<1>7. CASE UNCHANGED vars
  BY <1>7 DEF vars
<1> QED BY <1>1, <1>2, <1>3, <1>4, <1>5, <1>6, <1>7 DEF Next

(* Before the fan-out no call is out and no response is handled, but of a   *)
(* first client that has been called once by a fan-out that failed.         *)
LEMMA QuietCalls ==
  ASSUME FlightInv, NEW b \in Block, NEW r \in Rpcs, status_[b] = "PROCESS",
         \A x \in Acts : pc[b][x] # "fwd", r >= 1 \/ faults = 0
  PROVE  pc[b][r] = "idle"
BY DEF FlightInv, Quiet

(* The clients are gone through in order, by the first activation there is. *)
LEMMA FanOutStep ==
  ASSUME Ordered, Orderly', NEW b \in Block, NEW a \in Acts, Step(b, a) \/ Throw(b, a)
  PROVE  FanOutInv'
<1> USE Names, FanoutAssumption DEF Ordered, TypeOK, Quiet, Inside, At, Goto, object, thread, grpc, FlightInv, FanOutInv, MutexInv, StatusInv, FirstInv, LastInv, CallInv
<1>1. CASE Lock(b, a) BY <1>1 DEF Lock
<1>2. CASE StartProcess(b, a)
  <2>1. PICK c \in Block : mem[c] = "raw"
    BY <1>2 DEF StartProcess, Allocatable
  <2>2. /\ pc[b][a] = "run" /\ status_[b] = "PROCESS" /\ pc' = [pc EXCEPT ![b][a] = "new"]
        /\ UNCHANGED <<outstanding, nxt, faults>>
    BY <1>2 DEF StartProcess
  <2>3. a = ReqTag \/ (a = 0 /\ faults > 0)
    <3>1. a # FinTag
      BY <2>2, FinTagRuns
    <3>2. \A x \in Acts : pc[b][x] # "fwd"
      BY <2>2, Alone
    <3>3. a \in Rpcs => ~(a >= 1 \/ faults = 0)
      BY <2>2, <3>2, QuietCalls
    <3> QED BY <3>1, <3>3 DEF Acts, Rpcs
  <2> QED BY <2>2, <2>3
<1>3. CASE Forward(b, a)
  <2>1. /\ pc[b][a] = "fwd" /\ pc' = pc /\ faults' = faults /\ nxt[b][a] \in Rpcs
        /\ nxt' = [nxt EXCEPT ![b][a] = nxt[b][a] + 1]
        /\ outstanding' = [outstanding EXCEPT ![b][nxt[b][a]] = outstanding[b][nxt[b][a]] + 1]
    BY <1>3 DEF Forward
  <2>2. ASSUME NEW c \in Block, NEW x \in Acts, pc[c][x] = "fwd", NEW r \in Rpcs, r >= nxt'[c][x]
        PROVE  outstanding'[c][r] = 0 /\ (r # x => pc[c][r] = "idle")
    <3>1. CASE c # b
      BY <2>1, <2>2, <3>1
    <3>2. CASE c = b
      <4>1. x = a
        BY <2>1, <2>2, <3>2
      <4>2. nxt'[c][x] = nxt[b][a] + 1
        BY <2>1, <3>2, <4>1
      <4>3. r >= nxt[b][a] /\ r # nxt[b][a]
        BY <2>1, <2>2, <4>2, FanOutOrder
      <4>4. outstanding'[c][r] = outstanding[c][r]
        BY <2>1, <3>2, <4>3
      <4> QED BY <2>1, <3>2, <4>1, <4>3, <4>4
    <3> QED BY <3>1, <3>2
  <2> QED BY <2>1, <2>2
<1>4. CASE EndProcess(b, a) BY <1>4 DEF EndProcess
<1>5. CASE Record(b, a) BY <1>5 DEF Record
<1>6. CASE AwaitMore(b, a) BY <1>6 DEF AwaitMore
<1>7. CASE Finish(b, a) BY <1>7 DEF Finish
<1>8. CASE FinishTwice(b, a) BY <1>8, NoSecondFinish
<1>9. CASE MarkDestroy(b, a) BY <1>9 DEF MarkDestroy
<1>10. CASE Unlock(b, a) BY <1>10 DEF Unlock
<1>11. CASE Delete(b, a) BY <1>11 DEF Delete
<1>12. CASE Throw(b, a) BY <1>12 DEF Throw, Orderly
<1> QED BY <1>1, <1>2, <1>3, <1>4, <1>5, <1>6, <1>7, <1>8, <1>9, <1>10, <1>11, <1>12 DEF Step

LEMMA FanOutOther ==
  ASSUME Ordered, Orderly', [Next]_vars, ~ \E b \in Block, a \in Acts : Step(b, a) \/ Throw(b, a)
  PROVE  FanOutInv'
<1> USE Names, FanoutAssumption DEF Ordered, TypeOK, Quiet, Inside, At, Goto, object, thread, grpc, FlightInv, FanOutInv, MutexInv, FirstInv, LastInv
<1>1. ASSUME NEW q \in Req, Send(q) PROVE FanOutInv'
  BY <1>1 DEF Send
<1>2. ASSUME NEW q \in Req, NEW b \in Block, Accept(q, b) PROVE FanOutInv'
  BY <1>2 DEF Accept
<1>3. ASSUME NEW b \in Block, NEW a \in {ReqTag, FinTag}, Dispatch(b, a) PROVE FanOutInv'
  BY <1>3 DEF Dispatch
<1>4. ASSUME NEW b \in Block, NEW r \in Rpcs, Respond(b, r) PROVE FanOutInv'
  BY <1>4 DEF Respond
<1>5. ASSUME NEW c \in Block, CtorReturn(c) PROVE FanOutInv'
  <2>1. PICK b \in Block, a \in Acts : maker[c] = <<b, a>>
    BY <1>5 DEF CtorReturn
  <2>2. /\ pc' = [pc EXCEPT ![b][a] = "fwd"] /\ nxt' = [nxt EXCEPT ![b][a] = 0]
        /\ UNCHANGED <<outstanding, faults>> /\ pc[b][a] = "new"
    <3>1. maker[c][1] = b /\ maker[c][2] = a
      BY <2>1, Pairs
    <3> QED BY <1>5, <3>1 DEF CtorReturn
  <2>3. status_[b] = "PROCESS" /\ \A x \in Acts : pc[b][x] # "fwd"
    BY <2>2 DEF StatusInv
  <2>4. ASSUME NEW r \in Rpcs PROVE outstanding[b][r] = 0 /\ (r # a => pc[b][r] = "idle")
    <3>1. CASE a = ReqTag
      BY <2>2, <3>1
    <3>2. CASE a = 0 /\ faults > 0 /\ r >= 1
      BY <2>3, <3>2
    <3>3. CASE a = 0 /\ r = 0
      BY <2>2, <3>3, NewHasNone
    <3> QED BY <2>2, <3>1, <3>2, <3>3 DEF Rpcs
  <2>5. ASSUME NEW d \in Block, NEW x \in Acts, NEW r \in Rpcs, pc'[d][x] = "fwd", r >= nxt'[d][x]
        PROVE  outstanding'[d][r] = 0 /\ (r # x => pc'[d][r] = "idle")
    <3>1. CASE d = b
      <4>1. x = a
        BY <2>2, <2>3, <2>5, <3>1
      <4> QED BY <2>2, <2>4, <3>1, <4>1
    <3>2. CASE d # b
      <4>1. pc'[d] = pc[d] /\ nxt'[d] = nxt[d]
        BY <2>2, <3>2
      <4> QED BY <2>2, <2>5, <4>1
    <3> QED BY <3>1, <3>2
  <2>6. \A d \in Block, x \in Acts : pc'[d][x] \in {"new", "fwd"} => pc[d][x] \in {"new", "fwd"}
    BY <2>2
  <2> QED BY <2>2, <2>5, <2>6
<1>6. ASSUME NEW b \in Block, StaleUnlock(b) PROVE FanOutInv'
  BY <1>6 DEF StaleUnlock
<1>7. CASE UNCHANGED vars
  BY <1>7 DEF vars
<1> QED BY <1>1, <1>2, <1>3, <1>4, <1>5, <1>6, <1>7 DEF Next

(* The tag of an object's request comes first.                             *)
LEMMA FirstStep ==
  ASSUME Ordered, Orderly', NEW b \in Block, NEW a \in Acts, Step(b, a) \/ Throw(b, a)
  PROVE  FirstInv'
<1> USE Names, FanoutAssumption DEF Ordered, TypeOK, Quiet, Inside, At, Goto, object, thread, grpc, FlightInv, FanOutInv, MutexInv, StatusInv, FirstInv, CallInv
<1>1. CASE Lock(b, a) BY <1>1 DEF Lock
<1>2. CASE StartProcess(b, a) BY <1>2 DEF StartProcess, Allocatable, RawInv
<1>3. CASE Forward(b, a)
  <2>1. /\ pc[b][a] = "fwd" /\ cq' = cq /\ listening' = listening
        /\ \A c \in Block \ {b} : /\ pc'[c] = pc[c] /\ outstanding'[c] = outstanding[c]
                                   /\ status_'[c] = status_[c]
        /\ \A x \in Acts : x # a => pc'[b][x] = pc[b][x]
        /\ pc'[b][a] \in {"fwd", "unlock"}
    BY <1>3 DEF Forward
  <2>2. a = ReqTag \/ (a = 0 /\ 0 \in Rpcs)
    BY <2>1 DEF Rpcs
  <2>3. ~(<<b, ReqTag>> \in cq \/ pc[b][ReqTag] \in {"lock", "run", "new"})
    <3>1. CASE a = ReqTag
      BY <2>1, <3>1
    <3>2. CASE a = 0 /\ 0 \in Rpcs
      BY <2>1, <3>2
    <3> QED BY <2>2, <3>1, <3>2
  <2>4. ~(<<b, ReqTag>> \in cq' \/ pc'[b][ReqTag] \in {"lock", "run", "new"}) /\ pc'[b][ReqTag] \notin {"check", "mark"}
    BY <2>1, <2>2, <2>3
  <2>5. b \notin listening
    BY <2>1
  <2>6. ASSUME NEW c \in Block, c # b
        PROVE  /\ c \in listening' => status_'[c] = "PROCESS"
               /\ <<c, ReqTag>> \in cq' => pc'[c][ReqTag] = "idle"
               /\ <<c, ReqTag>> \in cq' \/ pc'[c][ReqTag] \in {"lock", "run", "new"} =>
                    status_'[c] = "PROCESS" /\ \A r \in Rpcs : outstanding'[c][r] = 0 /\ pc'[c][r] = "idle"
               /\ pc'[c][ReqTag] \notin {"check", "mark"}
    BY <2>1, <2>6
  <2>7. /\ b \in listening' => status_'[b] = "PROCESS"
        /\ <<b, ReqTag>> \in cq' => pc'[b][ReqTag] = "idle"
        /\ <<b, ReqTag>> \in cq' \/ pc'[b][ReqTag] \in {"lock", "run", "new"} =>
             status_'[b] = "PROCESS" /\ \A r \in Rpcs : outstanding'[b][r] = 0 /\ pc'[b][r] = "idle"
        /\ pc'[b][ReqTag] \notin {"check", "mark"}
    BY <2>1, <2>4, <2>5
  <2> HIDE DEF Ordered, TypeOK, FlightInv, FanOutInv, MutexInv, StatusInv, CallInv
  <2> QED BY <2>6, <2>7
<1>4. CASE EndProcess(b, a)
  <2>1. /\ pc[b][a] = "fwd" /\ cq' = cq /\ listening' = listening
        /\ \A c \in Block \ {b} : /\ pc'[c] = pc[c] /\ outstanding'[c] = outstanding[c]
                                   /\ status_'[c] = status_[c]
        /\ \A x \in Acts : x # a => pc'[b][x] = pc[b][x]
        /\ pc'[b][a] \in {"fwd", "unlock"}
    BY <1>4 DEF EndProcess
  <2>2. a = ReqTag \/ (a = 0 /\ 0 \in Rpcs)
    BY <2>1 DEF Rpcs
  <2>3. ~(<<b, ReqTag>> \in cq \/ pc[b][ReqTag] \in {"lock", "run", "new"})
    <3>1. CASE a = ReqTag
      BY <2>1, <3>1
    <3>2. CASE a = 0 /\ 0 \in Rpcs
      BY <2>1, <3>2
    <3> QED BY <2>2, <3>1, <3>2
  <2>4. ~(<<b, ReqTag>> \in cq' \/ pc'[b][ReqTag] \in {"lock", "run", "new"}) /\ pc'[b][ReqTag] \notin {"check", "mark"}
    BY <2>1, <2>2, <2>3
  <2>5. b \notin listening
    BY <2>1
  <2>6. ASSUME NEW c \in Block, c # b
        PROVE  /\ c \in listening' => status_'[c] = "PROCESS"
               /\ <<c, ReqTag>> \in cq' => pc'[c][ReqTag] = "idle"
               /\ <<c, ReqTag>> \in cq' \/ pc'[c][ReqTag] \in {"lock", "run", "new"} =>
                    status_'[c] = "PROCESS" /\ \A r \in Rpcs : outstanding'[c][r] = 0 /\ pc'[c][r] = "idle"
               /\ pc'[c][ReqTag] \notin {"check", "mark"}
    BY <2>1, <2>6
  <2>7. /\ b \in listening' => status_'[b] = "PROCESS"
        /\ <<b, ReqTag>> \in cq' => pc'[b][ReqTag] = "idle"
        /\ <<b, ReqTag>> \in cq' \/ pc'[b][ReqTag] \in {"lock", "run", "new"} =>
             status_'[b] = "PROCESS" /\ \A r \in Rpcs : outstanding'[b][r] = 0 /\ pc'[b][r] = "idle"
        /\ pc'[b][ReqTag] \notin {"check", "mark"}
    BY <2>1, <2>4, <2>5
  <2> HIDE DEF Ordered, TypeOK, FlightInv, FanOutInv, MutexInv, StatusInv, CallInv
  <2> QED BY <2>6, <2>7
<1>5. CASE Record(b, a) BY <1>5 DEF Record
<1>6. CASE AwaitMore(b, a) BY <1>6 DEF AwaitMore
<1>7. CASE Finish(b, a) BY <1>7 DEF Finish
<1>8. CASE FinishTwice(b, a) BY <1>8, NoSecondFinish
<1>9. CASE MarkDestroy(b, a) BY <1>9 DEF MarkDestroy
<1>10. CASE Unlock(b, a) BY <1>10 DEF Unlock
<1>11. CASE Delete(b, a) BY <1>11 DEF Delete
<1>12. CASE Throw(b, a) BY <1>12 DEF Throw, Orderly
<1> QED BY <1>1, <1>2, <1>3, <1>4, <1>5, <1>6, <1>7, <1>8, <1>9, <1>10, <1>11, <1>12 DEF Step

LEMMA FirstOther ==
  ASSUME Ordered, Orderly', [Next]_vars, ~ \E b \in Block, a \in Acts : Step(b, a) \/ Throw(b, a)
  PROVE  FirstInv'
<1> USE Names, FanoutAssumption DEF Ordered, TypeOK, Quiet, Inside, At, Goto, object, thread, grpc, FlightInv, CallInv, FirstInv, MutexInv
<1>1. ASSUME NEW q \in Req, Send(q) PROVE FirstInv'
  BY <1>1 DEF Send
<1>2. ASSUME NEW q \in Req, NEW b \in Block, Accept(q, b) PROVE FirstInv'
  <2>1. /\ b \in listening /\ listening' = listening \ {b} /\ cq' = cq \cup {<<b, ReqTag>>}
        /\ UNCHANGED <<status_, pc, outstanding>>
    BY <1>2 DEF Accept
  <2>2. /\ status_[b] = "PROCESS" /\ pc[b][ReqTag] = "idle"
        /\ \A r \in Rpcs : outstanding[b][r] = 0 /\ pc[b][r] = "idle"
    BY <2>1, ListeningIsIdle
  <2>3. \A c \in Block \ {b} : <<c, ReqTag>> \in cq' => <<c, ReqTag>> \in cq
    BY <2>1
  <2> QED BY <2>1, <2>2, <2>3
<1>3. ASSUME NEW b \in Block, NEW a \in {ReqTag, FinTag}, Dispatch(b, a) PROVE FirstInv'
  BY <1>3 DEF Dispatch
<1>4. ASSUME NEW b \in Block, NEW r \in Rpcs, Respond(b, r) PROVE FirstInv'
  BY <1>4 DEF Respond
<1>5. ASSUME NEW c \in Block, CtorReturn(c) PROVE FirstInv'
  BY <1>5 DEF CtorReturn
<1>6. ASSUME NEW b \in Block, StaleUnlock(b) PROVE FirstInv'
  BY <1>6 DEF StaleUnlock
<1>7. CASE UNCHANGED vars
  BY <1>7 DEF vars
<1> QED BY <1>1, <1>2, <1>3, <1>4, <1>5, <1>6, <1>7 DEF Next

(* The tag of an object's reply comes last.                                *)
LEMMA LastStep ==
  ASSUME Ordered, Orderly', NEW b \in Block, NEW a \in Acts, Step(b, a) \/ Throw(b, a)
  PROVE  LastInv'
<1> USE Names, FanoutAssumption DEF Ordered, TypeOK, Quiet, Inside, At, Goto, object, thread, grpc, MutexInv, StatusInv, LastInv, CallInv
<1>1. CASE Lock(b, a) BY <1>1 DEF Lock
<1>2. CASE StartProcess(b, a) BY <1>2 DEF StartProcess, Allocatable, RawInv
<1>3. CASE Forward(b, a) BY <1>3 DEF Forward
<1>4. CASE EndProcess(b, a) BY <1>4 DEF EndProcess
<1>5. CASE Record(b, a) BY <1>5 DEF Record
<1>6. CASE AwaitMore(b, a) BY <1>6 DEF AwaitMore
<1>7. CASE Finish(b, a) BY <1>7 DEF Finish
<1>8. CASE FinishTwice(b, a) BY <1>8, NoSecondFinish
<1>9. CASE MarkDestroy(b, a) BY <1>9 DEF MarkDestroy
<1>10. CASE Unlock(b, a) BY <1>10 DEF Unlock
<1>11. CASE Delete(b, a) BY <1>11 DEF Delete
<1>12. CASE Throw(b, a) BY <1>12 DEF Throw, Orderly
<1> QED BY <1>1, <1>2, <1>3, <1>4, <1>5, <1>6, <1>7, <1>8, <1>9, <1>10, <1>11, <1>12 DEF Step

LEMMA LastOther ==
  ASSUME Ordered, Orderly', [Next]_vars, ~ \E b \in Block, a \in Acts : Step(b, a) \/ Throw(b, a)
  PROVE  LastInv'
<1> USE Names, FanoutAssumption DEF Ordered, TypeOK, Quiet, Inside, At, Goto, object, thread, grpc, CallInv, LastInv
<1>1. ASSUME NEW q \in Req, Send(q) PROVE LastInv'
  BY <1>1 DEF Send
<1>2. ASSUME NEW q \in Req, NEW b \in Block, Accept(q, b) PROVE LastInv'
  BY <1>2 DEF Accept
<1>3. ASSUME NEW b \in Block, NEW a \in {ReqTag, FinTag}, Dispatch(b, a) PROVE LastInv'
  BY <1>3 DEF Dispatch
<1>4. ASSUME NEW b \in Block, NEW r \in Rpcs, Respond(b, r) PROVE LastInv'
  BY <1>4 DEF Respond
<1>5. ASSUME NEW c \in Block, CtorReturn(c) PROVE LastInv'
  <2>1. PICK b \in Block, a \in Acts : maker[c] = <<b, a>>
    BY <1>5 DEF CtorReturn
  <2>2. /\ pc' = [pc EXCEPT ![b][a] = "fwd"] /\ pc[b][a] = "new"
        /\ UNCHANGED <<cq, rq, call, getResponse>>
    <3>1. maker[c][1] = b /\ maker[c][2] = a
      BY <2>1, Pairs
    <3> QED BY <1>5, <3>1 DEF CtorReturn, MutexInv
  <2>3. a # FinTag
    BY <2>2
  <2>4. \A d \in Block : pc'[d][FinTag] = pc[d][FinTag]
    BY <2>2, <2>3
  <2> QED BY <2>2, <2>4
<1>6. ASSUME NEW b \in Block, StaleUnlock(b) PROVE LastInv'
  BY <1>6 DEF StaleUnlock
<1>7. CASE UNCHANGED vars
  BY <1>7 DEF vars
<1> QED BY <1>1, <1>2, <1>3, <1>4, <1>5, <1>6, <1>7 DEF Next

(* The reply comes after all responses.                                    *)
LEMMA RepliedStep ==
  ASSUME Ordered, Orderly', NEW b \in Block, NEW a \in Acts, Step(b, a) \/ Throw(b, a)
  PROVE  RepliedInv'
<1> USE Names, FanoutAssumption DEF Ordered, TypeOK, Quiet, Inside, At, Goto, object, thread, grpc, FlightInv, MutexInv, StatusInv, FirstInv, RepliedInv, CallInv
<1>1. CASE Lock(b, a) BY <1>1 DEF Lock
<1>2. CASE StartProcess(b, a) BY <1>2 DEF StartProcess, Allocatable, RawInv
<1>3. CASE Forward(b, a) BY <1>3 DEF Forward
<1>4. CASE EndProcess(b, a) BY <1>4 DEF EndProcess
<1>5. CASE Record(b, a) BY <1>5 DEF Record
<1>6. CASE AwaitMore(b, a) BY <1>6 DEF AwaitMore
<1>7. CASE Finish(b, a)
  <2>1. /\ pc[b][a] = "check" /\ getResponse[b] = Rpcs /\ call[b] # None
        /\ rq' = [rq EXCEPT ![call[b]] = "replied"] /\ cq' = cq \cup {<<b, FinTag>>}
        /\ pc' = [pc EXCEPT ![b][a] = "mark"] /\ UNCHANGED <<call, getResponse>>
    BY <1>7 DEF Finish
  <2>2. a # ReqTag /\ pc[b][ReqTag] = "idle" /\ <<b, ReqTag>> \notin cq
    <3>1. a # ReqTag /\ status_[b] = "FINISH"
      BY <2>1, CheckIsFinish
    <3>2. pc[b][ReqTag] \notin {"run", "new", "fwd", "check", "mark", "unlock"}
      BY <2>1, <3>1
    <3> QED BY <3>1, <3>2 DEF Label
  <2>3. \A c \in Block \ {b} : /\ pc'[c] = pc[c]
                               /\ call[c] # None => rq'[call[c]] = rq[call[c]]
    BY <2>1
  <2>4. \A c \in Block : <<c, ReqTag>> \in cq' => <<c, ReqTag>> \in cq
    BY <2>1, Pairs
  <2> QED BY <2>1, <2>2, <2>3, <2>4
<1>8. CASE FinishTwice(b, a) BY <1>8, NoSecondFinish
<1>9. CASE MarkDestroy(b, a) BY <1>9 DEF MarkDestroy
<1>10. CASE Unlock(b, a) BY <1>10 DEF Unlock
<1>11. CASE Delete(b, a) BY <1>11 DEF Delete
<1>12. CASE Throw(b, a) BY <1>12 DEF Throw, Orderly
<1> QED BY <1>1, <1>2, <1>3, <1>4, <1>5, <1>6, <1>7, <1>8, <1>9, <1>10, <1>11, <1>12 DEF Step

LEMMA RepliedOther ==
  ASSUME Ordered, Orderly', [Next]_vars, ~ \E b \in Block, a \in Acts : Step(b, a) \/ Throw(b, a)
  PROVE  RepliedInv'
<1> USE Names, FanoutAssumption DEF Ordered, TypeOK, Quiet, Inside, At, Goto, object, thread, grpc, CallInv, RepliedInv
<1>1. ASSUME NEW q \in Req, Send(q) PROVE RepliedInv'
  BY <1>1 DEF Send
<1>2. ASSUME NEW q \in Req, NEW b \in Block, Accept(q, b) PROVE RepliedInv'
  BY <1>2 DEF Accept
<1>3. ASSUME NEW b \in Block, NEW a \in {ReqTag, FinTag}, Dispatch(b, a) PROVE RepliedInv'
  BY <1>3 DEF Dispatch
<1>4. ASSUME NEW b \in Block, NEW r \in Rpcs, Respond(b, r) PROVE RepliedInv'
  BY <1>4 DEF Respond
<1>5. ASSUME NEW c \in Block, CtorReturn(c) PROVE RepliedInv'
  <2>1. PICK b \in Block, a \in Acts : maker[c] = <<b, a>>
    BY <1>5 DEF CtorReturn
  <2>2. /\ pc' = [pc EXCEPT ![b][a] = "fwd"] /\ pc[b][a] = "new"
        /\ UNCHANGED <<cq, rq, call, getResponse>>
    <3>1. maker[c][1] = b /\ maker[c][2] = a
      BY <2>1, Pairs
    <3> QED BY <1>5, <3>1 DEF CtorReturn, MutexInv
  <2>3. \A d \in Block : pc[d][ReqTag] = "idle" => pc'[d][ReqTag] = "idle"
    BY <2>2
  <2> QED BY <2>2, <2>3
<1>6. ASSUME NEW b \in Block, StaleUnlock(b) PROVE RepliedInv'
  BY <1>6 DEF StaleUnlock
<1>7. CASE UNCHANGED vars
  BY <1>7 DEF vars
<1> QED BY <1>1, <1>2, <1>3, <1>4, <1>5, <1>6, <1>7 DEF Next

(* The reply's tag is the last thing that reaches an object.               *)
LEMMA FreedStep ==
  ASSUME Ordered, Orderly', NEW b \in Block, NEW a \in Acts, Step(b, a) \/ Throw(b, a)
  PROVE  FreedIsQuiet'
<1> USE Names, FanoutAssumption DEF Ordered, TypeOK, Quiet, Inside, At, Goto, object, thread, grpc, FlightInv, MutexInv, StatusInv, LastInv, CallInv, FreedIsQuiet
<1>1. CASE Lock(b, a) BY <1>1 DEF Lock
<1>2. CASE StartProcess(b, a) BY <1>2 DEF StartProcess, Allocatable, RawInv
<1>3. CASE Forward(b, a) BY <1>3 DEF Forward
<1>4. CASE EndProcess(b, a) BY <1>4 DEF EndProcess
<1>5. CASE Record(b, a) BY <1>5 DEF Record
<1>6. CASE AwaitMore(b, a) BY <1>6 DEF AwaitMore
<1>7. CASE Finish(b, a) BY <1>7 DEF Finish
<1>8. CASE FinishTwice(b, a) BY <1>8, NoSecondFinish
<1>9. CASE MarkDestroy(b, a) BY <1>9 DEF MarkDestroy
<1>10. CASE Unlock(b, a) BY <1>10 DEF Unlock
<1>11. CASE Delete(b, a)
  <2>1. /\ pc[b][a] = "run" /\ status_[b] = "DESTROY" /\ mem' = [mem EXCEPT ![b] = "freed"]
        /\ pc' = [pc EXCEPT ![b][a] = "idle"] /\ UNCHANGED <<outstanding, cq, listening, maker>>
    BY <1>11 DEF Delete
  <2>2. /\ a = FinTag /\ \A x \in Acts \ {FinTag} : pc[b][x] = "idle"
        /\ \A r \in Rpcs : outstanding[b][r] = 0
        /\ <<b, FinTag>> \notin cq /\ <<b, ReqTag>> \notin cq
        /\ b \notin listening /\ maker[b] = None
    BY <1>11, DeleteIsLast
  <2>3. \A x \in Acts : pc'[b][x] = "idle"
    BY <2>1, <2>2
  <2>4. cq \cap ({b} \X {ReqTag, FinTag}) = {}
    BY <2>2, NoTags
  <2>9. ASSUME NEW c \in Block, c # b, mem'[c] = "freed"
        PROVE  /\ \A x \in Acts : pc'[c][x] = "idle"
               /\ \A r \in Rpcs : outstanding[c][r] = 0
               /\ cq \cap ({c} \X {ReqTag, FinTag}) = {}
               /\ c \notin listening /\ maker[c] = None
    BY <2>1, <2>9
  <2> QED BY <2>1, <2>2, <2>3, <2>4, <2>9
<1>12. CASE Throw(b, a) BY <1>12 DEF Throw, Orderly
<1> QED BY <1>1, <1>2, <1>3, <1>4, <1>5, <1>6, <1>7, <1>8, <1>9, <1>10, <1>11, <1>12 DEF Step

LEMMA FreedOther ==
  ASSUME Ordered, Orderly', [Next]_vars, ~ \E b \in Block, a \in Acts : Step(b, a) \/ Throw(b, a)
  PROVE  FreedIsQuiet'
<1> USE Names, FanoutAssumption DEF Ordered, TypeOK, Quiet, Inside, At, Goto, object, thread, grpc, MutexInv, FreedIsQuiet
<1>1. ASSUME NEW q \in Req, Send(q) PROVE FreedIsQuiet'
  BY <1>1 DEF Send
<1>2. ASSUME NEW q \in Req, NEW b \in Block, Accept(q, b) PROVE FreedIsQuiet'
  BY <1>2 DEF Accept
<1>3. ASSUME NEW b \in Block, NEW a \in {ReqTag, FinTag}, Dispatch(b, a) PROVE FreedIsQuiet'
  BY <1>3 DEF Dispatch
<1>4. ASSUME NEW b \in Block, NEW r \in Rpcs, Respond(b, r) PROVE FreedIsQuiet'
  BY <1>4 DEF Respond
<1>5. ASSUME NEW c \in Block, CtorReturn(c) PROVE FreedIsQuiet'
  BY <1>5 DEF CtorReturn
<1>6. ASSUME NEW b \in Block, StaleUnlock(b) PROVE FreedIsQuiet'
  BY <1>6 DEF StaleUnlock
<1>7. CASE UNCHANGED vars
  BY <1>7 DEF vars
<1> QED BY <1>1, <1>2, <1>3, <1>4, <1>5, <1>6, <1>7 DEF Next

(* Exceptions are never forgotten.                                         *)
LEMMA OrderlyBefore == TypeOK /\ [Next]_vars /\ Orderly' => Orderly
<1> SUFFICES ASSUME TypeOK, [Next]_vars, Orderly' PROVE Orderly
  OBVIOUS
<1>1. ASSUME NEW b \in Block, NEW a \in Acts, Step(b, a) \/ Throw(b, a)
      PROVE  faults' = faults \/ faults' = faults + 1
  BY <1>1 DEF Step, Throw, Lock, StartProcess, Forward, EndProcess, Record, AwaitMore, Finish, FinishTwice,
              MarkDestroy, Unlock, Delete
<1>2. ASSUME ~ \E b \in Block, a \in Acts : Step(b, a) \/ Throw(b, a)
      PROVE  faults' = faults
  BY <1>2 DEF Next, Send, Accept, Dispatch, Respond, CtorReturn, StaleUnlock, vars
<1>3. faults' = 0 => faults = 0
  BY <1>1, <1>2 DEF TypeOK
<1> QED BY <1>3 DEF Orderly

LEMMA OrderNext == ASSUME Reuse = FALSE, IInv, [Next]_vars PROVE OrderInv'
<1> SUFFICES ASSUME Orderly' PROVE /\ FlightInv' /\ FanOutInv' /\ FirstInv' /\ LastInv'
                                   /\ RepliedInv' /\ FreedIsQuiet'
  BY DEF OrderInv
<1>1. Ordered
  BY OrderlyBefore DEF IInv, OrderInv, Ordered
<1>2. CASE \E b \in Block, a \in Acts : Step(b, a) \/ Throw(b, a)
  BY <1>1, <1>2, FlightStep, FanOutStep, FirstStep, LastStep, RepliedStep, FreedStep
<1>3. CASE ~ \E b \in Block, a \in Acts : Step(b, a) \/ Throw(b, a)
  BY <1>1, <1>3, FlightOther, FanOutOther, FirstOther, LastOther, RepliedOther, FreedOther
<1> QED BY <1>2, <1>3

LEMMA IInvInit == Init => IInv
<1> SUFFICES ASSUME Init PROVE IInv
  OBVIOUS
<1>1. TypeOK
  BY TypeInit
<1>2. \A b \in Block, a \in Acts : pc[b][a] = "idle" /\ <<b, a>> \notin cq
  BY DEF Init
<1>3. \A b \in Block : /\ call[b] = None /\ maker[b] = None /\ stale[b] = 0 /\ getResponse[b] = {}
                       /\ status_[b] # "DESTROY" /\ \A r \in Rpcs : outstanding[b][r] = 0
                       /\ mem[b] # "freed" /\ (mem[b] = "raw" => b \notin listening)
  BY DEF Init
<1>4. NeverAborted
  BY DEF Init, NeverAborted
<1>5. RawInv
  BY <1>2, <1>3 DEF RawInv
<1>6. MutexInv
  <2>1. \A b \in Block, a \in Acts : ~Inside(b, a)
    BY <1>2 DEF Inside
  <2>2. \A b \in Block : ~(stale[b] > 0)
    BY <1>3
  <2> QED BY <1>3, <2>1, <2>2, Zenon DEF MutexInv
<1>7. StatusInv
  BY <1>2, <1>3 DEF StatusInv
<1>8. CallInv
  BY <1>2, <1>3 DEF CallInv
<1>9. OrderInv
  <2>1. FlightInv
    <3>1. \A b \in Block, r \in Rpcs : Quiet(b, r) /\ ~(outstanding[b][r] > 0) /\ r \notin getResponse[b]
      <4> SUFFICES ASSUME NEW b \in Block, NEW r \in Rpcs
                   PROVE  Quiet(b, r) /\ ~(outstanding[b][r] > 0) /\ r \notin getResponse[b]
        OBVIOUS
      <4>1. outstanding[b][r] = 0 /\ getResponse[b] = {}
        BY <1>3
      <4>2. pc[b][r] = "idle"
        BY <1>2, Names
      <4> QED BY <4>1, <4>2 DEF Quiet
    <3> QED BY <3>1 DEF FlightInv
  <2>2. FanOutInv
    BY <1>2 DEF FanOutInv
  <2>3. FirstInv
    <3>1. \A b \in Block : b \in listening => status_[b] = "PROCESS"
      BY DEF Init
    <3> QED BY <1>2, <3>1, Names DEF FirstInv
  <2>4. LastInv
    BY <1>2, Names DEF LastInv
  <2>5. RepliedInv
    BY <1>3 DEF RepliedInv
  <2>6. FreedIsQuiet
    BY <1>3 DEF FreedIsQuiet
  <2> QED BY <2>1, <2>2, <2>3, <2>4, <2>5, <2>6 DEF OrderInv
<1> QED BY <1>1, <1>4, <1>5, <1>6, <1>7, <1>8, <1>9 DEF IInv

LEMMA IInvNext == Reuse = FALSE /\ IInv /\ [Next]_vars => IInv'
<1> SUFFICES ASSUME Reuse = FALSE, IInv, [Next]_vars PROVE IInv'
  OBVIOUS
<1>1. TypeOK'
  BY TypeNext DEF IInv
<1>2. ASSUME NEW b \in Block, NEW a \in Acts, Step(b, a) \/ Throw(b, a) PROVE IInv'
  <2>1. RawInv' /\ MutexInv' /\ StatusInv' /\ CallInv'
    BY <1>2, RawStep, MutexStep, StatusStep, CallStep DEF IInv
  <2>2. ~FinishTwice(b, a)
    BY NoSecondFinish DEF IInv
  <2>3. NeverAborted'
    BY <1>2, <2>2 DEF IInv, NeverAborted, Step, Lock, StartProcess, Forward, EndProcess, Record,
       AwaitMore, Finish, MarkDestroy, Unlock, Delete, Throw
  <2> QED BY <1>1, <2>1, <2>3, OrderNext DEF IInv
<1>3. CASE ~ \E b \in Block, a \in Acts : Step(b, a) \/ Throw(b, a)
  <2>1. RawInv' /\ MutexInv' /\ StatusInv' /\ CallInv'
    BY <1>3, RawOther, MutexOther, StatusOther, CallOther DEF IInv
  <2>2. NeverAborted'
    BY <1>3 DEF IInv, NeverAborted, Next, Send, Accept, Dispatch, Respond, CtorReturn, StaleUnlock, vars
  <2> QED BY <1>1, <2>1, <2>2, OrderNext DEF IInv
<1> QED BY <1>2, <1>3

(* The inductive invariant: who is inside owns the mutex, an object serves *)
(* one request, and its calls, responses and tags come in order.           *)
THEOREM Invariance == ASSUME Reuse = FALSE PROVE Spec => []IInv
<1>1. IInv /\ [Next]_vars => IInv'
  BY IInvNext
<1> QED BY <1>1, IInvInit, PTL DEF Spec

(* Without reuse of blocks, Proceed's mutex keeps the activations of an    *)
(* object, and its constructor, apart, although `delete this` runs with    *)
(* the mutex held and unlocks it afterwards.                               *)
THEOREM Exclusive == ASSUME Reuse = FALSE PROVE Spec => []MutexExclusion
<1>1. IInv => MutexExclusion
  BY Names DEF IInv, MutexInv, MutexExclusion
<1> QED BY <1>1, Invariance, PTL

(* Without reuse of blocks no responder is finished twice, exceptions and  *)
(* the duplicate forwards they cause included.                             *)
THEOREM AnsweredOnce == ASSUME Reuse = FALSE PROVE Spec => []NeverAborted
<1>1. IInv => NeverAborted
  BY DEF IInv
<1> QED BY <1>1, Invariance, PTL

(* With one or two downstream rpcs, which is what service_1 and service_0  *)
(* have, nothing leads into a freed object (but its deleter's own unlock), *)
(* whatever exceptions are swallowed on the way.                           *)
THEOREM DeletedIsQuiet == ASSUME Reuse = FALSE, N <= 2 PROVE Spec => []FreedIsQuiet
<1>1. IInv => FreedIsQuiet
  BY DEF IInv, OrderInv, Orderly
<1> QED BY <1>1, Invariance, PTL

(* With any number of downstream rpcs this holds until an exception is     *)
(* met; with three, one exception can make it fail.                        *)
THEOREM DeletedIsQuietAnyN == ASSUME Reuse = FALSE PROVE Spec => [](faults = 0 => FreedIsQuiet)
<1>1. IInv => (faults = 0 => FreedIsQuiet)
  BY DEF IInv, OrderInv, Orderly
<1> QED BY <1>1, Invariance, PTL

(* No exception: a client is forwarded to once per request, for any number *)
(* of clients.                                                             *)
LEMMA ForwardOnce ==
  ASSUME IInv, faults = 0, NEW c \in Block, NEW a \in Acts, Forward(c, a),
         NEW b \in Block, NEW r \in Rpcs, outstanding'[b][r] > outstanding[b][r]
  PROVE  outstanding[b][r] = 0 /\ r \notin getResponse[b] /\ pc[b][r] = "idle"
<1>1. /\ pc[c][a] = "fwd" /\ nxt[c][a] \in Rpcs
      /\ outstanding' = [outstanding EXCEPT ![c][nxt[c][a]] = outstanding[c][nxt[c][a]] + 1]
  BY DEF Forward, At
<1>2. b = c /\ r = nxt[c][a]
  BY <1>1 DEF IInv, TypeOK
<1>3. FlightInv /\ FanOutInv /\ StatusInv /\ MutexInv
  BY DEF IInv, OrderInv, Orderly
<1>4. a = ReqTag /\ status_[b] = "PROCESS"
  BY <1>1, <1>2, <1>3 DEF FanOutInv, StatusInv, IInv, TypeOK
<1>5. r \notin getResponse[b]
  BY <1>3, <1>4 DEF FlightInv
<1>6. r >= nxt[b][a] /\ r # a
  BY <1>2, <1>4, Names, FanoutAssumption DEF Rpcs
<1> QED BY <1>1, <1>2, <1>3, <1>5, <1>6 DEF FanOutInv

(* Until an exception is met, each call goes out once.                     *)
THEOREM ForwardedOnce == ASSUME Reuse = FALSE PROVE Spec => ForwardsOnce
<1> DEFINE Once == faults = 0 => \A b \in Block, r \in Rpcs :
                     outstanding'[b][r] > outstanding[b][r] =>
                       outstanding[b][r] = 0 /\ r \notin getResponse[b] /\ pc[b][r] = "idle"
<1>1. ASSUME IInv, [Next]_vars, faults = 0, NEW b \in Block, NEW r \in Rpcs,
             outstanding'[b][r] > outstanding[b][r]
      PROVE  outstanding[b][r] = 0 /\ r \notin getResponse[b] /\ pc[b][r] = "idle"
  <2>1. outstanding[b][r] \in Nat
    BY <1>1 DEF IInv, TypeOK
  <2>2. outstanding' # outstanding
    BY <1>1, <2>1
  <2>3. ~ \E d \in Block, k \in Rpcs : Respond(d, k)
    <3> SUFFICES ASSUME NEW d \in Block, NEW k \in Rpcs, Respond(d, k) PROVE FALSE
      OBVIOUS
    <3>1. outstanding' = [outstanding EXCEPT ![d][k] = outstanding[d][k] - 1]
      BY DEF Respond
    <3> QED BY <1>1, <2>1, <3>1 DEF IInv, TypeOK
  <2>4. PICK c \in Block, a \in Acts : Step(c, a) \/ Throw(c, a)
    BY <1>1, <2>2, <2>3 DEF Next, Send, Accept, Dispatch, CtorReturn, StaleUnlock, vars, grpc
  <2>5. Forward(c, a)
    BY <2>2, <2>4 DEF Step, Throw, Lock, StartProcess, EndProcess, Record, AwaitMore, Finish, FinishTwice,
                      MarkDestroy, Unlock, Delete, grpc
  <2> QED BY <1>1, <2>5, ForwardOnce
<1>2. IInv /\ [Next]_vars => [Once]_vars
  BY <1>1
<1> QED BY <1>2, Invariance, PTL DEF Spec, ForwardsOnce

-----------------------------------------------------------------------------
(* The contract of a unary rpc.                                            *)

Done == [q \in Req |-> Completed(q)]

LEMMA ContractInit == Init => Contract!Init
<1> SUFFICES ASSUME Init PROVE Contract!Init
  OBVIOUS
<1>1. \A q \in Req : Completed(q) = {}
  BY DEF Init, Completed
<1>2. rq = [q \in Req |-> "unsent"]
  BY DEF Init
<1> QED BY <1>1, <1>2 DEF Contract!Init

(* Recording a response completes its call, unless it was recorded before. *)
LEMMA RecordCompletes ==
  ASSUME IInv, NEW b \in Block, NEW a \in Acts, Record(b, a)
  PROVE  Contract!Next \/ UNCHANGED Contract!vars
<1>1. /\ pc[b][a] = "run" /\ status_[b] = "FINISH"
      /\ getResponse' = [getResponse EXCEPT ![b] = @ \cup ({a} \cap Rpcs)]
      /\ rq' = rq /\ mem' = mem /\ call' = call
  BY DEF Record, At, grpc
<1>2. PICK q \in Req : call[b] = q
  <2>1. call[b] # None
    BY <1>1 DEF IInv, CallInv
  <2>2. call[b] \in Req \cup {None}
    BY DEF IInv, TypeOK
  <2> QED BY <2>1, <2>2
<1>3. mem[b] = "live"
  BY <1>1 DEF IInv, RawInv, StatusInv, TypeOK
<1>4. \A x \in Acts : pc[b][x] # "mark"
  BY <1>1 DEF IInv, MutexInv, Inside
<1>5. rq[q] = "accepted"
  BY <1>1, <1>2, <1>4, FanoutAssumption DEF IInv, CallInv
<1>6. getResponse'[b] = getResponse[b] \cup ({a} \cap Rpcs)
      /\ \A c \in Block : c # b => getResponse'[c] = getResponse[c]
  BY <1>1 DEF IInv, TypeOK
<1>7. \A p \in Req : p # q => Completed(p)' = Completed(p)
  BY <1>1, <1>2, <1>6 DEF Completed
<1>8. Completed(q)' = Completed(q) \cup ({a} \cap Rpcs)
  BY <1>1, <1>2, <1>3, <1>5, <1>6 DEF Completed
<1>9. CASE a \in Completed(q) \/ a \notin Rpcs
  <2>1. Completed(q)' = Completed(q)
    BY <1>8, <1>9
  <2>2. Done' = Done
    BY <1>7, <2>1 DEF Done
  <2> QED BY <1>1, <2>2 DEF Done, Contract!vars
<1>10. CASE a \notin Completed(q) /\ a \in Rpcs
  <2>1. Completed(q)' = Completed(q) \cup {a}
    BY <1>8, <1>10
  <2>2. Done' = [Done EXCEPT ![q] = @ \cup {a}]
    BY <1>7, <2>1 DEF Done
  <2>3. Contract!Complete(q, a)
    BY <1>1, <1>5, <1>10, <2>2 DEF Done, Contract!Complete
  <2> QED BY <2>3, <1>10 DEF Contract!Next
<1> QED BY <1>9, <1>10

LEMMA FinishReplies ==
  ASSUME IInv, NEW b \in Block, NEW a \in Acts, Finish(b, a)
  PROVE  Contract!Next
<1>1. /\ pc[b][a] = "check" /\ getResponse[b] = Rpcs /\ call[b] # None
      /\ rq[call[b]] = "accepted" /\ rq' = [rq EXCEPT ![call[b]] = "replied"]
      /\ mem' = mem /\ call' = call /\ getResponse' = getResponse
  BY DEF Finish, At, object
<1>2. PICK q \in Req : call[b] = q
  BY <1>1 DEF IInv, TypeOK
<1>3. mem[b] = "live"
  BY <1>1 DEF IInv, RawInv, StatusInv, TypeOK
<1>4. Completed(q) = Rpcs /\ Completed(q)' = Rpcs
  BY <1>1, <1>2, <1>3 DEF Completed, IInv, TypeOK
<1>5. \A p \in Req : p # q => Completed(p)' = Completed(p)
  BY <1>1, <1>2 DEF Completed, IInv, TypeOK
<1>6. Done' = Done
  BY <1>4, <1>5 DEF Done
<1>7. Contract!Reply(q)
  BY <1>1, <1>2, <1>4, <1>6 DEF Done, Contract!Reply
<1> QED BY <1>7 DEF Contract!Next

(* An object is deleted when its request is answered, so that what it has  *)
(* recorded is not lost.                                                   *)
LEMMA DeleteKeeps ==
  ASSUME IInv, NEW b \in Block, NEW a \in Acts, Delete(b, a)
  PROVE  UNCHANGED Contract!vars
<1>1. /\ status_[b] = "DESTROY" /\ mem' = [mem EXCEPT ![b] = "freed"]
      /\ rq' = rq /\ call' = call /\ getResponse' = getResponse
  BY DEF Delete, At, grpc
<1>2. rq[call[b]] = "replied"
  BY <1>1 DEF IInv, CallInv
<1>3. \A q \in Req : Completed(q)' = Completed(q)
  BY <1>1, <1>2 DEF Completed, IInv, TypeOK
<1> QED BY <1>1, <1>3 DEF Done, Contract!vars

LEMMA StartKeeps ==
  ASSUME Reuse = FALSE, IInv, NEW b \in Block, NEW a \in Acts, StartProcess(b, a)
  PROVE  UNCHANGED Contract!vars
<1>1. PICK c \in Block :
        /\ mem[c] = "raw" /\ mem' = [mem EXCEPT ![c] = "live"]
        /\ getResponse' = [getResponse EXCEPT ![c] = {}]
        /\ call' = [call EXCEPT ![c] = None] /\ rq' = rq
  BY DEF StartProcess, Allocatable
<1>2. \A q \in Req : Completed(q)' = Completed(q)
  BY <1>1 DEF Completed, IInv, TypeOK
<1> QED BY <1>1, <1>2 DEF Contract!vars

LEMMA AcceptTakes ==
  ASSUME IInv, NEW q \in Req, NEW b \in Block, Accept(q, b)
  PROVE  Contract!Next
<1>1. /\ rq[q] = "sent" /\ rq' = [rq EXCEPT ![q] = "accepted"] /\ b \in listening
      /\ call' = [call EXCEPT ![b] = q] /\ mem' = mem /\ getResponse' = getResponse
  BY DEF Accept
<1>2. call[b] = None /\ getResponse[b] = {}
  BY <1>1 DEF IInv, CallInv
<1>3. \A p \in Req : Completed(p)' = Completed(p)
  BY <1>1, <1>2, FanoutAssumption DEF Completed, IInv, TypeOK
<1>4. Contract!Accept(q)
  BY <1>1, <1>3 DEF Contract!Accept
<1> QED BY <1>4 DEF Contract!Next

LEMMA ContractStep ==
  ASSUME Reuse = FALSE, IInv, [Next]_vars
  PROVE  Contract!Next \/ UNCHANGED Contract!vars
<1>1. ASSUME UNCHANGED <<mem, call, getResponse, rq>> PROVE UNCHANGED Contract!vars
  BY <1>1 DEF Contract!vars, Completed
<1>2. ASSUME NEW q \in Req, Send(q) PROVE Contract!Next
  <2>1. \A p \in Req : Completed(p)' = Completed(p)
    BY <1>2 DEF Send, Completed, object, IInv, TypeOK
  <2>2. Contract!Send(q)
    BY <1>2, <2>1 DEF Send, Contract!Send
  <2> QED BY <2>2 DEF Contract!Next
<1>3. ASSUME NEW b \in Block, NEW a \in Acts, Step(b, a) \/ Throw(b, a)
      PROVE  Contract!Next \/ UNCHANGED Contract!vars
  BY <1>1, <1>3, RecordCompletes, FinishReplies, DeleteKeeps, StartKeeps
     DEF Step, Throw, Lock, Forward, EndProcess, AwaitMore, FinishTwice, MarkDestroy, Unlock, object, grpc
<1>4. ASSUME NEW b \in Block, NEW a \in {ReqTag, FinTag}, Dispatch(b, a) PROVE UNCHANGED Contract!vars
  BY <1>1, <1>4 DEF Dispatch, object
<1>5. ASSUME NEW b \in Block, NEW r \in Rpcs, Respond(b, r) PROVE UNCHANGED Contract!vars
  BY <1>1, <1>5 DEF Respond, object
<1>6. ASSUME NEW b \in Block, CtorReturn(b) \/ StaleUnlock(b) PROVE UNCHANGED Contract!vars
  BY <1>1, <1>6 DEF CtorReturn, StaleUnlock, grpc
<1>7. CASE UNCHANGED vars
  BY <1>1, <1>7 DEF vars, object, grpc
<1> QED BY <1>2, <1>3, <1>4, <1>5, <1>6, <1>7, AcceptTakes DEF Next

(* Without reuse of blocks the server implements the contract of a unary   *)
(* rpc: a request is taken once, each downstream call completes once, and  *)
(* the one answer comes after all of them.                                 *)
THEOREM Implements == ASSUME Reuse = FALSE PROVE Spec => RefinesContract
<1>1. IInv /\ [Next]_vars => [Contract!Next]_Contract!vars
  BY ContractStep
<1>2. Spec => []IInv
  BY Invariance
<1> QED BY <1>1, <1>2, ContractInit, PTL DEF Spec, RefinesContract, Contract!Spec
=============================================================================
