------------------------------ MODULE LeafProofs ------------------------------
(***************************************************************************)
(* Proofs about LeafService, for any sets of blocks and requests: what the *)
(* reply's tag that overtakes the write of DESTROY can do, and that it is  *)
(* the only thing that can go wrong in an object without a mutex.          *)
(***************************************************************************)
EXTENDS LeafService, FiniteSetTheorems, TLAPS

Idle(b)     == pc[b][ReqTag] = "idle" /\ pc[b][FinTag] = "idle"
Untagged(b) == <<b, ReqTag>> \notin cq /\ <<b, FinTag>> \notin cq

(* An object is constructed once, by an activation that waits for it.      *)
MakerInv ==
  /\ \A c, b \in Block, a \in Acts : maker[c] = <<b, a>> => mem[c] # "raw" /\ pc[b][a] = "new"
  /\ \A c, d \in Block : maker[c] = maker[d] /\ maker[c] # None => c = d

(* An object without a request is unused or waits in grpc for one.         *)
WaitInv ==
  /\ \A b \in listening : mem[b] = "live" /\ call[b] = None
  /\ \A b \in Block :
       /\ mem[b] = "raw" => call[b] = None
       /\ call[b] = None => mem[b] # "freed" /\ Idle(b) /\ Untagged(b)
       /\ call[b] = None /\ mem[b] = "live" => status_[b] = "PROCESS"

(* Before the reply only the request's activation is there; after it, that *)
(* of the reply's tag, which finds PROCESS while the first has not stored  *)
(* DESTROY.                                                                *)
ServeInv ==
  \A b \in Block : call[b] # None =>
    \/ /\ rq[call[b]] = "accepted"
       /\ mem[b] = "live" /\ status_[b] = "PROCESS"
       /\ pc[b][ReqTag] # "mark" /\ pc[b][FinTag] = "idle" /\ <<b, FinTag>> \notin cq
       /\ pc[b][ReqTag] = "idle" <=> <<b, ReqTag>> \in cq
    \/ /\ rq[call[b]] = "replied"
       /\ pc[b][ReqTag] \in {"mark", "idle"} /\ <<b, ReqTag>> \notin cq
       /\ pc[b][FinTag] # "mark" /\ (<<b, FinTag>> \in cq => pc[b][FinTag] = "idle")
       /\ status_[b] = IF pc[b][ReqTag] = "mark" THEN "PROCESS" ELSE "DESTROY"
       /\ mem[b] = "live" \/ (mem[b] = "freed" /\ Idle(b) /\ Untagged(b))

(* A request belongs to one object.                                        *)
OwnerInv ==
  \A b, c \in Block : call[b] = call[c] /\ call[b] # None => b = c

LeafInv == TypeOK /\ MakerInv /\ WaitInv /\ ServeInv /\ OwnerInv /\ AbortIsEarlyTag
LEMMA Names ==
  /\ ReqTag \in Acts /\ FinTag \in Acts /\ ReqTag # FinTag
  /\ \A a \in Acts : a = ReqTag \/ a = FinTag
BY DEF Acts, ReqTag, FinTag

LEMMA NoneIsNew == None \notin Block /\ None \notin Req /\ \A b \in Block, a \in Acts : <<b, a>> # None
BY LeafAssumption

LEMMA Pairs == \A x, y : <<x, y>>[1] = x /\ <<x, y>>[2] = y
OBVIOUS

-----------------------------------------------------------------------------
(* The invariant holds at first and is kept, one lemma for the steps of an *)
(* activation and one for the other steps.                                 *)

LEMMA LeafInit == Init => LeafInv
<1> SUFFICES ASSUME Init PROVE LeafInv
  OBVIOUS
<1>1. PICK first \in Block : Init!(first)
  BY DEF Init
<1>2. TypeOK
  BY <1>1 DEF TypeOK, Status, Label, Stage
<1>3. MakerInv /\ OwnerInv /\ AbortIsEarlyTag
  BY <1>1, NoneIsNew DEF MakerInv, OwnerInv, AbortIsEarlyTag
<1>4. WaitInv /\ ServeInv
  BY <1>1, Names DEF WaitInv, ServeInv, Idle, Untagged
<1> QED BY <1>2, <1>3, <1>4 DEF LeafInv

(* Whoever runs has a request; the request's activation has not answered   *)
(* it, that of the reply's tag has nothing left to answer.                 *)
LEMMA Running ==
  ASSUME LeafInv, NEW b \in Block, NEW a \in Acts, pc[b][a] # "idle"
  PROVE  /\ call[b] \in Req /\ call[b] # None /\ mem[b] = "live" /\ b \notin listening
         /\ a = ReqTag /\ pc[b][a] # "mark" => rq[call[b]] = "accepted"
         /\ a = FinTag \/ pc[b][a] = "mark" => rq[call[b]] = "replied"
<1>1. call[b] # None /\ b \notin listening
  BY Names DEF LeafInv, WaitInv, Idle
<1>2. call[b] \in Req
  BY <1>1 DEF LeafInv, TypeOK
<1>3. CASE a = ReqTag
  BY <1>1, <1>2, <1>3, Names DEF LeafInv, ServeInv, Idle
<1>4. CASE a = FinTag
  BY <1>1, <1>2, <1>4, Names DEF LeafInv, ServeInv, Idle
<1> QED BY <1>3, <1>4, Names

(* Type correctness.                                                       *)
LEMMA TypeStep ==
  ASSUME LeafInv, NEW b \in Block, NEW a \in Acts, Step(b, a)
  PROVE  TypeOK'
<1> USE Names, Running DEF LeafInv, TypeOK, Status, Label, Stage, At, Goto
<1>1. CASE StartProcess(b, a) BY <1>1 DEF StartProcess
<1>2. CASE Finish(b, a) BY <1>2 DEF Finish
<1>3. CASE FinishTwice(b, a) BY <1>3 DEF FinishTwice
<1>4. CASE MarkDestroy(b, a) BY <1>4 DEF MarkDestroy
<1>5. CASE Delete(b, a) BY <1>5 DEF Delete
<1> QED BY <1>1, <1>2, <1>3, <1>4, <1>5 DEF Step

LEMMA TypeOther ==
  ASSUME LeafInv, [Next]_vars, ~ \E b \in Block, a \in Acts : Step(b, a)
  PROVE  TypeOK'
<1> USE Names DEF LeafInv, TypeOK, Status, Label, Stage, At, Goto
<1>1. ASSUME NEW q \in Req, Send(q) PROVE TypeOK'
  BY <1>1 DEF Send
<1>2. ASSUME NEW q \in Req, NEW b \in Block, Accept(q, b) PROVE TypeOK'
  BY <1>2 DEF Accept
<1>3. ASSUME NEW c \in Block, CtorReturn(c) PROVE TypeOK'
  BY <1>3 DEF CtorReturn
<1>4. ASSUME NEW b \in Block, NEW a \in Acts, Dispatch(b, a) PROVE TypeOK'
  BY <1>4 DEF Dispatch
<1>5. CASE UNCHANGED vars
  BY <1>5 DEF vars
<1> QED BY <1>1, <1>2, <1>3, <1>4, <1>5 DEF Next

(* A `new` is waited for by one activation.                                *)
LEMMA MakerStep ==
  ASSUME LeafInv, NEW b \in Block, NEW a \in Acts, Step(b, a)
  PROVE  MakerInv'
<1> USE Names, NoneIsNew DEF LeafInv, TypeOK, MakerInv, At, Goto
<1>1. CASE StartProcess(b, a)
  <2>1. PICK c \in Block : /\ mem[c] = "raw" /\ mem' = [mem EXCEPT ![c] = "live"]
                           /\ maker' = [maker EXCEPT ![c] = <<b, a>>]
    BY <1>1 DEF StartProcess
  <2>2. pc[b][a] = "run" /\ pc' = [pc EXCEPT ![b][a] = "new"]
    BY <1>1 DEF StartProcess
  <2>3. \A d \in Block : maker[d] # <<b, a>>
    BY <2>2
  <2>4. \A d, x \in Block, y \in Acts : maker'[d] = <<x, y>> =>
          mem'[d] # "raw" /\ pc'[x][y] = "new"
    <3> SUFFICES ASSUME NEW d \in Block, NEW x \in Block, NEW y \in Acts, maker'[d] = <<x, y>>
                 PROVE  mem'[d] # "raw" /\ pc'[x][y] = "new"
      OBVIOUS
    <3>1. CASE d = c
      <4>1. x = b /\ y = a
        BY <2>1, <3>1
      <4> QED BY <2>1, <2>2, <3>1, <4>1
    <3>2. CASE d # c
      <4>1. maker[d] = <<x, y>>
        BY <2>1, <3>2
      <4> QED BY <2>1, <2>2, <3>2, <4>1
    <3> QED BY <3>1, <3>2
  <2>5. \A d, e \in Block : maker'[d] = maker'[e] /\ maker'[d] # None => d = e
    BY <2>1, <2>3
  <2> QED BY <2>4, <2>5
<1>2. CASE Finish(b, a) BY <1>2 DEF Finish
<1>3. CASE FinishTwice(b, a) BY <1>3 DEF FinishTwice
<1>4. CASE MarkDestroy(b, a) BY <1>4 DEF MarkDestroy
<1>5. CASE Delete(b, a) BY <1>5 DEF Delete
<1> QED BY <1>1, <1>2, <1>3, <1>4, <1>5 DEF Step

LEMMA MakerOther ==
  ASSUME LeafInv, [Next]_vars, ~ \E b \in Block, a \in Acts : Step(b, a)
  PROVE  MakerInv'
<1> USE Names DEF LeafInv, TypeOK, MakerInv, At, Goto
<1>1. ASSUME NEW q \in Req, Send(q) PROVE MakerInv'
  BY <1>1 DEF Send
<1>2. ASSUME NEW q \in Req, NEW b \in Block, Accept(q, b) PROVE MakerInv'
  BY <1>2 DEF Accept
<1>3. ASSUME NEW c \in Block, CtorReturn(c) PROVE MakerInv'
  <2>1. PICK b \in Block, a \in Acts : maker[c] = <<b, a>>
    BY <1>3 DEF CtorReturn
  <2>2. /\ pc' = [pc EXCEPT ![b][a] = "work"] /\ maker' = [maker EXCEPT ![c] = None]
        /\ UNCHANGED <<mem, status_, call, listening, cq, rq, aborted>>
    BY <1>3, <2>1 DEF CtorReturn
  <2>3. pc[b][a] = "new"
    BY <2>1 DEF MakerInv
  <2>4. \A d \in Block : d # c => maker[d] # <<b, a>>
    BY <2>1, NoneIsNew
  <2>5. \A d, x \in Block, y \in Acts : maker'[d] = <<x, y>> =>
          mem'[d] # "raw" /\ pc'[x][y] = "new"
    <3> SUFFICES ASSUME NEW d \in Block, NEW x \in Block, NEW y \in Acts, maker'[d] = <<x, y>>
                 PROVE  mem'[d] # "raw" /\ pc'[x][y] = "new"
      OBVIOUS
    <3>1. d # c /\ maker[d] = <<x, y>>
      BY <2>2, NoneIsNew
    <3>2. x # b \/ y # a
      BY <2>4, <3>1
    <3> QED BY <2>2, <3>1, <3>2
  <2>6. \A d, e \in Block : maker'[d] = maker'[e] /\ maker'[d] # None => d = e
    BY <2>2
  <2> QED BY <2>5, <2>6
<1>4. ASSUME NEW b \in Block, NEW a \in Acts, Dispatch(b, a) PROVE MakerInv'
  BY <1>4 DEF Dispatch
<1>5. CASE UNCHANGED vars
  BY <1>5 DEF vars
<1> QED BY <1>1, <1>2, <1>3, <1>4, <1>5 DEF Next

(* An object that waits is touched by nobody but grpc.                     *)
LEMMA WaitStep ==
  ASSUME LeafInv, NEW b \in Block, NEW a \in Acts, Step(b, a)
  PROVE  WaitInv'
<1>0. call[b] # None /\ mem[b] = "live"
  <2>1. pc[b][a] # "idle"
    BY DEF Step, StartProcess, Finish, FinishTwice, MarkDestroy, Delete, At
  <2> QED BY <2>1, Running
<1> USE <1>0, Names DEF LeafInv, TypeOK, WaitInv, Idle, Untagged, At, Goto
<1>1. CASE StartProcess(b, a)
  <2>1. PICK c \in Block : /\ mem[c] = "raw" /\ mem' = [mem EXCEPT ![c] = "live"]
                           /\ status_' = [status_ EXCEPT ![c] = "PROCESS"]
                           /\ listening' = listening \cup {c}
    BY <1>1 DEF StartProcess
  <2>2. pc' = [pc EXCEPT ![b][a] = "new"] /\ call' = call /\ cq' = cq
    BY <1>1 DEF StartProcess
  <2>3. call[c] = None /\ b # c /\ Idle(c) /\ Untagged(c)
    BY <2>1
  <2>4. /\ \A d \in Block : mem'[d] = IF d = c THEN "live" ELSE mem[d]
        /\ \A d \in Block : status_'[d] = IF d = c THEN "PROCESS" ELSE status_[d]
        /\ \A d \in Block : d # b => pc'[d] = pc[d]
    BY <2>1, <2>2
  <2> QED BY <2>1, <2>2, <2>3, <2>4
<1>2. CASE Finish(b, a) BY <1>2 DEF Finish
<1>3. CASE FinishTwice(b, a) BY <1>3 DEF FinishTwice
<1>4. CASE MarkDestroy(b, a) BY <1>4 DEF MarkDestroy
<1>5. CASE Delete(b, a) BY <1>5 DEF Delete
<1> QED BY <1>1, <1>2, <1>3, <1>4, <1>5 DEF Step

LEMMA WaitOther ==
  ASSUME LeafInv, [Next]_vars, ~ \E b \in Block, a \in Acts : Step(b, a)
  PROVE  WaitInv'
<1> USE Names DEF LeafInv, TypeOK, MakerInv, WaitInv, Idle, Untagged, At, Goto
<1>1. ASSUME NEW q \in Req, Send(q) PROVE WaitInv'
  BY <1>1 DEF Send
<1>2. ASSUME NEW q \in Req, NEW b \in Block, Accept(q, b) PROVE WaitInv'
  BY <1>2, NoneIsNew DEF Accept
<1>3. ASSUME NEW c \in Block, CtorReturn(c) PROVE WaitInv'
  <2>1. PICK b \in Block, a \in Acts : maker[c] = <<b, a>>
    BY <1>3 DEF CtorReturn
  <2>2. /\ pc' = [pc EXCEPT ![b][a] = "work"] /\ maker' = [maker EXCEPT ![c] = None]
        /\ UNCHANGED <<mem, status_, call, listening, cq, rq, aborted>>
    BY <1>3, <2>1 DEF CtorReturn
  <2>3. pc[b][a] = "new"
    BY <2>1 DEF MakerInv
  <2> QED BY <2>1, <2>2, <2>3, Running
<1>4. ASSUME NEW b \in Block, NEW a \in Acts, Dispatch(b, a) PROVE WaitInv'
  <2>1. /\ <<b, a>> \in cq /\ cq' = cq \ {<<b, a>>} /\ pc' = [pc EXCEPT ![b][a] = "run"]
        /\ UNCHANGED <<mem, status_, call, listening>>
    BY <1>4 DEF Dispatch
  <2>2. call[b] # None
    BY <2>1
  <2>3. \A d \in Block : d # b => pc'[d] = pc[d]
    BY <2>1
  <2> QED BY <2>1, <2>2, <2>3
<1>5. CASE UNCHANGED vars
  BY <1>5 DEF vars
<1> QED BY <1>1, <1>2, <1>3, <1>4, <1>5 DEF Next

(* The order of an object's two activations.                               *)
LEMMA ServeStep ==
  ASSUME LeafInv, NEW b \in Block, NEW a \in Acts, Step(b, a)
  PROVE  ServeInv'
<1> USE Names, Running DEF LeafInv, TypeOK, ServeInv, OwnerInv, Idle, Untagged, At, Goto
<1>1. CASE StartProcess(b, a) BY <1>1 DEF StartProcess
<1>2. CASE Finish(b, a) BY <1>2 DEF Finish
<1>3. CASE FinishTwice(b, a) BY <1>3 DEF FinishTwice
<1>4. CASE MarkDestroy(b, a) BY <1>4 DEF MarkDestroy
<1>5. CASE Delete(b, a) BY <1>5 DEF Delete
<1> QED BY <1>1, <1>2, <1>3, <1>4, <1>5 DEF Step

LEMMA ServeOther ==
  ASSUME LeafInv, [Next]_vars, ~ \E b \in Block, a \in Acts : Step(b, a)
  PROVE  ServeInv'
<1> USE Names DEF LeafInv, TypeOK, MakerInv, WaitInv, ServeInv, OwnerInv, Idle, Untagged, At, Goto
<1>1. ASSUME NEW q \in Req, Send(q) PROVE ServeInv'
  BY <1>1 DEF Send
<1>2. ASSUME NEW q \in Req, NEW b \in Block, Accept(q, b) PROVE ServeInv'
  BY <1>2 DEF Accept
<1>3. ASSUME NEW c \in Block, CtorReturn(c) PROVE ServeInv'
  <2>1. PICK b \in Block, a \in Acts : maker[c] = <<b, a>>
    BY <1>3 DEF CtorReturn
  <2>2. /\ pc' = [pc EXCEPT ![b][a] = "work"] /\ maker' = [maker EXCEPT ![c] = None]
        /\ UNCHANGED <<mem, status_, call, listening, cq, rq, aborted>>
    BY <1>3, <2>1 DEF CtorReturn
  <2>3. pc[b][a] = "new"
    BY <2>1 DEF MakerInv
  <2> QED BY <2>1, <2>2, <2>3, Running
<1>4. ASSUME NEW b \in Block, NEW a \in Acts, Dispatch(b, a) PROVE ServeInv'
  BY <1>4 DEF Dispatch
<1>5. CASE UNCHANGED vars
  BY <1>5 DEF vars
<1> QED BY <1>1, <1>2, <1>3, <1>4, <1>5 DEF Next

(* A request is accepted once.                                             *)
LEMMA OwnerStep ==
  ASSUME LeafInv, NEW b \in Block, NEW a \in Acts, Step(b, a)
  PROVE  OwnerInv'
<1> USE Names DEF LeafInv, TypeOK, OwnerInv, At, Goto
<1>1. CASE StartProcess(b, a) BY <1>1 DEF StartProcess
<1>2. CASE Finish(b, a) BY <1>2 DEF Finish
<1>3. CASE FinishTwice(b, a) BY <1>3 DEF FinishTwice
<1>4. CASE MarkDestroy(b, a) BY <1>4 DEF MarkDestroy
<1>5. CASE Delete(b, a) BY <1>5 DEF Delete
<1> QED BY <1>1, <1>2, <1>3, <1>4, <1>5 DEF Step

LEMMA OwnerOther ==
  ASSUME LeafInv, [Next]_vars, ~ \E b \in Block, a \in Acts : Step(b, a)
  PROVE  OwnerInv'
<1> USE Names DEF LeafInv, TypeOK, WaitInv, ServeInv, OwnerInv, At, Goto
<1>1. ASSUME NEW q \in Req, Send(q) PROVE OwnerInv'
  BY <1>1 DEF Send
<1>2. ASSUME NEW q \in Req, NEW b \in Block, Accept(q, b) PROVE OwnerInv'
  <2>1. \A c \in Block : call[c] # q
    <3>1. \A c \in Block : call[c] # None => rq[call[c]] # "sent"
      BY DEF ServeInv
    <3> QED BY <1>2, <3>1, NoneIsNew DEF Accept
  <2> QED BY <1>2, <2>1 DEF Accept
<1>3. ASSUME NEW c \in Block, CtorReturn(c) PROVE OwnerInv'
  BY <1>3 DEF CtorReturn
<1>4. ASSUME NEW b \in Block, NEW a \in Acts, Dispatch(b, a) PROVE OwnerInv'
  BY <1>4 DEF Dispatch
<1>5. CASE UNCHANGED vars
  BY <1>5 DEF vars
<1> QED BY <1>1, <1>2, <1>3, <1>4, <1>5 DEF Next

(* A second Finish is that of a reply's tag.                               *)
LEMMA AbortStep ==
  ASSUME LeafInv, NEW b \in Block, NEW a \in Acts, Step(b, a)
  PROVE  AbortIsEarlyTag'
<1> USE Names, Running DEF LeafInv, TypeOK, AbortIsEarlyTag, EarlyTag, At, Goto
<1>1. CASE StartProcess(b, a) BY <1>1 DEF StartProcess
<1>2. CASE Finish(b, a) BY <1>2 DEF Finish
<1>3. CASE FinishTwice(b, a)
  <2>1. a = FinTag
    BY <1>3 DEF FinishTwice
  <2> QED BY <1>3, <2>1 DEF FinishTwice
<1>4. CASE MarkDestroy(b, a) BY <1>4 DEF MarkDestroy
<1>5. CASE Delete(b, a) BY <1>5 DEF Delete
<1> QED BY <1>1, <1>2, <1>3, <1>4, <1>5 DEF Step

LEMMA AbortOther ==
  ASSUME LeafInv, [Next]_vars, ~ \E b \in Block, a \in Acts : Step(b, a)
  PROVE  AbortIsEarlyTag'
<1> USE Names DEF LeafInv, TypeOK, MakerInv, ServeInv, WaitInv, AbortIsEarlyTag, EarlyTag, At, Goto
<1>1. ASSUME NEW q \in Req, Send(q) PROVE AbortIsEarlyTag'
  BY <1>1 DEF Send
<1>2. ASSUME NEW q \in Req, NEW b \in Block, Accept(q, b) PROVE AbortIsEarlyTag'
  BY <1>2 DEF Accept
<1>3. ASSUME NEW c \in Block, CtorReturn(c) PROVE AbortIsEarlyTag'
  BY <1>3 DEF CtorReturn
<1>4. ASSUME NEW b \in Block, NEW a \in Acts, Dispatch(b, a) PROVE AbortIsEarlyTag'
  BY <1>4 DEF Dispatch
<1>5. CASE UNCHANGED vars
  BY <1>5 DEF vars
<1> QED BY <1>1, <1>2, <1>3, <1>4, <1>5 DEF Next

-----------------------------------------------------------------------------
LEMMA LeafNext == LeafInv /\ [Next]_vars => LeafInv'
<1> SUFFICES ASSUME LeafInv, [Next]_vars PROVE LeafInv'
  OBVIOUS
<1>1. ASSUME NEW b \in Block, NEW a \in Acts, Step(b, a) PROVE LeafInv'
  BY <1>1, TypeStep, MakerStep, WaitStep, ServeStep, OwnerStep, AbortStep DEF LeafInv
<1>2. CASE ~ \E b \in Block, a \in Acts : Step(b, a)
  BY <1>2, TypeOther, MakerOther, WaitOther, ServeOther, OwnerOther, AbortOther DEF LeafInv
<1> QED BY <1>1, <1>2

(* Every variable keeps its type.                                          *)
THEOREM TypeCorrect == Spec => []TypeOK
<1>1. LeafInv => TypeOK
  BY DEF LeafInv
<1> QED BY <1>1, LeafInit, LeafNext, PTL DEF Spec

(* The process ends by grpc's assertion only when the tag of a reply was   *)
(* taken for a request, before the reply's thread had stored DESTROY.      *)
THEOREM AbortsByEarlyTag == Spec => []AbortIsEarlyTag
<1>1. LeafInv => AbortIsEarlyTag
  BY DEF LeafInv
<1> QED BY <1>1, LeafInit, LeafNext, PTL DEF Spec

(* `delete this` comes after the reply, when neither the runtime nor an    *)
(* activation of the object refers to it.  Only the thread in its `new`    *)
(* may be left behind, that of an older activation.                        *)
THEOREM FreedQuietly == Spec => []FreedIsQuiet
<1>1. LeafInv => FreedIsQuiet
  <2> SUFFICES ASSUME LeafInv, NEW b \in Block, mem[b] = "freed"
               PROVE  /\ rq[call[b]] = "replied" /\ b \notin listening
                      /\ \A a \in Acts : pc[b][a] = "idle" /\ <<b, a>> \notin cq
                      /\ maker[b] # None => CtorIsLate(b)
    BY DEF FreedIsQuiet
  <2>1. call[b] # None /\ b \notin listening
    BY DEF LeafInv, WaitInv
  <2>2. rq[call[b]] = "replied" /\ Idle(b) /\ Untagged(b)
    BY <2>1 DEF LeafInv, ServeInv
  <2>3. ASSUME maker[b] # None PROVE CtorIsLate(b)
    <3>1. PICK d \in Block, a \in Acts : maker[b] = <<d, a>>
      BY <2>3 DEF LeafInv, TypeOK
    <3>2. pc[d][a] = "new"
      BY <3>1 DEF LeafInv, MakerInv
    <3>3. mem[d] = "live" /\ (a = ReqTag => rq[call[d]] = "accepted")
      BY <3>2, Running
    <3>4. a = FinTag => EarlyTag(d)
      BY <3>2 DEF EarlyTag
    <3> QED BY <3>1, <3>2, <3>3, <3>4, Names DEF CtorIsLate
  <2> QED BY <2>1, <2>2, <2>3, Names DEF Idle, Untagged
<1> QED BY <1>1, LeafInit, LeafNext, PTL DEF Spec

-----------------------------------------------------------------------------
(* The listeners.  The two sets of ListenersMatch change together.         *)
Takers == {b \in Block : TakesNext(b)}
Early  == {b \in Block : EarlyTag(b)}

Balanced ==
  /\ IsFiniteSet(Takers) /\ IsFiniteSet(Early)
  /\ Cardinality(Takers) = 1 + Cardinality(Early)

(* A reply's tag that starts a request adds a listener and itself; nothing *)
(* else changes either number.                                             *)
LEMMA BalancedStep ==
  ASSUME LeafInv, Balanced, NEW b \in Block, NEW a \in Acts, Step(b, a)
  PROVE  Balanced'
<1> USE Names DEF LeafInv, TypeOK, At, Goto
<1>1. CASE StartProcess(b, a)
  <2>1. PICK c \in Block : /\ mem[c] = "raw" /\ listening' = listening \cup {c}
                           /\ pc' = [pc EXCEPT ![b][a] = "new"] /\ cq' = cq
    BY <1>1 DEF StartProcess
  <2>2. pc[b][a] = "run" /\ c # b /\ c \notin Takers
    <3>1. pc[b][a] = "run"
      BY <1>1 DEF StartProcess
    <3>2. c \notin listening /\ Idle(c) /\ Untagged(c)
      BY <2>1 DEF WaitInv
    <3> QED BY <3>1, <3>2 DEF Takers, TakesNext, Idle, Untagged
  <2>3. b \notin listening /\ <<b, ReqTag>> \notin cq
    <3>1. b \notin listening
      BY <2>2, Running
    <3>2. call[b] # None
      BY <2>2, Running
    <3> QED BY <3>1, <3>2, <2>2 DEF ServeInv
  <2>4. CASE a = ReqTag
    <3>1. b \in Takers /\ Takers' = (Takers \ {b}) \cup {c} /\ Early' = Early
      BY <2>1, <2>2, <2>3, <2>4 DEF Takers, TakesNext, Early, EarlyTag
    <3>2. /\ IsFiniteSet(Takers \ {b}) /\ Cardinality(Takers \ {b}) = Cardinality(Takers) - 1
      BY <3>1, FS_RemoveElement DEF Balanced
    <3>3. IsFiniteSet(Takers') /\ Cardinality(Takers') = Cardinality(Takers \ {b}) + 1
      BY <2>2, <3>1, <3>2, FS_AddElement
    <3>4. Cardinality(Takers) \in Nat /\ Cardinality(Early) \in Nat
      BY FS_CardinalityType DEF Balanced
    <3> QED BY <3>1, <3>2, <3>3, <3>4 DEF Balanced
  <2>5. CASE a = FinTag
    <3>1. b \notin Early /\ Takers' = Takers \cup {c} /\ Early' = Early \cup {b}
      BY <2>1, <2>2, <2>3, <2>5 DEF Takers, TakesNext, Early, EarlyTag
    <3>2. IsFiniteSet(Takers') /\ Cardinality(Takers') = Cardinality(Takers) + 1
      BY <2>2, <3>1, FS_AddElement DEF Balanced
    <3>3. IsFiniteSet(Early') /\ Cardinality(Early') = Cardinality(Early) + 1
      BY <3>1, FS_AddElement DEF Balanced
    <3>4. Cardinality(Early) \in Nat
      BY FS_CardinalityType DEF Balanced
    <3> QED BY <3>2, <3>3, <3>4 DEF Balanced
  <2> QED BY <2>4, <2>5
<1>2. ASSUME ~StartProcess(b, a) PROVE Takers' = Takers /\ Early' = Early
  <2> USE <1>2 DEF Takers, TakesNext, Early, EarlyTag
  <2>1. CASE Finish(b, a)
    <3>1. a = ReqTag
      BY <2>1, Running DEF Finish
    <3> QED BY <2>1, <3>1 DEF Finish
  <2>2. CASE FinishTwice(b, a) BY <2>2 DEF FinishTwice
  <2>3. CASE MarkDestroy(b, a)
    <3>1. a = ReqTag
      <4>1. pc[b][FinTag] # "mark"
        <5>1. pc[b][FinTag] = "mark" => call[b] # None
          BY Running
        <5> QED BY <5>1 DEF ServeInv
      <4> QED BY <2>3, <4>1 DEF MarkDestroy
    <3> QED BY <2>3, <3>1 DEF MarkDestroy
  <2>4. CASE Delete(b, a)
    <3>1. a = FinTag
      <4>1. a = ReqTag => status_[b] = "PROCESS"
        <5>1. pc[b][a] = "run"
          BY <2>4 DEF Delete
        <5>2. call[b] # None
          BY <5>1, Running
        <5> QED BY <5>1, <5>2 DEF ServeInv
      <4> QED BY <2>4, <4>1 DEF Delete
    <3> QED BY <2>4, <3>1 DEF Delete
  <2> QED BY <2>1, <2>2, <2>3, <2>4 DEF Step
<1> QED BY <1>1, <1>2 DEF Balanced

LEMMA BalancedOther ==
  ASSUME LeafInv, Balanced, [Next]_vars, ~ \E b \in Block, a \in Acts : Step(b, a)
  PROVE  Balanced'
<1> SUFFICES Takers' = Takers /\ Early' = Early
  BY DEF Balanced
<1> USE Names DEF LeafInv, TypeOK, At, Goto, Takers, TakesNext, Early, EarlyTag
<1>1. ASSUME NEW q \in Req, Send(q) PROVE Takers' = Takers /\ Early' = Early
  BY <1>1 DEF Send
<1>2. ASSUME NEW q \in Req, NEW b \in Block, Accept(q, b) PROVE Takers' = Takers /\ Early' = Early
  BY <1>2 DEF Accept
<1>3. ASSUME NEW c \in Block, CtorReturn(c) PROVE Takers' = Takers /\ Early' = Early
  <2>1. PICK b \in Block, a \in Acts : maker[c] = <<b, a>>
    BY <1>3 DEF CtorReturn
  <2>2. pc' = [pc EXCEPT ![b][a] = "work"] /\ listening' = listening /\ cq' = cq
    BY <1>3, <2>1 DEF CtorReturn
  <2>3. pc[b][a] = "new"
    BY <2>1 DEF MakerInv
  <2> QED BY <2>1, <2>2, <2>3
<1>4. ASSUME NEW b \in Block, NEW a \in Acts, Dispatch(b, a) PROVE Takers' = Takers /\ Early' = Early
  <2>1. /\ pc[b][a] = "idle" /\ <<b, a>> \in cq /\ cq' = cq \ {<<b, a>>} /\ pc' = [pc EXCEPT ![b][a] = "run"]
        /\ listening' = listening
    BY <1>4 DEF Dispatch
  <2>2. \A d \in Block : d # b => pc'[d] = pc[d] /\ \A x \in Acts : <<d, x>> \in cq' <=> <<d, x>> \in cq
    BY <2>1
  <2>3. /\ \A x \in Acts : pc'[b][x] = IF x = a THEN "run" ELSE pc[b][x]
        /\ \A x \in Acts : <<b, x>> \in cq' <=> x # a /\ <<b, x>> \in cq
    BY <2>1
  <2>4. \A d \in Block : (TakesNext(d)' <=> TakesNext(d)) /\ (EarlyTag(d)' <=> EarlyTag(d))
    BY <2>1, <2>2, <2>3
  <2> QED BY <2>4
<1>5. CASE UNCHANGED vars
  BY <1>5 DEF vars
<1> QED BY <1>1, <1>2, <1>3, <1>4, <1>5 DEF Next

LEMMA BalancedInit == Init => Balanced
<1> SUFFICES ASSUME Init PROVE Balanced
  OBVIOUS
<1>1. PICK first \in Block : Init!(first)
  BY DEF Init
<1>2. Takers = {first} /\ Early = {}
  BY <1>1, Names DEF Takers, TakesNext, Early, EarlyTag
<1>3. IsFiniteSet(Takers) /\ Cardinality(Takers) = 1
  BY <1>2, FS_Singleton
<1>4. IsFiniteSet(Early) /\ Cardinality(Early) = 0
  BY <1>2, FS_EmptySet
<1> QED BY <1>3, <1>4 DEF Balanced

(* There is always one object that takes the next request, and one more    *)
(* for every reply's tag that is being served as a request: the service is *)
(* never deaf, and nothing else multiplies its listeners.                  *)
THEOREM OneListener == Spec => []ListenersMatch
<1>1. LeafInv /\ Balanced /\ [Next]_vars => (LeafInv /\ Balanced)'
  <2> SUFFICES ASSUME LeafInv, Balanced, [Next]_vars PROVE Balanced'
    BY LeafNext
  <2>1. ASSUME NEW b \in Block, NEW a \in Acts, Step(b, a) PROVE Balanced'
    BY <2>1, BalancedStep
  <2>2. CASE ~ \E b \in Block, a \in Acts : Step(b, a)
    BY <2>2, BalancedOther
  <2> QED BY <2>1, <2>2
<1>2. Balanced => ListenersMatch
  BY DEF Balanced, ListenersMatch, Takers, Early
<1> QED BY <1>1, <1>2, LeafInit, BalancedInit, PTL DEF Spec
=============================================================================
