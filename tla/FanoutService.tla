---------------------------- MODULE FanoutService ----------------------------
(***************************************************************************)
(* The asynchronous server of a tier that fans a request out: service_0    *)
(* (rpc_0, N = 2 downstream rpcs) and service_1 (rpc_1, N = 1).            *)
(*                                                                         *)
(* Every request is served by one heap object, a Rpc_k_CallData, that is   *)
(* driven by calls of its Proceed(ID): by a detached thread per tag of the *)
(* server's completion queue (ID = -1), and by one thread per downstream   *)
(* client (ID = the client's number).  The object's mutex is meant to run  *)
(* the activations one at a time; status_ says what the next one does.     *)
(*                                                                         *)
(* An object is named by its memory block, and an activation by the tag or *)
(* the client that made it, so pc[b][a] is where Proceed stands for the    *)
(* activation a of the object b.  The tracing spans, the random service    *)
(* time and the array sent[] (written, never read) are left out.           *)
(***************************************************************************)
EXTENDS Integers, FiniteSets

CONSTANTS
  Block,      (* the heap blocks a call object may occupy                  *)
  Req,        (* the requests clients send                                 *)
  N,          (* the number of downstream rpcs of one request              *)
  Reuse,      (* whether the allocator hands a freed block out again       *)
  MaxFaults,  (* bound: how many exceptions are thrown inside Proceed      *)
  None        (* no block, no request                                      *)

Rpcs   == 0 .. N - 1          (* Proceed(r): the r-th client's response    *)
ReqTag == -1                  (* Proceed(-1): a request has arrived        *)
FinTag == -2                  (* Proceed(-1): the reply has been sent      *)
Acts   == Rpcs \cup {ReqTag, FinTag}
Ctor   == -3                  (* owner of the mutex inside the constructor *)
Nobody == -4                  (* owner of a free mutex                     *)

ASSUME FanoutAssumption ==
  /\ N \in Nat \ {0}
  /\ MaxFaults \in Nat
  /\ Reuse \in BOOLEAN
  /\ None \notin Block \cup Req \cup (Block \X Acts)

VARIABLES
  mem,          (* of a block: "raw", "live" (holds an object) or "freed"  *)
  status_,      (* the object's CallStatus                                 *)
  mtx,          (* the owner of the object's _mtx                          *)
  getResponse,  (* the ids recorded in the object's getResponse[]          *)
  call,         (* the request in the object's ctx_, request_, responder_  *)
  pc,           (* where Proceed stands, for each object and activation    *)
  nxt,          (* the next client to Forward to, in an activation         *)
  maker,        (* the activation whose `new` is constructing the object   *)
  stale,        (* unlocks of _mtx still to be made by deleters of b       *)
  outstanding,  (* the r-th rpcs sent for the object and not yet answered  *)
  listening,    (* objects registered with Requestrpc_k                    *)
  cq,           (* <<object, tag>> pairs in the server's completion queue  *)
  rq,           (* how far a request has come                              *)
  faults,       (* exceptions so far                                       *)
  aborted       (* a failed assertion of grpc ended the process            *)

object == <<mem, status_, mtx, getResponse, call>>
thread == <<pc, nxt, maker, stale>>
grpc   == <<outstanding, listening, cq, rq>>
vars   == <<object, thread, grpc, faults, aborted>>

Stage  == {"unsent", "sent", "accepted", "replied"}
Status == {"CREATE", "PROCESS", "FINISH", "DESTROY"}
Label  == {"idle", "lock", "run", "new", "fwd", "check", "mark", "unlock"}

TypeOK ==
  /\ mem         \in [Block -> {"raw", "live", "freed"}]
  /\ status_     \in [Block -> Status]
  /\ mtx         \in [Block -> Acts \cup {Ctor, Nobody}]
  /\ getResponse \in [Block -> SUBSET Rpcs]
  /\ call        \in [Block -> Req \cup {None}]
  /\ pc          \in [Block -> [Acts -> Label]]
  /\ nxt         \in [Block -> [Acts -> 0 .. N]]
  /\ maker       \in [Block -> (Block \X Acts) \cup {None}]
  /\ stale       \in [Block -> Nat]
  /\ outstanding \in [Block -> [Rpcs -> Nat]]
  /\ listening   \in SUBSET Block
  /\ cq          \in SUBSET (Block \X {ReqTag, FinTag})
  /\ rq          \in [Req -> Stage]
  /\ faults      \in Nat
  /\ aborted     \in BOOLEAN

(***************************************************************************)
(* Run() has built the server and constructed the first call object, which *)
(* has registered itself, before its loop takes the first tag.             *)
(***************************************************************************)
Init ==
  \E first \in Block :
    /\ mem         = [b \in Block |-> IF b = first THEN "live" ELSE "raw"]
    /\ status_     = [b \in Block |-> IF b = first THEN "PROCESS" ELSE "CREATE"]
    /\ mtx         = [b \in Block |-> Nobody]
    /\ getResponse = [b \in Block |-> {}]
    /\ call        = [b \in Block |-> None]
    /\ pc          = [b \in Block |-> [a \in Acts |-> "idle"]]
    /\ nxt         = [b \in Block |-> [a \in Acts |-> 0]]
    /\ maker       = [b \in Block |-> None]
    /\ stale       = [b \in Block |-> 0]
    /\ outstanding = [b \in Block |-> [r \in Rpcs |-> 0]]
    /\ listening   = {first}
    /\ cq          = {}
    /\ rq          = [q \in Req |-> "unsent"]
    /\ faults      = 0
    /\ aborted     = FALSE

(* The activation a of b is at label l, in a process that still runs.      *)
At(b, a, l) == ~aborted /\ pc[b][a] = l

Goto(b, a, l) == pc' = [pc EXCEPT ![b][a] = l]

(* The activation a of b owns the mutex, as far as its own code knows.     *)
Inside(b, a) == pc[b][a] \in {"run", "new", "fwd", "check", "mark", "unlock"}

-----------------------------------------------------------------------------
(* Clients and the grpc runtime.                                           *)

(* A client sends the request q.                                           *)
Send(q) ==
  /\ ~aborted
  /\ rq[q] = "unsent"
  /\ rq' = [rq EXCEPT ![q] = "sent"]
  /\ UNCHANGED <<object, thread, outstanding, listening, cq, faults, aborted>>

(* grpc matches q with a registered object and queues the object's tag.    *)
Accept(q, b) ==
  /\ ~aborted
  /\ rq[q] = "sent"
  /\ b \in listening
  /\ rq'        = [rq EXCEPT ![q] = "accepted"]
  /\ call'      = [call EXCEPT ![b] = q]
  /\ listening' = listening \ {b}
  /\ cq'        = cq \cup {<<b, ReqTag>>}
  /\ UNCHANGED <<mem, status_, mtx, getResponse, thread, outstanding, faults, aborted>>

(* The loop of Run takes a tag and detaches a thread that calls Proceed(). *)
Dispatch(b, a) ==
  /\ At(b, a, "idle")
  /\ <<b, a>> \in cq
  /\ cq' = cq \ {<<b, a>>}
  /\ Goto(b, a, "lock")
  /\ UNCHANGED <<object, nxt, maker, stale, outstanding, listening, rq, faults, aborted>>

(* The thread of the r-th client takes a response, once it is done with    *)
(* the one before, and calls Proceed(r) on the object that asked.  An      *)
(* error status is printed and the response counts all the same.           *)
Respond(b, r) ==
  /\ ~aborted
  /\ outstanding[b][r] > 0
  /\ \A c \in Block : pc[c][r] = "idle"
  /\ outstanding' = [outstanding EXCEPT ![b][r] = @ - 1]
  /\ Goto(b, r, "lock")
  /\ UNCHANGED <<object, nxt, maker, stale, listening, cq, rq, faults, aborted>>

-----------------------------------------------------------------------------
(* Rpc_k_CallData::Proceed.                                                *)

(* Mutant of Lock: the object's mutex is not taken.                        *)
LockNothing(b, a) ==
  /\ At(b, a, "lock")
  /\ mtx' = [mtx EXCEPT ![b] = a]
  /\ Goto(b, a, "run")
  /\ UNCHANGED <<mem, status_, getResponse, call, nxt, maker, stale, grpc, faults, aborted>>

Lock(b, a) ==
  /\ At(b, a, "lock")
  /\ mtx[b] = Nobody
  /\ mtx' = [mtx EXCEPT ![b] = a]
  /\ Goto(b, a, "run")
  /\ UNCHANGED <<mem, status_, getResponse, call, nxt, maker, stale, grpc, faults, aborted>>

Allocatable(c) == mem[c] = "raw" \/ (Reuse /\ mem[c] = "freed")

(* status_ == PROCESS: the object for the next request is allocated.  Its  *)
(* constructor runs Proceed under its own mutex: CREATE becomes PROCESS    *)
(* and the object is registered for a request.                             *)
StartProcess(b, a) ==
  /\ At(b, a, "run")
  /\ status_[b] = "PROCESS"
  /\ \E c \in Block :
       /\ Allocatable(c)
       /\ mem'         = [mem EXCEPT ![c] = "live"]
       /\ status_'     = [status_ EXCEPT ![c] = "PROCESS"]
       /\ mtx'         = [mtx EXCEPT ![c] = Ctor]
       /\ getResponse' = [getResponse EXCEPT ![c] = {}]
       /\ call'        = [call EXCEPT ![c] = None]
       /\ maker'       = [maker EXCEPT ![c] = <<b, a>>]
       /\ listening'   = listening \cup {c}
  /\ Goto(b, a, "new")
  /\ UNCHANGED <<nxt, stale, outstanding, cq, rq, faults, aborted>>

(* The constructor's Proceed unlocks and `new` returns to its activation.  *)
CtorReturn(c) ==
  /\ ~aborted
  /\ maker[c] # None
  /\ LET b == maker[c][1]
         a == maker[c][2]
     IN  /\ Goto(b, a, "fwd")
         /\ nxt' = [nxt EXCEPT ![b][a] = 0]
  /\ mtx'   = [mtx EXCEPT ![c] = Nobody]
  /\ maker' = [maker EXCEPT ![c] = None]
  /\ UNCHANGED <<mem, status_, getResponse, call, stale, grpc, faults, aborted>>

(* rpc_k_client_->Forward(this, r), in the order of the clients.           *)
Forward(b, a) ==
  /\ At(b, a, "fwd")
  /\ nxt[b][a] \in Rpcs
  /\ outstanding' = [outstanding EXCEPT ![b][nxt[b][a]] = @ + 1]
  /\ nxt' = [nxt EXCEPT ![b][a] = @ + 1]
  /\ UNCHANGED <<object, pc, maker, stale, listening, cq, rq, faults, aborted>>

(* Mutant of EndProcess: status_ is left at PROCESS.                       *)
EndProcessKeepsStatus(b, a) ==
  /\ At(b, a, "fwd")
  /\ nxt[b][a] = N
  /\ Goto(b, a, "unlock")
  /\ UNCHANGED <<object, nxt, maker, stale, grpc, faults, aborted>>

EndProcess(b, a) ==
  /\ At(b, a, "fwd")
  /\ nxt[b][a] = N
  /\ status_' = [status_ EXCEPT ![b] = "FINISH"]
  /\ Goto(b, a, "unlock")
  /\ UNCHANGED <<mem, mtx, getResponse, call, nxt, maker, stale, grpc, faults, aborted>>

(* status_ == FINISH: getResponse[ID] = true.  With ID = -1 the store is   *)
(* out of bounds: it lands in sent[], which nothing reads.                 *)
Record(b, a) ==
  /\ At(b, a, "run")
  /\ status_[b] = "FINISH"
  /\ getResponse' = [getResponse EXCEPT ![b] = @ \cup ({a} \cap Rpcs)]
  /\ Goto(b, a, "check")
  /\ UNCHANGED <<mem, status_, mtx, call, nxt, maker, stale, grpc, faults, aborted>>

(* Mutant of AwaitMore: an early return that leaves the mutex locked.      *)
AwaitMoreKeepsLock(b, a) ==
  /\ At(b, a, "check")
  /\ getResponse[b] # Rpcs
  /\ Goto(b, a, "idle")
  /\ UNCHANGED <<object, nxt, maker, stale, grpc, faults, aborted>>

(* Some response is still missing.                                         *)
AwaitMore(b, a) ==
  /\ At(b, a, "check")
  /\ getResponse[b] # Rpcs
  /\ Goto(b, a, "unlock")
  /\ UNCHANGED <<object, nxt, maker, stale, grpc, faults, aborted>>

(* Mutant of Finish: || for && in the test of getResponse[].               *)
FinishOnAny(b, a) ==
  /\ At(b, a, "check")
  /\ getResponse[b] # {}
  /\ call[b] # None /\ rq[call[b]] = "accepted"
  /\ rq' = [rq EXCEPT ![call[b]] = "replied"]
  /\ cq' = cq \cup {<<b, FinTag>>}
  /\ Goto(b, a, "mark")
  /\ UNCHANGED <<object, nxt, maker, stale, outstanding, listening, faults, aborted>>

(* All responses are in: responder_.Finish(reply_, Status::OK, this).      *)
Finish(b, a) ==
  /\ At(b, a, "check")
  /\ getResponse[b] = Rpcs
  /\ call[b] # None /\ rq[call[b]] = "accepted"
  /\ rq' = [rq EXCEPT ![call[b]] = "replied"]
  /\ cq' = cq \cup {<<b, FinTag>>}
  /\ Goto(b, a, "mark")
  /\ UNCHANGED <<object, nxt, maker, stale, outstanding, listening, faults, aborted>>

(* The second Finish of one responder: grpc refuses the batch and its      *)
(* assertion on the result ends the process.  So does a Finish on an       *)
(* object no request has reached.                                          *)
FinishTwice(b, a) ==
  /\ At(b, a, "check")
  /\ getResponse[b] = Rpcs
  /\ call[b] = None \/ rq[call[b]] = "replied"
  /\ aborted' = TRUE
  /\ UNCHANGED <<object, thread, grpc, faults>>

(* Mutant of MarkDestroy: status_ stays FINISH after the reply.            *)
MarkNothing(b, a) ==
  /\ At(b, a, "mark")
  /\ Goto(b, a, "unlock")
  /\ UNCHANGED <<object, nxt, maker, stale, grpc, faults, aborted>>

MarkDestroy(b, a) ==
  /\ At(b, a, "mark")
  /\ status_' = [status_ EXCEPT ![b] = "DESTROY"]
  /\ Goto(b, a, "unlock")
  /\ UNCHANGED <<mem, mtx, getResponse, call, nxt, maker, stale, grpc, faults, aborted>>

(* cv_lock.unlock(): whoever owns the mutex, it is free afterwards.        *)
Unlock(b, a) ==
  /\ At(b, a, "unlock")
  /\ mtx' = [mtx EXCEPT ![b] = Nobody]
  /\ Goto(b, a, "idle")
  /\ UNCHANGED <<mem, status_, getResponse, call, nxt, maker, stale, grpc, faults, aborted>>

(* status_ == DESTROY: delete this, with the mutex of *this locked.  What  *)
(* is left of the activation is the unlock of that mutex.                  *)
Delete(b, a) ==
  /\ At(b, a, "run")
  /\ status_[b] = "DESTROY"
  /\ mem'   = [mem EXCEPT ![b] = "freed"]
  /\ stale' = [stale EXCEPT ![b] = @ + 1]
  /\ Goto(b, a, "idle")
  /\ UNCHANGED <<status_, mtx, getResponse, call, nxt, maker, grpc, faults, aborted>>

(* The unlock after the delete, on whatever the block holds by now.        *)
StaleUnlock(b) ==
  /\ ~aborted
  /\ stale[b] > 0
  /\ stale' = [stale EXCEPT ![b] = @ - 1]
  /\ mtx'   = [mtx EXCEPT ![b] = Nobody]
  /\ UNCHANGED <<mem, status_, getResponse, call, pc, nxt, maker, grpc, faults, aborted>>

(* An exception from `new`, from the tracer or from a Forward, caught by   *)
(* catch (...): the activation unlocks and returns, status_ stays.         *)
Throw(b, a) ==
  /\ ~aborted
  /\ faults < MaxFaults
  /\ \/ pc[b][a] = "run" /\ status_[b] = "PROCESS"
     \/ pc[b][a] = "fwd" /\ nxt[b][a] \in Rpcs
     \/ pc[b][a] = "check" /\ getResponse[b] = Rpcs
  /\ faults' = faults + 1
  /\ Goto(b, a, "unlock")
  /\ UNCHANGED <<object, nxt, maker, stale, grpc, aborted>>

-----------------------------------------------------------------------------
(* What the thread of an activation does next, exceptions apart.           *)
Step(b, a) ==
  \/ Lock(b, a)       \/ StartProcess(b, a) \/ Forward(b, a)
  \/ EndProcess(b, a) \/ Record(b, a)       \/ AwaitMore(b, a)
  \/ Finish(b, a)     \/ FinishTwice(b, a)  \/ MarkDestroy(b, a)
  \/ Unlock(b, a)     \/ Delete(b, a)

Next ==
  \/ \E q \in Req : Send(q)
  \/ \E q \in Req, b \in Block : Accept(q, b)
  \/ \E b \in Block, a \in {ReqTag, FinTag} : Dispatch(b, a)
  \/ \E b \in Block, r \in Rpcs : Respond(b, r)
  \/ \E b \in Block : CtorReturn(b) \/ StaleUnlock(b)
  \/ \E b \in Block, a \in Acts : Step(b, a) \/ Throw(b, a)

Spec == Init /\ [][Next]_vars

(***************************************************************************)
(* The scheduler runs every thread that can run, the loop takes every tag, *)
(* grpc matches requests with registered objects, and a downstream rpc is  *)
(* eventually answered: the code sets no deadline, so it relies on that.   *)
(***************************************************************************)
Fairness ==
  /\ \A q \in Req : WF_vars(\E b \in Block : Accept(q, b))
  /\ \A b \in Block :
       /\ WF_vars(CtorReturn(b))
       /\ WF_vars(StaleUnlock(b))
       /\ \A a \in {ReqTag, FinTag} : WF_vars(Dispatch(b, a))
       /\ \A r \in Rpcs : WF_vars(Respond(b, r))
       /\ \A a \in Acts : WF_vars(Step(b, a))

FairSpec == Spec /\ Fairness
-----------------------------------------------------------------------------
(* At most one activation of an object is past the lock of Proceed, and    *)
(* none while the constructor's own Proceed holds it: everything below the *)
(* lock (status_, getResponse[], the fan-out) relies on that.              *)
MutexExclusion ==
  \A b \in Block :
    /\ \A a1, a2 \in Acts : Inside(b, a1) /\ Inside(b, a2) => a1 = a2
    /\ maker[b] # None => \A a \in Acts : ~Inside(b, a)

(* `delete this` runs when nothing refers to the object any more: no tag,  *)
(* response, waiting thread or registration can lead into freed memory.    *)
(* (The deleter's own unlock, counted by stale, is the exception.)         *)
FreedIsQuiet ==
  \A b \in Block : mem[b] = "freed" =>
    /\ \A a \in Acts : pc[b][a] = "idle"
    /\ \A r \in Rpcs : outstanding[b][r] = 0
    /\ cq \cap ({b} \X {ReqTag, FinTag}) = {}
    /\ b \notin listening /\ maker[b] = None

(* No request is answered twice: the responder of an object is finished    *)
(* once, so grpc's assertion on the second batch is never met.             *)
NeverAborted == ~aborted

(* Until an exception is met, a call goes out to a downstream service once *)
(* per request: it is not forwarded while an earlier one is outstanding,   *)
(* being delivered or recorded.                                            *)
ForwardsOnce ==
  [][faults = 0 => \A b \in Block, r \in Rpcs :
       outstanding'[b][r] > outstanding[b][r] =>
         outstanding[b][r] = 0 /\ r \notin getResponse[b] /\ pc[b][r] = "idle"]_vars

(* Every request a client has sent is answered in the end, unless an       *)
(* exception has been swallowed.                                           *)
Answered == \A q \in Req : rq[q] = "sent" ~> (rq[q] = "replied" \/ faults > 0)

(* The owner of the mutex is the activation, or the constructor, inside.   *)
OwnerInside ==
  \A b \in Block : /\ \A a \in Acts : Inside(b, a) => mtx[b] = a
                   /\ maker[b] # None => mtx[b] = Ctor

(* When the allocator reuses blocks the mutex can fail, and the unlock     *)
(* that follows `delete this` is the only step that can make it fail.      *)
OnlyStaleUnlockBreaksMutex ==
  [][OwnerInside /\ ~OwnerInside' => \E b \in Block : stale'[b] < stale[b]]_vars

(***************************************************************************)
(* The contract of a unary rpc.  A downstream call counts as completed     *)
(* once the object has recorded it, for good when the request is answered. *)
(***************************************************************************)
Completed(q) ==
  {r \in Rpcs : \/ rq[q] = "replied"
                \/ \E b \in Block : mem[b] = "live" /\ call[b] = q /\ r \in getResponse[b]}

Contract == INSTANCE RpcContract WITH done <- [q \in Req |-> Completed(q)]

(* The service implements the contract: a request is taken once, each of   *)
(* its downstream calls completes once, and the one answer comes last.     *)
RefinesContract == Contract!Spec

-----------------------------------------------------------------------------
(***************************************************************************)
(* The inductive invariant behind the proofs of FanoutProofs, for an       *)
(* allocator that does not reuse blocks.                                   *)
(***************************************************************************)

(* Nothing refers to a block no object has been put into.                  *)
RawInv ==
  \A b \in Block : mem[b] = "raw" =>
    /\ \A a \in Acts : pc[b][a] = "idle"
    /\ \A r \in Rpcs : outstanding[b][r] = 0
    /\ \A a \in Acts : <<b, a>> \notin cq
    /\ b \notin listening /\ stale[b] = 0 /\ maker[b] = None /\ call[b] = None

(* The owner of the mutex is the one inside; a pending unlock of a deleted *)
(* object finds nobody inside and a mutex nobody has got in the meantime.  *)
MutexInv ==
  /\ \A b \in Block, a \in Acts : Inside(b, a) => mtx[b] = a /\ stale[b] = 0
  /\ \A b \in Block : maker[b] # None =>
       /\ mtx[b] = Ctor /\ stale[b] = 0
       /\ pc[maker[b][1]][maker[b][2]] = "new"
  /\ \A b, c \in Block : maker[b] = maker[c] /\ maker[b] # None => b = c
  /\ \A b \in Block : stale[b] > 0 => stale[b] = 1 /\ mtx[b] # Nobody

(* What an activation knows of status_ while it is inside, and what        *)
(* status_ says of a freed object.                                         *)
StatusInv ==
  /\ \A b \in Block, a \in Acts :
       /\ pc[b][a] \in {"new", "fwd"}    => status_[b] = "PROCESS"
       /\ pc[b][a] \in {"check", "mark"} => status_[b] = "FINISH"
  /\ \A b \in Block : mem[b] = "freed" => status_[b] = "DESTROY"

(* An object serves one request, and no other object serves it; until it   *)
(* has one nothing happens to it.  It is answered when status_ is DESTROY  *)
(* or about to be.                                                         *)
CallInv ==
  /\ \A b, c \in Block : call[b] = call[c] /\ call[b] # None => b = c
  /\ \A b \in Block :
       /\ call[b] # None => rq[call[b]] \in {"accepted", "replied"}
       /\ b \in listening => call[b] = None
       /\ call[b] = None =>
            /\ getResponse[b] = {} /\ status_[b] # "DESTROY"
            /\ \A r \in Rpcs : outstanding[b][r] = 0
            /\ \A a \in Acts : pc[b][a] = "idle" /\ <<b, a>> \notin cq
       /\ status_[b] = "DESTROY" => rq[call[b]] = "replied"
       /\ call[b] # None /\ rq[call[b]] = "replied" =>
            status_[b] = "DESTROY" \/ \E a \in Acts : pc[b][a] = "mark"
       /\ \A a \in Acts : pc[b][a] = "mark" => rq[call[b]] = "replied"

Quiet(b, r) == outstanding[b][r] = 0 /\ pc[b][r] = "idle"

(* Up to two downstream rpcs a call goes out once also when an exception   *)
(* has ended the fan-out: with the first response it starts again from the *)
(* first client.  With more, the clients between would be called twice.    *)
Orderly == N <= 2 \/ faults = 0

(* Where the r-th call of an object is: not sent, sent, or recorded.       *)
FlightInv ==
  \A b \in Block, r \in Rpcs :
    /\ outstanding[b][r] > 0 => /\ outstanding[b][r] = 1 /\ r \notin getResponse[b]
                                /\ pc[b][r] \in {"idle", "fwd", "unlock"}
    /\ r \in getResponse[b]  => /\ pc[b][r] \in {"idle", "check", "mark", "unlock"}
                                /\ status_[b] \in {"FINISH", "DESTROY"}
    /\ status_[b] = "PROCESS" /\ (\A a \in Acts : pc[b][a] # "fwd") /\ (r >= 1 \/ faults = 0) => Quiet(b, r)

(* The fan-out goes through the clients in their order, in the activation  *)
(* of the request or, after an exception, in that of the first response.   *)
FanOutInv ==
  \A b \in Block, a \in Acts :
    /\ pc[b][a] \in {"new", "fwd"} => a = ReqTag \/ (a = 0 /\ faults > 0)
    /\ pc[b][a] = "fwd" => \A r \in Rpcs : r >= nxt[b][a] =>
                              outstanding[b][r] = 0 /\ (r # a => pc[b][r] = "idle")

(* The request's tag comes before all calls.                               *)
FirstInv ==
  \A b \in Block :
    /\ b \in listening => status_[b] = "PROCESS"
    /\ <<b, ReqTag>> \in cq => pc[b][ReqTag] = "idle"
    /\ <<b, ReqTag>> \in cq \/ pc[b][ReqTag] \in {"lock", "run", "new"} =>
         status_[b] = "PROCESS" /\ \A r \in Rpcs : Quiet(b, r)
    /\ pc[b][ReqTag] \notin {"check", "mark"}

(* The reply's tag comes after all calls, and it is the last.              *)
LastInv ==
  \A b \in Block :
    /\ <<b, FinTag>> \in cq => pc[b][FinTag] = "idle"
    /\ <<b, FinTag>> \in cq \/ pc[b][FinTag] # "idle" => rq[call[b]] = "replied"
    /\ pc[b][FinTag] \in {"idle", "lock", "run"}

(* A request is answered when all its calls have been recorded.            *)
RepliedInv ==
  \A b \in Block :
    call[b] # None /\ rq[call[b]] = "replied" =>
      /\ getResponse[b] = Rpcs
      /\ pc[b][ReqTag] = "idle" /\ <<b, ReqTag>> \notin cq

OrderInv == Orderly => /\ FlightInv /\ FanOutInv /\ FirstInv /\ LastInv
                       /\ RepliedInv /\ FreedIsQuiet

IInv == TypeOK /\ RawInv /\ MutexInv /\ StatusInv /\ CallInv /\ NeverAborted /\ OrderInv
=============================================================================
