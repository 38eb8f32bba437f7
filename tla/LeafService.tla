----------------------------- MODULE LeafService -----------------------------
(***************************************************************************)
(* The asynchronous server of a tier without downstream calls: service_2   *)
(* (rpc_2) and service_3 (rpc_3), the same program twice.                  *)
(*                                                                         *)
(* A Rpc_k_CallData of these services has no mutex, and Proceed writes     *)
(* status_ after responder_.Finish has published the object for the next   *)
(* thread.  An object has two activations, both Proceed(-1): that of its   *)
(* request's tag and that of its reply's tag.  Blocks are not reused (what *)
(* a reused block adds is the subject of FanoutService), so that a write   *)
(* of gen into a freed block, which FreedIsQuiet tells of, harms nobody    *)
(* here.  The branch for FINISH is left out: nothing sets that status.     *)
(***************************************************************************)
EXTENDS Integers, FiniteSets

CONSTANTS
  Block,      (* the heap blocks a call object may occupy                  *)
  Req,        (* the requests clients send                                 *)
  None        (* no block, no request                                      *)

ReqTag == -1                  (* Proceed(-1): a request has arrived        *)
FinTag == -2                  (* Proceed(-1): the reply has been sent      *)
Acts   == {ReqTag, FinTag}

ASSUME LeafAssumption == None \notin Block \cup Req \cup (Block \X Acts)

VARIABLES
  mem,          (* of a block: "raw", "live" (holds an object) or "freed"  *)
  status_,      (* the object's CallStatus                                 *)
  call,         (* the request in the object's ctx_, request_, responder_  *)
  pc,           (* where Proceed stands, for each object and activation    *)
  maker,        (* the activation whose `new` is constructing the object   *)
  listening,    (* objects registered with Requestrpc_k                    *)
  cq,           (* <<object, tag>> pairs in the server's completion queue  *)
  rq,           (* how far a request has come                              *)
  aborted       (* a failed assertion of grpc ended the process            *)

vars == <<mem, status_, call, pc, maker, listening, cq, rq, aborted>>

Stage  == {"unsent", "sent", "accepted", "replied"}
Status == {"CREATE", "PROCESS", "DESTROY"}
Label  == {"idle", "run", "new", "work", "mark"}

TypeOK ==
  /\ mem       \in [Block -> {"raw", "live", "freed"}]
  /\ status_   \in [Block -> Status]
  /\ call      \in [Block -> Req \cup {None}]
  /\ pc        \in [Block -> [Acts -> Label]]
  /\ maker     \in [Block -> (Block \X Acts) \cup {None}]
  /\ listening \in SUBSET Block
  /\ cq        \in SUBSET (Block \X Acts)
  /\ rq        \in [Req -> Stage]
  /\ aborted   \in BOOLEAN

(* Run() has constructed the first object before its loop takes a tag.     *)
Init ==
  \E first \in Block :
    /\ mem       = [b \in Block |-> IF b = first THEN "live" ELSE "raw"]
    /\ status_   = [b \in Block |-> IF b = first THEN "PROCESS" ELSE "CREATE"]
    /\ call      = [b \in Block |-> None]
    /\ pc        = [b \in Block |-> [a \in Acts |-> "idle"]]
    /\ maker     = [b \in Block |-> None]
    /\ listening = {first}
    /\ cq        = {}
    /\ rq        = [q \in Req |-> "unsent"]
    /\ aborted   = FALSE

At(b, a, l)   == ~aborted /\ pc[b][a] = l
Goto(b, a, l) == pc' = [pc EXCEPT ![b][a] = l]

-----------------------------------------------------------------------------
(* Clients and the grpc runtime.                                           *)

Send(q) ==
  /\ ~aborted
  /\ rq[q] = "unsent"
  /\ rq' = [rq EXCEPT ![q] = "sent"]
  /\ UNCHANGED <<mem, status_, call, pc, maker, listening, cq, aborted>>

(* grpc matches q with a registered object and queues the object's tag.    *)
Accept(q, b) ==
  /\ ~aborted
  /\ rq[q] = "sent"
  /\ b \in listening
  /\ rq'        = [rq EXCEPT ![q] = "accepted"]
  /\ call'      = [call EXCEPT ![b] = q]
  /\ listening' = listening \ {b}
  /\ cq'        = cq \cup {<<b, ReqTag>>}
  /\ UNCHANGED <<mem, status_, pc, maker, aborted>>

(* Mutant of Dispatch: the tag stays in the queue.                         *)
DispatchAgain(b, a) ==
  /\ At(b, a, "idle")
  /\ <<b, a>> \in cq
  /\ Goto(b, a, "run")
  /\ UNCHANGED <<mem, status_, call, maker, listening, cq, rq, aborted>>

(* The loop of Run takes a tag and detaches a thread that calls Proceed(). *)
Dispatch(b, a) ==
  /\ At(b, a, "idle")
  /\ <<b, a>> \in cq
  /\ cq' = cq \ {<<b, a>>}
  /\ Goto(b, a, "run")
  /\ UNCHANGED <<mem, status_, call, maker, listening, rq, aborted>>

-----------------------------------------------------------------------------
(* Rpc_k_CallData::Proceed.                                                *)

(* Mutant of StartProcess: the next object is allocated only by the tag of *)
(* a reply, when the object before it is done.                             *)
StartProcessAlone(b, a) ==
  /\ At(b, a, "run")
  /\ status_[b] = "PROCESS"
  /\ Goto(b, a, "work")
  /\ UNCHANGED <<mem, status_, call, maker, listening, cq, rq, aborted>>

(* status_ == PROCESS: the object for the next request is allocated; its   *)
(* constructor turns CREATE into PROCESS and registers it.                 *)
StartProcess(b, a) ==
  /\ At(b, a, "run")
  /\ status_[b] = "PROCESS"
  /\ \E c \in Block :
       /\ mem[c] = "raw"
       /\ mem'       = [mem EXCEPT ![c] = "live"]
       /\ status_'   = [status_ EXCEPT ![c] = "PROCESS"]
       /\ maker'     = [maker EXCEPT ![c] = <<b, a>>]
       /\ listening' = listening \cup {c}
  /\ Goto(b, a, "new")
  /\ UNCHANGED <<call, cq, rq, aborted>>

(* The constructor seeds gen, after the registration, and `new` returns:   *)
(* the object may have been used, or freed, in between.                    *)
CtorReturn(c) ==
  /\ ~aborted
  /\ maker[c] # None
  /\ Goto(maker[c][1], maker[c][2], "work")
  /\ maker' = [maker EXCEPT ![c] = None]
  /\ UNCHANGED <<mem, status_, call, listening, cq, rq, aborted>>

(* Mutant of Finish: without its else, the branch for FINISH is run too.   *)
FinishAndAgain(b, a) ==
  /\ At(b, a, "work")
  /\ rq[call[b]] = "accepted"
  /\ rq' = [rq EXCEPT ![call[b]] = "replied"]
  /\ cq' = cq \cup {<<b, FinTag>>}
  /\ UNCHANGED <<mem, status_, call, pc, maker, listening, aborted>>

(* The service time is drawn and spent, and the reply is sent.             *)
Finish(b, a) ==
  /\ At(b, a, "work")
  /\ rq[call[b]] = "accepted"
  /\ rq' = [rq EXCEPT ![call[b]] = "replied"]
  /\ cq' = cq \cup {<<b, FinTag>>}
  /\ Goto(b, a, "mark")
  /\ UNCHANGED <<mem, status_, call, maker, listening, aborted>>

(* The second Finish of one responder: grpc's assertion ends the process.  *)
FinishTwice(b, a) ==
  /\ At(b, a, "work")
  /\ rq[call[b]] = "replied"
  /\ aborted' = TRUE
  /\ UNCHANGED <<mem, status_, call, pc, maker, listening, cq, rq>>

(* status_ = DESTROY, when the reply's tag may be on its way already.      *)
MarkDestroy(b, a) ==
  /\ At(b, a, "mark")
  /\ status_' = [status_ EXCEPT ![b] = "DESTROY"]
  /\ Goto(b, a, "idle")
  /\ UNCHANGED <<mem, call, maker, listening, cq, rq, aborted>>

(* status_ == DESTROY: delete this.                                        *)
Delete(b, a) ==
  /\ At(b, a, "run")
  /\ status_[b] = "DESTROY"
  /\ mem' = [mem EXCEPT ![b] = "freed"]
  /\ Goto(b, a, "idle")
  /\ UNCHANGED <<status_, call, maker, listening, cq, rq, aborted>>

-----------------------------------------------------------------------------
Step(b, a) ==
  \/ StartProcess(b, a) \/ Finish(b, a) \/ FinishTwice(b, a)
  \/ MarkDestroy(b, a)  \/ Delete(b, a)

Next ==
  \/ \E q \in Req : Send(q)
  \/ \E q \in Req, b \in Block : Accept(q, b)
  \/ \E b \in Block : CtorReturn(b)
  \/ \E b \in Block, a \in Acts : Dispatch(b, a) \/ Step(b, a)

Spec == Init /\ [][Next]_vars

(* Every thread that can run is run, the loop takes every tag, and grpc    *)
(* matches requests with registered objects.                               *)
Fairness ==
  /\ \A q \in Req : WF_vars(\E b \in Block : Accept(q, b))
  /\ \A b \in Block : WF_vars(CtorReturn(b))
  /\ \A b \in Block, a \in Acts : WF_vars(Dispatch(b, a)) /\ WF_vars(Step(b, a))

FairSpec == Spec /\ Fairness

-----------------------------------------------------------------------------
(* The reply's tag has been taken for a request: it overtook the write of  *)
(* DESTROY that follows the Finish.                                        *)
EarlyTag(b) == pc[b][FinTag] \in {"new", "work"}

TakesNext(b) ==
  \/ b \in listening
  \/ <<b, ReqTag>> \in cq
  \/ pc[b][ReqTag] = "run"

(* One object takes the next request, and one more for every reply's tag   *)
(* that was taken for a request: the service is never deaf, and only the   *)
(* unlocked status_ can multiply its listeners.                            *)
ListenersMatch ==
  Cardinality({b \in Block : TakesNext(b)}) = 1 + Cardinality({b \in Block : EarlyTag(b)})

(* The activation that constructs b is still to seed gen, in Proceed of an *)
(* object that is not freed and whose own request is older: unanswered, or *)
(* served once more for an early tag.                                      *)
CtorIsLate(b) ==
  \E d \in Block, a \in Acts :
    /\ maker[b] = <<d, a>>
    /\ mem[d] = "live" /\ pc[d][a] = "new"
    /\ rq[call[d]] = "accepted" \/ EarlyTag(d)

(* An object is freed after its reply, when grpc has neither its tag nor   *)
(* its registration and no activation of it is running.  One thread may    *)
(* still reach it: that of the `new` which made it.  The registration      *)
(* comes before gen is seeded, so that the object may serve its request    *)
(* and be deleted first; the constructor then writes into freed memory.    *)
FreedIsQuiet ==
  \A b \in Block : mem[b] = "freed" =>
    /\ rq[call[b]] = "replied"
    /\ b \notin listening
    /\ \A a \in Acts : pc[b][a] = "idle" /\ <<b, a>> \notin cq
    /\ maker[b] # None => CtorIsLate(b)

(* The process ends by an assertion only when a reply's tag was taken for  *)
(* a request: the thread of the request itself never finishes twice.       *)
AbortIsEarlyTag == aborted => \E b \in Block : EarlyTag(b) /\ rq[call[b]] = "replied"

(* No responder is finished twice, so that a request is answered once.     *)
NeverAborted == ~aborted

(* Every request is answered, unless the process ends by an assertion.     *)
AnsweredOrAborted == \A q \in Req : rq[q] = "sent" ~> (rq[q] = "replied" \/ aborted)

=============================================================================
