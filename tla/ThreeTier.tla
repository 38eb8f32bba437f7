------------------------------ MODULE ThreeTier ------------------------------
(***************************************************************************)
(* The four services and the frontend, as processes that call each other,  *)
(* crash and are restarted: frontend -> s0 -> {s1, s2}, s1 -> s3.          *)
(*                                                                         *)
(* A service serves a request with one call object.  Here an object is     *)
(* where it stands (stage) and which responses it has recorded (got); how  *)
(* the threads of one process bring that about is the subject of           *)
(* FanoutService and LeafService.  A process dies from outside (Crash: the *)
(* machine, the operator, an abort of the kinds those modules show) or by  *)
(* the assertion on ok in the loop of its own Run.  No rpc has a deadline  *)
(* and none is retried.                                                    *)
(***************************************************************************)
EXTENDS Integers, FiniteSets

CONSTANTS
  Req,         (* the requests the frontend receives                       *)
  MaxCrashes   (* bound: how often a process dies from outside             *)

ASSUME ThreeTierAssumption == MaxCrashes \in Nat

Svc  == {"s0", "s1", "s2", "s3"}
Down == [s \in Svc |-> CASE s = "s0" -> {"s1", "s2"}
                         [] s = "s1" -> {"s3"}
                         [] OTHER    -> {}]

VARIABLES
  up,       (* whether the process of a service runs                       *)
  died,     (* the services that have died at least once                   *)
  asserts,  (* the services that have died by the assertion on ok          *)
  crashes,  (* the deaths from outside so far                              *)
  front,    (* what the frontend knows of a request                        *)
  stage,    (* how far a service has come with a request                   *)
  got,      (* the downstream responses a service has recorded             *)
  resp,     (* the response of a service that its caller has not yet taken *)
  orphan    (* the requests of a service whose caller has died meanwhile   *)

vars == <<up, died, asserts, crashes, front, stage, got, resp, orphan>>

Stage  == {"unsent", "sent", "accepted", "replied", "done", "lost"}
Active == {"sent", "accepted", "replied"}

TypeOK ==
  /\ up      \in [Svc -> BOOLEAN]
  /\ died    \in SUBSET Svc
  /\ asserts \in SUBSET died
  /\ crashes \in 0 .. MaxCrashes
  /\ front   \in [Req -> {"idle", "waiting", "ok", "error"}]
  /\ stage   \in [Svc -> [Req -> Stage]]
  /\ got     \in [Svc -> [Req -> SUBSET Svc]]
  /\ resp    \in [Svc -> [Req -> {"none", "ok", "error"}]]
  /\ orphan  \in [Svc -> SUBSET Req]

Init ==
  /\ up      = [s \in Svc |-> TRUE]
  /\ died    = {}
  /\ asserts = {}
  /\ crashes = 0
  /\ front   = [q \in Req |-> "idle"]
  /\ stage   = [s \in Svc |-> [q \in Req |-> "unsent"]]
  /\ got     = [s \in Svc |-> [q \in Req |-> {}]]
  /\ resp    = [s \in Svc |-> [q \in Req |-> "none"]]
  /\ orphan  = [s \in Svc |-> {}]

-----------------------------------------------------------------------------
(* Mutant of StartCalls: a call may fail while its service is fine.        *)
StartCallsUnreliable(T, q, newStage) ==
  \E F \in SUBSET T :
    /\ {d \in T : ~up[d]} \subseteq F
    /\ stage' = [s \in Svc |-> IF s \in T \ F THEN [newStage[s] EXCEPT ![q] = "sent"]
                                              ELSE newStage[s]]
    /\ resp'  = [s \in Svc |-> IF s \in F THEN [resp[s] EXCEPT ![q] = "error"] ELSE resp[s]]

(* The rpcs of q to the services T are started.  One that finds no process *)
(* fails at once, and so may one to a service that has died: its channel   *)
(* may not have been reconnected.                                          *)
StartCalls(T, q, newStage) ==
  \E F \in SUBSET T :
    /\ {d \in T : ~up[d]} \subseteq F
    /\ F \subseteq {d \in T : ~up[d] \/ d \in died}
    /\ stage' = [s \in Svc |-> IF s \in T \ F THEN [newStage[s] EXCEPT ![q] = "sent"]
                                              ELSE newStage[s]]
    /\ resp'  = [s \in Svc |-> IF s \in F THEN [resp[s] EXCEPT ![q] = "error"] ELSE resp[s]]

(* The frontend's handler calls rpc_0 for an http request.                 *)
Request(q) ==
  /\ front[q] = "idle"
  /\ front' = [front EXCEPT ![q] = "waiting"]
  /\ StartCalls({"s0"}, q, stage)
  /\ UNCHANGED <<up, died, asserts, crashes, got, orphan>>

(* The handler's rpc_0 returns.                                            *)
Return(q) ==
  /\ front[q] = "waiting"
  /\ resp["s0"][q] # "none"
  /\ front' = [front EXCEPT ![q] = resp["s0"][q]]
  /\ resp'  = [resp EXCEPT !["s0"][q] = "none"]
  /\ UNCHANGED <<up, died, asserts, crashes, stage, got, orphan>>

(* Proceed takes a request and forwards it to all its clients.             *)
Accept(s, q) ==
  /\ up[s]
  /\ stage[s][q] = "sent"
  /\ StartCalls(Down[s], q, [stage EXCEPT ![s][q] = "accepted"])
  /\ UNCHANGED <<up, died, asserts, crashes, front, got, orphan>>

(* A request whose caller died before it was taken may vanish in grpc.     *)
Drop(s, q) ==
  /\ up[s]
  /\ stage[s][q] = "sent"
  /\ q \in orphan[s]
  /\ stage' = [stage EXCEPT ![s][q] = "lost"]
  /\ UNCHANGED <<up, died, asserts, crashes, front, got, resp, orphan>>

(* Mutant of Record: a response that failed is printed and dropped.        *)
RecordOkOnly(s, d, q) ==
  /\ up[s]
  /\ stage[s][q] = "accepted"
  /\ d \in Down[s]
  /\ resp[d][q] = "ok"
  /\ got'  = [got EXCEPT ![s][q] = @ \cup {d}]
  /\ resp' = [resp EXCEPT ![d][q] = "none"]
  /\ UNCHANGED <<up, died, asserts, crashes, front, stage, orphan>>

(* A client's thread takes the response of d, failed or not, and Proceed   *)
(* records it.                                                             *)
Record(s, d, q) ==
  /\ up[s]
  /\ stage[s][q] = "accepted"
  /\ d \in Down[s]
  /\ resp[d][q] # "none"
  /\ got'  = [got EXCEPT ![s][q] = @ \cup {d}]
  /\ resp' = [resp EXCEPT ![d][q] = "none"]
  /\ UNCHANGED <<up, died, asserts, crashes, front, stage, orphan>>

(* Mutant of Finish: || for && in the test of getResponse[].               *)
FinishOnAny(s, q) ==
  /\ up[s]
  /\ stage[s][q] = "accepted"
  /\ Down[s] # {} => got[s][q] # {}
  /\ stage' = [stage EXCEPT ![s][q] = "replied"]
  /\ resp'  = IF q \in orphan[s] THEN resp ELSE [resp EXCEPT ![s][q] = "ok"]
  /\ UNCHANGED <<up, died, asserts, crashes, front, got, orphan>>

(* All responses are recorded: responder_.Finish with Status::OK.          *)
Finish(s, q) ==
  /\ up[s]
  /\ stage[s][q] = "accepted"
  /\ got[s][q] = Down[s]
  /\ stage' = [stage EXCEPT ![s][q] = "replied"]
  /\ resp'  = IF q \in orphan[s] THEN resp ELSE [resp EXCEPT ![s][q] = "ok"]
  /\ UNCHANGED <<up, died, asserts, crashes, front, got, orphan>>

(* The reply's tag comes with ok: the object is deleted.                   *)
Delete(s, q) ==
  /\ up[s]
  /\ stage[s][q] = "replied"
  /\ stage' = [stage EXCEPT ![s][q] = "done"]
  /\ UNCHANGED <<up, died, asserts, crashes, front, got, resp, orphan>>

-----------------------------------------------------------------------------
(* The process of s ends.  Its requests are lost and their callers get an  *)
(* error, also instead of replies L that had not left the process; what it *)
(* had asked of other services becomes theirs alone.                       *)
Die(s) ==
  /\ up'   = [up EXCEPT ![s] = FALSE]
  /\ died' = died \cup {s}
  /\ \E L \in SUBSET {q \in Req : resp[s][q] = "ok"} :
       resp' = [d \in Svc |-> [q \in Req |->
                  CASE d \in Down[s] -> "none"
                    [] d = s /\ (\/ q \in L
                                 \/ stage[s][q] \in {"sent", "accepted"} /\ q \notin orphan[s]) -> "error"
                    [] OTHER -> resp[d][q]]]
  /\ stage'  = [stage EXCEPT ![s] = [q \in Req |-> IF @[q] \in Active THEN "lost" ELSE @[q]]]
  /\ orphan' = [d \in Svc |-> CASE d \in Down[s] -> orphan[d] \cup {q \in Req : stage[d][q] \in Active}
                                [] d = s -> {}
                                [] OTHER -> orphan[d]]
  /\ UNCHANGED <<front, got>>

Crash(s) ==
  /\ up[s]
  /\ crashes < MaxCrashes
  /\ crashes' = crashes + 1
  /\ Die(s)
  /\ UNCHANGED asserts

(* Mutant of AssertOk: ok is false although the caller is alive, as after  *)
(* a deadline or a cancellation by the caller.                             *)
AssertOkAnyCaller(s, q) ==
  /\ up[s]
  /\ stage[s][q] = "replied"
  /\ Die(s)
  /\ asserts' = asserts \cup {s}
  /\ UNCHANGED crashes

(* The reply's tag comes without ok, since there is no caller to send the  *)
(* reply to: GPR_ASSERT(ok) ends the process.                              *)
AssertOk(s, q) ==
  /\ up[s]
  /\ stage[s][q] = "replied"
  /\ q \in orphan[s]
  /\ Die(s)
  /\ asserts' = asserts \cup {s}
  /\ UNCHANGED crashes

(* docker-compose: restart: always.                                        *)
Restart(s) ==
  /\ ~up[s]
  /\ up' = [up EXCEPT ![s] = TRUE]
  /\ UNCHANGED <<died, asserts, crashes, front, stage, got, resp, orphan>>

-----------------------------------------------------------------------------
Serve(s, q) == \/ Accept(s, q) \/ Finish(s, q)
               \/ Delete(s, q) \/ AssertOk(s, q)

Next ==
  \/ \E q \in Req : Request(q) \/ Return(q)
  \/ \E s \in Svc : Crash(s) \/ Restart(s)
  \/ \E s \in Svc, q \in Req : Serve(s, q) \/ Drop(s, q)
  \/ \E s, d \in Svc, q \in Req : Record(s, d, q)

Spec == Init /\ [][Next]_vars

(* A process that is up serves, one that is down is restarted, and         *)
(* responses are taken.  Nothing is assumed of Crash and Drop.             *)
Fairness ==
  /\ \A q \in Req : WF_vars(Return(q))
  /\ \A s \in Svc : WF_vars(Restart(s))
  /\ \A s \in Svc, q \in Req : WF_vars(Serve(s, q))
  /\ \A s, d \in Svc, q \in Req : WF_vars(Record(s, d, q))

FairSpec == Spec /\ Fairness

-----------------------------------------------------------------------------
Caller(d) == IF d = "s0" THEN "frontend" ELSE CHOOSE s \in Svc : d \in Down[s]

(* Deaths by the assertion spread down the tiers only: the caller of a     *)
(* service that dies so has died itself.  A failing downstream service     *)
(* never takes its callers with it, and s0, whose caller never cancels,    *)
(* never dies by the assertion.                                            *)
AssertsSpreadDown == \A s \in asserts : Caller(s) \in died

(* An answered http request has nothing left to do, but for requests whose *)
(* caller has died: in that case the frontend hears of success while a     *)
(* lower tier is still at work.                                            *)
SuccessIsSettled ==
  \A q \in Req, s \in Svc :
    front[q] = "ok" /\ stage[s][q] \in {"sent", "accepted"} => q \in orphan[s]

(* An error reaches the frontend only if s0 itself has died: all failures  *)
(* below it are reported as success.                                       *)
ErrorsStopAtS0 == (\E q \in Req : front[q] = "error") => "s0" \in died

(* The inductive invariant, in parts.  Only a service that has died is     *)
(* down, only one whose caller has died is left alone with requests, and   *)
(* the frontend, which does not die, sees errors only of a dead s0.        *)
DeathInv ==
  /\ \A s \in Svc : ~up[s] => s \in died
  /\ orphan["s0"] = {}
  /\ \A s, c \in Svc : s \in Down[c] /\ orphan[s] # {} => c \in died
  /\ \A q \in Req : front[q] = "error" \/ resp["s0"][q] = "error" => "s0" \in died

(* What lies below a request that has not been accepted has not started.   *)
UnsentInv ==
  /\ \A q \in Req : front[q] = "idle" => stage["s0"][q] = "unsent" /\ resp["s0"][q] = "none"
  /\ \A s \in Svc, q \in Req :
       /\ q \in orphan[s] => stage[s][q] # "unsent"
       /\ stage[s][q] \in {"unsent", "sent"} =>
            /\ got[s][q] = {}
            /\ \A d \in Down[s] : stage[d][q] = "unsent" /\ resp[d][q] = "none"

Owes(s, q) == stage[s][q] \in {"sent", "accepted"} /\ q \notin orphan[s]

(* While an answer is owed or on its way, its caller still waits for it.   *)
WaitInv ==
  \A s \in Svc, q \in Req :
    /\ Owes(s, q) => resp[s][q] = "none"
    /\ Owes(s, q) \/ resp[s][q] # "none" =>
         /\ s = "s0" => front[q] = "waiting"
         /\ \A c \in Svc : s \in Down[c] => stage[c][q] = "accepted" /\ s \notin got[c][q]

(* Work whose caller has died belongs to a request that caller has lost or *)
(* had done with; if it is still going on, s0 has not reported success.    *)
OrphanInv ==
  \A q \in Req, c \in Svc : \A s \in Down[c] :
    q \in orphan[s] =>
      /\ stage[c][q] \in {"lost", "done"}
      /\ c = "s0" /\ stage[s][q] \in {"sent", "accepted"} =>
           stage[c][q] = "lost" /\ front[q] # "ok" /\ resp[c][q] # "ok"

IInv == /\ TypeOK
        /\ DeathInv
        /\ UnsentInv
        /\ WaitInv
        /\ OrphanInv
        /\ AssertsSpreadDown

Ended(q) == front[q] \in {"ok", "error"} /\ \A s \in Svc : stage[s][q] \notin Active

(* Every http request comes to an end, and so does all the work that was   *)
(* started for it, whichever processes die on the way.                     *)
EverythingEnds == \A q \in Req : front[q] = "waiting" ~> []Ended(q)

(* How far the requests of a service are, in the terms of the contract.    *)
Progress(s) == [q \in Req |-> IF stage[s][q] = "done" THEN "replied" ELSE stage[s][q]]

C0 == INSTANCE RpcContract WITH Rpcs <- Down["s0"], rq <- Progress("s0"), done <- got["s0"]
C1 == INSTANCE RpcContract WITH Rpcs <- Down["s1"], rq <- Progress("s1"), done <- got["s1"]
C2 == INSTANCE RpcContract WITH Rpcs <- Down["s2"], rq <- Progress("s2"), done <- got["s2"]
C3 == INSTANCE RpcContract WITH Rpcs <- Down["s3"], rq <- Progress("s3"), done <- got["s3"]

(* As long as neither a service nor its caller has died, the service gives *)
(* its caller the contract that FanoutService implements, whatever happens *)
(* to the services below it: failed calls count as completed.              *)
KeepsContracts ==
  /\ C0!Init /\ C1!Init /\ C2!Init /\ C3!Init
  /\ [][/\ "s0" \notin died'                => C0!Next \/ UNCHANGED C0!vars
        /\ {"s0", "s1"} \cap died' = {}      => C1!Next \/ UNCHANGED C1!vars
        /\ {"s0", "s2"} \cap died' = {}      => C2!Next \/ UNCHANGED C2!vars
        /\ {"s1", "s3"} \cap died' = {}      => C3!Next \/ UNCHANGED C3!vars]_vars
=============================================================================
