---------------------------- MODULE WrkConnection ----------------------------
(***************************************************************************)
(* One connection of the load generator wrk2 (wrk.c): the open-loop pacing *)
(* of its requests and the attribution of its responses.                   *)
(*                                                                         *)
(* The event loop runs one handler at a time: socket_connected,            *)
(* socket_writeable, socket_readable with response_complete, and the timer *)
(* delay_request.  Requests are sent at a fixed interval, pipelined on the *)
(* connection without waiting for responses; the n-th request's time of    *)
(* sending is kept in a ring of MAXO+1 slots, and the n-th response takes  *)
(* its latency from the n-th slot.  A connection that fails is replaced;   *)
(* its counters and its timers are not.  Time is counted in units in which *)
(* the interval is a small number.                                         *)
(***************************************************************************)
EXTENDS Integers, Sequences

CONSTANTS
  Interval,        (* c->interval, with the fixed distribution             *)
  Chunks,          (* in how many writes a request may go out              *)
  Ring,            (* MAXO + 1                                             *)
  MaxTime,         (* bound: the length of the run                         *)
  MaxResets,       (* bound: how many connections fail                     *)
  ConnectMayFail   (* whether connect() or socket() may fail at once       *)

ASSUME WrkAssumption ==
  /\ Interval \in Nat \ {0} /\ Chunks \in Nat \ {0} /\ Ring \in Nat \ {0}
  /\ MaxTime \in Nat /\ MaxResets \in Nat
  /\ ConnectMayFail \in BOOLEAN

VARIABLES
  now,          (* the clock                                               *)
  thread_start, (* when the connection was begun                           *)
  thread_next,  (* when the next request is due                            *)
  estimate,     (* the requests whose due time has been computed           *)
  sent,         (* the requests of which something has been written        *)
  complete,     (* the responses counted                                   *)
  written,      (* how much of the current request has been written        *)
  actual_latency_start,   (* the ring: which request's time a slot holds   *)
  fd,           (* "new", "connecting", "open" or "closed" (no way back)   *)
  rproc,        (* the handler registered for AE_READABLE on the fd        *)
  wproc,        (* the handler registered for AE_WRITABLE on the fd        *)
  timers,       (* pending delay_request time events                       *)
  wire,         (* complete requests without a response, on this fd        *)
  full,         (* the send buffer of the fd is full: the server reads no  *)
                (* more of what has been written                           *)
  resets        (* failed connections so far                               *)

pace == <<thread_next, estimate>>
conn == <<fd, rproc, wproc, wire, full, resets>>
vars == <<now, thread_start, pace, sent, complete, written, actual_latency_start, conn, timers>>

Proc == {"none", "socket_connected", "socket_writeable", "socket_readable"}

TypeOK ==
  /\ now \in 0 .. MaxTime /\ thread_start \in 0 .. MaxTime
  /\ thread_next \in Nat /\ estimate \in Nat
  /\ sent \in Nat /\ complete \in Nat
  /\ written \in 0 .. Chunks - 1
  /\ actual_latency_start \in [0 .. Ring - 1 -> Nat \cup {-1}]
  /\ fd \in {"new", "connecting", "open", "closed"}
  /\ rproc \in Proc /\ wproc \in Proc
  /\ timers \in Nat
  /\ wire \in Seq(Nat) /\ full \in BOOLEAN
  /\ resets \in 0 .. MaxResets

Init ==
  /\ now = 0 /\ thread_start = 0 /\ thread_next = 0 /\ estimate = 0 /\ sent = 0 /\ complete = 0
  /\ written = 0
  /\ actual_latency_start = [i \in 0 .. Ring - 1 |-> -1]
  /\ fd = "new" /\ rproc = "none" /\ wproc = "none"
  /\ timers = 0 /\ wire = <<>> /\ full = FALSE /\ resets = 0

Tick ==
  /\ now < MaxTime
  /\ now' = now + 1
  /\ UNCHANGED <<thread_start, pace, sent, complete, written, actual_latency_start, conn, timers>>

-----------------------------------------------------------------------------
(* connect_socket: a new fd with socket_connected registered for both      *)
(* events, or an fd that is closed again and left in c->fd.                *)
connect_socket ==
  /\ wire' = <<>> /\ full' = FALSE
  /\ \/ fd' = "connecting" /\ rproc' = "socket_connected" /\ wproc' = "socket_connected"
     \/ ConnectMayFail /\ fd' = "closed" /\ rproc' = "none" /\ wproc' = "none"

delayed_initial_connect ==
  /\ fd = "new"
  /\ thread_start' = now /\ thread_next' = now
  /\ connect_socket
  /\ UNCHANGED <<now, estimate, sent, complete, written, actual_latency_start, timers, resets>>

(* The connection fails: the next handler meets an error and calls         *)
(* reconnect_socket.  What was under way on the old fd is gone.            *)
reconnect_socket ==
  /\ fd \in {"connecting", "open"}
  /\ resets < MaxResets
  /\ resets' = resets + 1
  /\ connect_socket
  /\ UNCHANGED <<now, thread_start, pace, sent, complete, written, actual_latency_start, timers>>

(* The kernel completes the connection.                                    *)
Established ==
  /\ fd = "connecting"
  /\ fd' = "open"
  /\ UNCHANGED <<now, thread_start, pace, sent, complete, written, actual_latency_start, rproc, wproc, wire, full, resets, timers>>

(* The server reads: there is room in the send buffer again.               *)
Drain ==
  /\ full
  /\ full' = FALSE
  /\ UNCHANGED <<now, thread_start, pace, sent, complete, written, actual_latency_start, fd, rproc, wproc, wire, resets, timers>>

socket_connected ==
  /\ fd = "open"
  /\ wproc = "socket_connected" \/ (rproc = "socket_connected" /\ wire # <<>>)
  /\ written' = 0
  /\ rproc' = "socket_readable"
  /\ wproc' = "socket_writeable"
  /\ UNCHANGED <<now, thread_start, pace, sent, complete, actual_latency_start, fd, wire, full, resets, timers>>

-----------------------------------------------------------------------------
(* Mutant of usec_to_next_send: `<` for `<=`, the due time lags by one.    *)
LateSchedule ==
  IF estimate < sent
  THEN [estimate |-> estimate + 1, next |-> thread_next + Interval]
  ELSE [estimate |-> estimate, next |-> thread_next]

(* usec_to_next_send: the due time of the next request is computed once.   *)
Schedule ==
  IF estimate <= sent
  THEN [estimate |-> estimate + 1, next |-> thread_next + Interval]
  ELSE [estimate |-> estimate, next |-> thread_next]

usec_to_next_send(due) ==
  /\ estimate'    = Schedule.estimate
  /\ thread_next' = Schedule.next
  /\ due <=> Schedule.next <= now

(* A time event fires: it is re-armed while the request is not yet due;    *)
(* otherwise the connection is made writable again, whatever it is by now. *)
delay_request ==
  /\ timers > 0
  /\ \/ usec_to_next_send(FALSE) /\ UNCHANGED <<timers, wproc>>
     \/ /\ usec_to_next_send(TRUE)
        /\ timers' = timers - 1
        /\ wproc'  = IF fd = "closed" THEN "none" ELSE "socket_writeable"
  /\ UNCHANGED <<now, thread_start, sent, complete, written, actual_latency_start, fd, rproc, wire, full, resets>>

(* socket_writeable, between requests and before the next one is due.      *)
Delay ==
  /\ fd = "open" /\ wproc = "socket_writeable"
  /\ written = 0
  /\ usec_to_next_send(FALSE)
  /\ wproc'  = "none"
  /\ timers' = timers + 1
  /\ UNCHANGED <<now, thread_start, sent, complete, written, actual_latency_start, fd, rproc, wire, full, resets>>

(* Mutant of Write: the next request waits for the last response.          *)
WriteClosedLoop ==
  /\ fd = "open" /\ wproc = "socket_writeable" /\ ~full
  /\ wire = <<>>
  /\ IF written = 0
     THEN /\ usec_to_next_send(TRUE)
          /\ actual_latency_start' = [actual_latency_start EXCEPT ![sent % Ring] = sent]
          /\ sent' = sent + 1
     ELSE UNCHANGED <<pace, actual_latency_start, sent>>
  /\ \E n \in 1 .. Chunks - written :
       /\ written' = (written + n) % Chunks
       /\ wire' = IF written + n = Chunks THEN Append(wire, sent' - 1) ELSE wire
  /\ full' \in BOOLEAN
  /\ UNCHANGED <<now, thread_start, complete, fd, rproc, wproc, resets, timers>>

(* Mutant of Write: the slot is taken when the request is complete.        *)
WriteLateSlot ==
  /\ fd = "open" /\ wproc = "socket_writeable" /\ ~full
  /\ IF written = 0
     THEN usec_to_next_send(TRUE) /\ sent' = sent + 1
     ELSE UNCHANGED <<pace, sent>>
  /\ actual_latency_start' = [actual_latency_start EXCEPT ![sent' % Ring] = sent' - 1]
  /\ \E n \in 1 .. Chunks - written :
       /\ written' = (written + n) % Chunks
       /\ wire' = IF written + n = Chunks THEN Append(wire, sent' - 1) ELSE wire
  /\ full' \in BOOLEAN
  /\ UNCHANGED <<now, thread_start, complete, fd, rproc, wproc, resets, timers>>

(* socket_writeable writes n chunks; with the first of a request, its time *)
(* is taken into the ring and the request counts as sent.  Afterwards the  *)
(* send buffer may be full, so that the poller reports the fd no more.     *)
Write ==
  /\ fd = "open" /\ wproc = "socket_writeable" /\ ~full
  /\ IF written = 0
     THEN /\ usec_to_next_send(TRUE)
          /\ actual_latency_start' = [actual_latency_start EXCEPT ![sent % Ring] = sent]
          /\ sent' = sent + 1
     ELSE UNCHANGED <<pace, actual_latency_start, sent>>
  /\ \E n \in 1 .. Chunks - written :
       /\ written' = (written + n) % Chunks
       /\ wire' = IF written + n = Chunks THEN Append(wire, sent' - 1) ELSE wire
  /\ full' \in BOOLEAN
  /\ UNCHANGED <<now, thread_start, complete, fd, rproc, wproc, resets, timers>>

(* The poller reported the fd and yet there is no room (EAGAIN, RETRY): the *)
(* due time has been computed, and the handler returns.  In the middle of  *)
(* a request nothing at all changes.                                       *)
Retry ==
  /\ fd = "open" /\ wproc = "socket_writeable" /\ full
  /\ written = 0
  /\ usec_to_next_send(TRUE)
  /\ UNCHANGED <<now, thread_start, sent, complete, written, actual_latency_start, conn, timers>>

(* socket_readable and response_complete: the oldest request on the wire   *)
(* is answered and its latency taken from the slot of the response's own   *)
(* number; a response without keep-alive ends in reconnect_socket.         *)
response_complete ==
  /\ fd = "open" /\ rproc = "socket_readable"
  /\ wire # <<>>
  /\ complete' = complete + 1
  /\ \/ wire' = Tail(wire) /\ UNCHANGED <<fd, rproc, wproc, full, resets>>
     \/ /\ resets < MaxResets /\ resets' = resets + 1
        /\ connect_socket
  /\ UNCHANGED <<now, thread_start, pace, sent, written, actual_latency_start, timers>>

-----------------------------------------------------------------------------
Handler == \/ delayed_initial_connect \/ socket_connected
           \/ delay_request \/ Delay \/ Write \/ Retry

Next == Tick \/ Handler \/ Established \/ Drain \/ reconnect_socket \/ response_complete

Spec == Init /\ [][Next]_vars

(* Time passes and the loop runs the handlers of this side; that of an fd  *)
(* without room is not due, as the poller does not report it.  Nothing is  *)
(* assumed of the server: it may leave a connect without an answer, never  *)
(* read, and never respond.                                                *)
Fairness ==
  /\ WF_vars(Tick)             /\ WF_vars(delayed_initial_connect)
  /\ WF_vars(socket_connected) /\ WF_vars(delay_request)
  /\ WF_vars(~full /\ Delay)   /\ WF_vars(Write)

FairSpec == Spec /\ Fairness

-----------------------------------------------------------------------------
(* No request is ahead of the schedule: the n-th goes out n intervals      *)
(* after the start at the earliest, over reconnects and partial writes.    *)
NeverAhead == sent * Interval <= now - thread_start

(* Every request sent is counted, on the wire or being written: none went  *)
(* down with a connection.                                                 *)
NothingLost == complete + Len(wire) + (IF written > 0 THEN 1 ELSE 0) = sent

(* The latency of a response is taken from the slot of its own request,    *)
(* over reconnects too, as long as the ring holds all the requests that    *)
(* are outstanding and until a reconnect loses one.                        *)
LatencyIsOwnUntilLoss ==
  [][complete' > complete /\ sent - complete <= Ring /\ NothingLost =>
       actual_latency_start[complete % Ring] = Head(wire)]_vars

(***************************************************************************)
(* The inductive invariant, in parts.                                      *)
(***************************************************************************)

(* The due times are those of the open loop: the k-th is k intervals after *)
(* the start, and at most one is computed ahead of the requests sent.      *)
PaceInv ==
  /\ thread_start <= now
  /\ estimate \in {sent, sent + 1}
  /\ fd # "new" => thread_next = thread_start + estimate * Interval
  /\ fd = "new" => /\ estimate = 0 /\ sent = 0 /\ written = 0 /\ timers = 0
                   /\ thread_start = 0

(* The ring holds the times of the last Ring requests.                     *)
RingInv ==
  \A n \in Nat : sent - Ring <= n /\ n < sent => actual_latency_start[n % Ring] = n

(* A request is lost or is answered, on the wire or being written; while   *)
(* none is lost, the wire holds the requests from complete on.             *)
WireInv ==
  /\ written > 0 => sent > 0
  /\ complete + Len(wire) + (IF written > 0 THEN 1 ELSE 0) <= sent
  /\ NothingLost => \A i \in 1 .. Len(wire) : wire[i] = complete + i - 1

IInv == TypeOK /\ PaceInv /\ RingInv /\ WireInv /\ NeverAhead

(* The schedule does not wait for responses, over reconnects and partial   *)
(* writes: by the end all the requests that are due are sent.  Three       *)
(* things stop it: a connect that fails at once, and a server that from    *)
(* some time on neither completes the connect nor reads what is sent.      *)
OpenLoop ==
  \/ <>(\/ fd = "closed"
        \/ fd # "new" /\ sent >= (MaxTime - thread_start) \div Interval)
  \/ <>[](fd = "connecting" \/ full)
=============================================================================
