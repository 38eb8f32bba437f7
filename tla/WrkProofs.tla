------------------------------ MODULE WrkProofs ------------------------------
(***************************************************************************)
(* Proofs about WrkConnection, for every interval, ring, number of writes  *)
(* per request, length of the run and number of failures: type             *)
(* correctness, that no request goes out ahead of the schedule, and that a *)
(* latency is taken from the slot of its own request until one is lost.    *)
(***************************************************************************)
EXTENDS WrkConnection, NumberLemmas, TLAPS

(* Type correctness and the invariant, part by part.                       *)

(* What n chunks of a write make of the request that is being written.     *)
LEMMA WriteChunks ==
  ASSUME TypeOK, NEW n \in 1 .. Chunks - written
  PROVE  /\ written + n = Chunks  => (written + n) % Chunks = 0
         /\ written + n # Chunks => (written + n) % Chunks = written + n
         /\ (written + n) % Chunks \in 0 .. Chunks - 1
<1>1. Chunks \in Nat \ {0} /\ written \in Nat /\ n \in Nat /\ written + n <= Chunks /\ written + n \in Nat
  BY WrkAssumption DEF TypeOK
<1>2. (written + n) % Chunks \in 0 .. Chunks - 1
  BY <1>1, ModRange
<1>3. CASE written + n = Chunks
  <2>1. (written + n) % Chunks = 0
    BY <1>1, <1>3, ModRange
  <2> QED BY <1>2, <1>3, <2>1
<1>4. CASE written + n # Chunks
  <2>1. written + n < Chunks
    BY <1>1, <1>4
  <2>2. (written + n) % Chunks = written + n
    BY <1>1, <2>1, ModRange
  <2> QED BY <1>2, <1>4, <2>2
<1> QED BY <1>3, <1>4

LEMMA IInvInit == Init => IInv
<1> SUFFICES ASSUME Init PROVE IInv
  OBVIOUS
<1>1. TypeOK
  <2>0. full \in BOOLEAN
    BY Zenon DEF Init
  <2>1. wire \in Seq(Nat)
    BY DEF Init
  <2> QED BY <2>0, <2>1, WrkAssumption DEF Init, TypeOK, Proc
<1>2. PaceInv /\ NeverAhead
  BY WrkAssumption DEF Init, PaceInv, NeverAhead
<1>3. RingInv
  BY WrkAssumption DEF Init, RingInv
<1>4. WireInv
  BY DEF Init, WireInv
<1> QED BY <1>1, <1>2, <1>3, <1>4 DEF IInv

(* What Write does, for a first and for a further write of a request.      *)
LEMMA WriteFirst ==
  ASSUME IInv, Write, written = 0
  PROVE  /\ usec_to_next_send(TRUE) /\ sent' = sent + 1
         /\ actual_latency_start' = [actual_latency_start EXCEPT ![sent % Ring] = sent]
BY DEF Write

LEMMA WriteFurther ==
  ASSUME IInv, Write, written # 0
  PROVE  /\ UNCHANGED <<thread_next, estimate, actual_latency_start, sent>>
         /\ written > 0 /\ sent > 0
<1>1. UNCHANGED <<thread_next, estimate, actual_latency_start, sent>>
  BY DEF Write, pace
<1>2. written \in Nat
  BY WrkAssumption DEF IInv, TypeOK
<1> QED BY <1>1, <1>2 DEF IInv, WireInv

LEMMA WriteEffect ==
  ASSUME IInv, Write
  PROVE  /\ UNCHANGED <<now, thread_start, complete, fd, rproc, wproc, resets, timers>>
         /\ \/ written' = 0 /\ wire' = Append(wire, sent' - 1)
            \/ written' > 0 /\ wire' = wire
         /\ written' \in 0 .. Chunks - 1 /\ fd = "open" /\ full' \in BOOLEAN
<1>1. PICK n \in 1 .. Chunks - written :
        /\ written' = (written + n) % Chunks
        /\ wire' = IF written + n = Chunks THEN Append(wire, sent' - 1) ELSE wire
  BY DEF Write
<1>2. TypeOK
  BY DEF IInv
<1>3. written \in Nat /\ n \in Nat /\ n > 0
  BY <1>2, WrkAssumption DEF TypeOK
<1>4. CASE written + n = Chunks
  <2>1. written' = 0 /\ wire' = Append(wire, sent' - 1)
    BY <1>1, <1>2, <1>4, WriteChunks
  <2> QED BY <2>1, WrkAssumption DEF Write
<1>5. CASE written + n # Chunks
  <2>1. (written + n) % Chunks = written + n /\ (written + n) % Chunks \in 0 .. Chunks - 1
    BY <1>2, <1>5, WriteChunks
  <2>2. written' > 0 /\ wire' = wire /\ written' \in 0 .. Chunks - 1
    BY <1>1, <1>3, <1>5, <2>1
  <2> QED BY <2>2 DEF Write
<1> QED BY <1>4, <1>5

LEMMA TypeNext == IInv /\ [Next]_vars => TypeOK'
<1> SUFFICES ASSUME IInv, [Next]_vars PROVE TypeOK'
  OBVIOUS
<1> USE WrkAssumption DEF TypeOK, Proc, pace, conn
<1>1. CASE Tick BY <1>1 DEF IInv, Tick
<1>2. CASE delayed_initial_connect BY <1>2 DEF IInv, delayed_initial_connect, connect_socket
<1>3. CASE Established BY <1>3 DEF IInv, Established
<1>4. CASE socket_connected BY <1>4 DEF IInv, socket_connected
<1>5. CASE delay_request BY <1>5 DEF IInv, delay_request, usec_to_next_send, Schedule
<1>6. CASE Delay BY <1>6 DEF IInv, Delay, usec_to_next_send, Schedule
<1>7. CASE Write
  <2>0. sent \in Nat /\ sent % Ring \in 0 .. Ring - 1
    BY ModRange DEF IInv
  <2>1. /\ estimate' \in Nat /\ thread_next' \in Nat /\ sent' \in Nat /\ sent' > 0
        /\ actual_latency_start' \in [0 .. Ring - 1 -> Nat \cup {-1}]
    <3>1. CASE written = 0
      <4>1. usec_to_next_send(TRUE) /\ sent' = sent + 1
        BY <1>7, <3>1, WriteFirst
      <4>2. actual_latency_start' = [actual_latency_start EXCEPT ![sent % Ring] = sent]
        BY <1>7, <3>1, WriteFirst
      <4> QED BY <2>0, <4>1, <4>2 DEF IInv, usec_to_next_send, Schedule
    <3>2. CASE written # 0
      BY <1>7, <3>2, WriteFurther DEF IInv
    <3> QED BY <3>1, <3>2
  <2>2. sent' - 1 \in Nat
    <3>1. sent' \in Nat /\ sent' > 0
      BY <2>1
    <3>2. \A k \in Nat : k > 0 => k - 1 \in Nat
      OBVIOUS
    <3> HIDE WrkAssumption DEF TypeOK
    <3> QED BY <3>1, <3>2, Zenon
  <2>3. wire \in Seq(Nat)
    BY DEF IInv
  <2>4. wire' = wire \/ wire' = Append(wire, sent' - 1)
    BY <1>7, WriteEffect
  <2>5. wire' \in Seq(Nat)
    BY <2>2, <2>3, <2>4
  <2>6. /\ UNCHANGED <<now, thread_start, complete, fd, rproc, wproc, resets, timers>>
        /\ written' \in 0 .. Chunks - 1 /\ full' \in BOOLEAN
    BY <1>7, WriteEffect
  <2> QED BY <2>1, <2>5, <2>6 DEF IInv
<1>8. CASE reconnect_socket BY <1>8 DEF IInv, reconnect_socket, connect_socket
<1>9. CASE response_complete
  <2>1. Tail(wire) \in Seq(Nat)
    BY <1>9 DEF IInv, response_complete
  <2>2. CASE connect_socket /\ resets < MaxResets /\ resets' = resets + 1
    BY <1>9, <2>2 DEF IInv, response_complete, connect_socket
  <2>3. CASE wire' = Tail(wire) /\ UNCHANGED <<fd, rproc, wproc, full, resets>>
    BY <1>9, <2>1, <2>3 DEF IInv, response_complete
  <2> QED BY <1>9, <2>2, <2>3 DEF response_complete
<1>10. CASE Retry BY <1>10 DEF IInv, Retry, usec_to_next_send, Schedule
<1>11. CASE Drain BY <1>11 DEF IInv, Drain
<1>12. CASE UNCHANGED vars BY <1>12 DEF IInv, vars
<1> QED BY <1>1, <1>2, <1>3, <1>4, <1>5, <1>6, <1>7, <1>8, <1>9, <1>10, <1>11, <1>12 DEF Next, Handler

(* A due time is an interval after the one before it.                      *)
LEMMA Scheduled ==
  ASSUME IInv, fd # "new", NEW due \in BOOLEAN, usec_to_next_send(due)
  PROVE  /\ estimate' = sent + 1
         /\ thread_next' = thread_start + (sent + 1) * Interval
         /\ due => (sent + 1) * Interval <= now - thread_start
<1>1. /\ estimate \in {sent, sent + 1} /\ thread_next = thread_start + estimate * Interval
      /\ sent \in Nat /\ now \in Nat /\ thread_start \in Nat
  BY WrkAssumption DEF IInv, TypeOK, PaceInv
<1>2. (sent + 1) * Interval = sent * Interval + Interval /\ sent * Interval \in Nat
  BY <1>1, NextMultiple, WrkAssumption
<1>3. estimate' = sent + 1 /\ Schedule.next = thread_start + (sent + 1) * Interval
  BY <1>1, <1>2, WrkAssumption DEF usec_to_next_send, Schedule
<1> QED BY <1>1, <1>2, <1>3, WrkAssumption DEF usec_to_next_send

LEMMA PaceNext == IInv /\ [Next]_vars => PaceInv' /\ NeverAhead'
<1> SUFFICES ASSUME IInv, [Next]_vars PROVE PaceInv' /\ NeverAhead'
  OBVIOUS
<1>0. sent * Interval \in Nat
  BY NextMultiple, WrkAssumption DEF IInv, TypeOK
<1> USE WrkAssumption DEF pace, conn
<1>1. CASE Tick BY <1>0, <1>1 DEF IInv, TypeOK, PaceInv, NeverAhead, Tick
<1>2. CASE delayed_initial_connect
  BY <1>0, <1>2 DEF IInv, TypeOK, PaceInv, NeverAhead, delayed_initial_connect, connect_socket
<1>3. CASE Established BY <1>3 DEF IInv, PaceInv, NeverAhead, Established
<1>4. CASE socket_connected BY <1>4 DEF IInv, PaceInv, NeverAhead, socket_connected
<1>5. CASE delay_request
  <2>1. fd # "new" /\ UNCHANGED <<now, thread_start, sent, fd>>
    BY <1>5 DEF IInv, TypeOK, PaceInv, delay_request
  <2>2. estimate' = sent + 1 /\ thread_next' = thread_start + (sent + 1) * Interval
    BY <1>5, <2>1, Scheduled DEF delay_request
  <2> QED BY <2>1, <2>2 DEF IInv, PaceInv, NeverAhead
<1>6. CASE Delay
  <2>1. fd # "new" /\ UNCHANGED <<now, thread_start, sent, fd>>
    BY <1>6 DEF Delay
  <2>2. estimate' = sent + 1 /\ thread_next' = thread_start + (sent + 1) * Interval
    BY <1>6, <2>1, Scheduled DEF Delay
  <2> QED BY <2>1, <2>2 DEF IInv, PaceInv, NeverAhead
<1>7. CASE Write
  <2>1. fd # "new" /\ UNCHANGED <<now, thread_start, fd>>
    BY <1>7, WriteEffect
  <2>2. CASE written = 0
    <3>1. usec_to_next_send(TRUE) /\ sent' = sent + 1
      BY <1>7, <2>2, WriteFirst
    <3>2. /\ estimate' = sent + 1 /\ thread_next' = thread_start + (sent + 1) * Interval
          /\ (sent + 1) * Interval <= now - thread_start
      BY <2>1, <3>1, Scheduled
    <3> QED BY <2>1, <3>1, <3>2 DEF IInv, PaceInv, NeverAhead
  <2>3. CASE written # 0
    <3>1. UNCHANGED <<thread_next, estimate, sent>>
      BY <1>7, <2>3, WriteFurther
    <3> QED BY <2>1, <3>1 DEF IInv, PaceInv, NeverAhead
  <2> QED BY <2>2, <2>3
<1>8. CASE reconnect_socket
  BY <1>8 DEF IInv, PaceInv, NeverAhead, reconnect_socket, connect_socket
<1>9. CASE response_complete
  BY <1>9 DEF IInv, PaceInv, NeverAhead, response_complete, connect_socket
<1>10. CASE Retry
  <2>1. fd # "new" /\ UNCHANGED <<now, thread_start, sent, fd, written, timers>>
    BY <1>10 DEF Retry
  <2>2. estimate' = sent + 1 /\ thread_next' = thread_start + (sent + 1) * Interval
    BY <1>10, <2>1, Scheduled DEF Retry
  <2> QED BY <2>1, <2>2 DEF IInv, PaceInv, NeverAhead
<1>11. CASE Drain BY <1>11 DEF IInv, PaceInv, NeverAhead, Drain
<1>12. CASE UNCHANGED vars BY <1>12 DEF IInv, PaceInv, NeverAhead, vars
<1> QED BY <1>1, <1>2, <1>3, <1>4, <1>5, <1>6, <1>7, <1>8, <1>9, <1>10, <1>11, <1>12 DEF Next, Handler

(* A request's slot is overwritten by the Ring-th request after it only.   *)
LEMMA RingNext == IInv /\ [Next]_vars => RingInv'
<1> SUFFICES ASSUME IInv, [Next]_vars PROVE RingInv'
  OBVIOUS
<1>1. CASE UNCHANGED <<sent, actual_latency_start>>
  BY <1>1 DEF IInv, RingInv
<1>2. CASE Write /\ written = 0
  <2>1. sent' = sent + 1 /\ actual_latency_start' = [actual_latency_start EXCEPT ![sent % Ring] = sent]
    BY <1>2, WriteFirst
  <2>2. sent \in Nat /\ Ring \in Nat \ {0} /\ sent % Ring \in 0 .. Ring - 1
    BY WrkAssumption, ModRange DEF IInv, TypeOK
  <2>3. ASSUME NEW n \in Nat, sent' - Ring <= n, n < sent' PROVE actual_latency_start'[n % Ring] = n
    <3>1. n % Ring \in 0 .. Ring - 1
      BY <2>2, ModRange
    <3>2. CASE n = sent
      BY <2>1, <2>2, <3>2 DEF IInv, TypeOK
    <3>3. CASE n < sent
      <4>0. 0 < sent - n /\ sent - n < Ring
        BY <2>1, <2>2, <2>3, <3>3
      <4>1. n % Ring # sent % Ring
        BY <2>2, <4>0, Apart
      <4>2. actual_latency_start[n % Ring] = n
        BY <2>1, <2>2, <2>3, <3>3 DEF IInv, RingInv
      <4> QED BY <2>1, <2>2, <3>1, <4>1, <4>2 DEF IInv, TypeOK
    <3> QED BY <2>1, <2>2, <2>3, <3>2, <3>3
  <2> QED BY <2>3 DEF RingInv
<1>3. CASE ~(Write /\ written = 0)
  <2>1. Write => UNCHANGED <<sent, actual_latency_start>>
    BY <1>3, WriteFurther
  <2> QED BY <1>1, <2>1 DEF Next, Handler, Tick, delayed_initial_connect, Established, socket_connected,
                            delay_request, Delay, Retry, Drain, conn, reconnect_socket, response_complete, vars
<1> QED BY <1>2, <1>3

(* The wire holds the requests that are not answered, in their order.      *)
LEMMA WireNext == IInv /\ [Next]_vars => WireInv'
<1> SUFFICES ASSUME IInv, [Next]_vars PROVE WireInv'
  OBVIOUS
<1>0. /\ sent \in Nat /\ complete \in Nat /\ written \in Nat /\ wire \in Seq(Nat)
      /\ Len(wire) \in Nat
  BY WrkAssumption DEF IInv, TypeOK
<1>1. CASE UNCHANGED <<sent, complete, written, wire>>
  BY <1>1 DEF IInv, WireInv, NothingLost
<1>2. CASE wire' = <<>> /\ UNCHANGED <<sent, complete, written>>
  BY <1>0, <1>2 DEF IInv, WireInv, NothingLost
<1>3. CASE socket_connected
  BY <1>0, <1>3 DEF IInv, WireInv, NothingLost, socket_connected
<1>4. CASE Write
  <2>1. /\ complete' = complete
        /\ \/ written = 0 /\ sent' = sent + 1
           \/ written > 0 /\ sent > 0 /\ sent' = sent
        /\ \/ written' = 0 /\ wire' = Append(wire, sent' - 1)
           \/ written' > 0 /\ wire' = wire
    BY <1>4, WriteFirst, WriteFurther, WriteEffect
  <2>2. CASE wire' = wire /\ written' > 0
    BY <1>0, <2>1, <2>2 DEF IInv, WireInv, NothingLost
  <2>3. CASE wire' = Append(wire, sent' - 1) /\ written' = 0
    <3>1. /\ Len(wire') = Len(wire) + 1 /\ wire'[Len(wire) + 1] = sent' - 1
          /\ \A i \in 1 .. Len(wire) : wire'[i] = wire[i]
      BY <1>0, <2>1, <2>3
    <3>2. complete' + Len(wire') + 0 <= sent'
      BY <1>0, <2>1, <3>1 DEF IInv, WireInv
    <3>3. NothingLost' => NothingLost /\ sent' - 1 = complete + Len(wire)
      <4>1. CASE written = 0 /\ sent' = sent + 1
        BY <1>0, <2>1, <2>3, <3>1, <4>1 DEF NothingLost
      <4>2. CASE written > 0 /\ sent' = sent
        BY <1>0, <2>1, <2>3, <3>1, <4>2 DEF NothingLost
      <4> QED BY <2>1, <4>1, <4>2
    <3> QED BY <1>0, <2>1, <2>3, <3>1, <3>2, <3>3 DEF IInv, WireInv
  <2> QED BY <2>1, <2>2, <2>3
<1>5. CASE response_complete
  <2>1. complete' = complete + 1 /\ UNCHANGED <<sent, written>> /\ wire # <<>> /\ Len(wire) > 0
    BY <1>0, <1>5 DEF response_complete
  <2>2. CASE wire' = <<>>
    BY <1>0, <2>1, <2>2 DEF IInv, WireInv
  <2>3. CASE wire' = Tail(wire)
    <3>1. Len(wire') = Len(wire) - 1 /\ \A i \in 1 .. Len(wire') : wire'[i] = wire[i + 1]
      BY <1>0, <2>1, <2>3
    <3>2. complete' + Len(wire') = complete + Len(wire)
      BY <1>0, <2>1, <3>1
    <3>3. NothingLost' => NothingLost
      BY <2>1, <3>2 DEF NothingLost
    <3> QED BY <1>0, <2>1, <3>1, <3>2, <3>3 DEF IInv, WireInv
  <2> QED BY <1>5, <2>2, <2>3 DEF response_complete, connect_socket
<1> QED BY <1>1, <1>2, <1>3, <1>4, <1>5
        DEF Next, Handler, Tick, delayed_initial_connect, Established, delay_request, Delay, Retry, Drain,
            reconnect_socket, connect_socket, conn, vars

(* The schedule, the ring and the wire agree on which request is which.    *)
THEOREM Invariance == Spec => []IInv
<1>1. IInv /\ [Next]_vars => IInv'
  BY TypeNext, PaceNext, RingNext, WireNext DEF IInv
<1> QED BY <1>1, IInvInit, PTL DEF Spec

-----------------------------------------------------------------------------
(* The clock, the counters, the ring and the handlers keep their types.    *)
THEOREM TypeCorrect == Spec => []TypeOK
<1>1. IInv => TypeOK
  BY DEF IInv
<1> QED BY <1>1, Invariance, PTL

(* No request goes out before it is due, over any number of failed         *)
(* connections and partial writes.                                         *)
THEOREM Paced == Spec => []NeverAhead
<1>1. IInv => NeverAhead
  BY DEF IInv
<1> QED BY <1>1, Invariance, PTL

(* A response's latency is that of its own request, until a request is     *)
(* lost with its connection or more are outstanding than the ring holds.   *)
THEOREM OwnLatency == Spec => LatencyIsOwnUntilLoss
<1>1. ASSUME IInv, [Next]_vars, complete' > complete, sent - complete <= Ring, NothingLost
      PROVE  actual_latency_start[complete % Ring] = Head(wire)
  <2>1. /\ sent \in Nat /\ complete \in Nat /\ written \in Nat /\ wire \in Seq(Nat)
    BY <1>1, WrkAssumption DEF IInv, TypeOK
  <2>2. ~(complete' = complete)
    BY <1>1, <2>1
  <2>3. response_complete
    BY <1>1, <2>2, WriteEffect
       DEF Next, Handler, Tick, delayed_initial_connect, Established, socket_connected,
           delay_request, Delay, Retry, Drain, reconnect_socket, vars
  <2>4. wire # <<>> /\ Len(wire) >= 1
    BY <2>1, <2>3 DEF response_complete
  <2>5. Head(wire) = complete /\ complete < sent
    BY <1>1, <2>1, <2>4 DEF IInv, WireInv, NothingLost
  <2> QED BY <1>1, <2>1, <2>5, WrkAssumption DEF IInv, RingInv
<1>2. IInv /\ [Next]_vars => [complete' > complete /\ sent - complete <= Ring /\ NothingLost =>
                                actual_latency_start[complete % Ring] = Head(wire)]_vars
  BY <1>1
<1> QED BY <1>2, Invariance, PTL DEF Spec, LatencyIsOwnUntilLoss
=============================================================================
