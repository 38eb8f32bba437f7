----------------------------- MODULE AeFilesProofs -----------------------------
(***************************************************************************)
(* Proofs about AeFiles, for any number of connections, descriptors and    *)
(* failed connects, for each poller, and whatever the other threads open   *)
(* and close: the records of the loop and of the poller agree, connections *)
(* act on their own sockets, and events that are stale when their turn     *)
(* comes are skipped, each up to what goes wrong when a connect fails at   *)
(* once.  The invariant is taken through the operators on a loop's records *)
(* first (aeCreateFileEvent, aeDeleteFileEvent, close, connect_socket,     *)
(* reconnect_socket), then through the handlers, then through the steps.   *)
(***************************************************************************)
EXTENDS AeFiles, NumberLemmas, FiniteSetTheorems, TLAPS

LEMMA FdIsInt == \A f \in Fd \cup {NoFd} : f \in Int
BY FilesAssumption DEF NoFd

(* The lowest of some numbers.                                             *)
LEMMA LowestIs ==
  ASSUME NEW S, S \subseteq Fd, S # {}
  PROVE  Lowest(S) \in S
<1>1. \E m \in S : \A k \in S : m <= k
  BY LeastNumber, FilesAssumption
<1> QED BY <1>1 DEF Lowest

(* Highest is what its definition says, and only that.                     *)
LEMMA HighestIs ==
  ASSUME NEW S, S \subseteq Fd, NEW m \in S \cup {NoFd}, \A g \in S : g <= m
  PROVE  Highest(S) = m
<1> DEFINE h == Highest(S)
<1>1. h \in S \cup {NoFd} /\ \A g \in S : g <= h
  BY DEF Highest
<1> HIDE DEF h
<1>2. S \subseteq Nat
  BY FilesAssumption
<1>3. h \in Int /\ m \in Int
  BY <1>1, <1>2 DEF NoFd
<1>4. h <= m
  <2>1. CASE h \in S
    BY <2>1
  <2>2. CASE h = -1
    BY <1>2, <2>2 DEF NoFd
  <2> QED BY <1>1, <2>1, <2>2 DEF NoFd
<1>5. m <= h
  <2>1. CASE m \in S
    BY <1>1, <2>1
  <2>2. CASE m = -1
    BY <1>1, <1>2, <2>2 DEF NoFd
  <2> QED BY <2>1, <2>2 DEF NoFd
<1>6. h = m
  BY <1>3, <1>4, <1>5
<1> QED BY <1>6 DEF h

LEMMA HighestBelow ==
  ASSUME NEW S, S \subseteq Fd, NEW b \in Nat, \A k \in S : k <= b
  PROVE  Highest(S) \in S \cup {NoFd} /\ \A g \in S : g <= Highest(S)
<1>1. S \subseteq Nat
  BY FilesAssumption
<1>2. \E m \in S \cup {NoFd} : \A g \in S : g <= m
  <2>1. CASE S = {}
    BY <2>1
  <2>2. CASE S # {}
    BY <1>1, <2>2, GreatestNumber
  <2> QED BY <2>1, <2>2
<1> QED BY <1>2 DEF Highest

LEMMA SeqsOf ==
  ASSUME NEW S, IsFiniteSet(S), NEW q \in SetToSeqs(S)
  PROVE  /\ q \in Seq(S) /\ Len(q) = Cardinality(S) /\ DOMAIN q = 1 .. Len(q)
         /\ \A i, j \in 1 .. Len(q) : i # j => q[i] # q[j]
<1>1. Cardinality(S) \in Nat
  BY FS_CardinalityType
<1>2. q \in [1 .. Cardinality(S) -> S] /\ \A i, j \in 1 .. Cardinality(S) : i # j => q[i] # q[j]
  BY DEF SetToSeqs
<1> QED BY <1>1, <1>2

-----------------------------------------------------------------------------
(* The poller takes the new events beside those of the mask.               *)
LEMMA ApiAdded ==
  ASSUME NEW l \in Loops, Agree(l), NEW f \in Fd, ApiAccepts(l, f), NEW events \in SUBSET Event,
         NEW r, r = ApiAdd(l, f, events), api \in Apis
  PROVE  /\ r \in Loops
         /\ ~l.crossed => /\ r.interest[f] \cup r.pending[f] = l.mask[f] \cup events
                          /\ r.interest[f] = {} \/ r.pending[f] = {}
                          /\ api # "evport" => r.pending[f] = {}
         /\ \A g \in Fd \ {f} : r.interest[g] = l.interest[g] /\ r.pending[g] = l.pending[g]
         /\ r.aborted = l.aborted /\ r.open = l.open /\ r.mask = l.mask /\ r.rproc = l.rproc
         /\ r.wproc = l.wproc /\ r.data = l.data /\ r.maxfd = l.maxfd /\ r.fd = l.fd
         /\ r.fresh = l.fresh /\ r.failed = l.failed
         /\ r.crossed = l.crossed /\ r.strays = l.strays
<1> USE DEF Agree, Loops
<1>1. CASE api = "evport"
  <2>1. r = evport_add(l, f, events)
    BY <1>1 DEF ApiAdd
  <2>2. CASE l.pending[f] # {}
    <3>1. r = [l EXCEPT !.pending[f] = @ \cup events \cup l.mask[f]]
      BY <2>1, <2>2 DEF evport_add
    <3>2. r \in Loops
      <4>1. [l.pending EXCEPT ![f] = l.pending[f] \cup events \cup l.mask[f]] \in [Fd -> SUBSET Event]
        OBVIOUS
      <4>2. r = [l EXCEPT !.pending = [l.pending EXCEPT ![f] = l.pending[f] \cup events \cup l.mask[f]]]
        BY <3>1
      <4> QED BY <4>1, <4>2
    <3>3. /\ r.pending = [l.pending EXCEPT ![f] = l.pending[f] \cup events \cup l.mask[f]]
          /\ r.interest = l.interest
          /\ r.aborted = l.aborted /\ r.open = l.open /\ r.mask = l.mask /\ r.rproc = l.rproc
          /\ r.wproc = l.wproc /\ r.data = l.data /\ r.maxfd = l.maxfd /\ r.fd = l.fd
          /\ r.fresh = l.fresh /\ r.failed = l.failed
          /\ r.crossed = l.crossed /\ r.strays = l.strays
      BY <3>1
    <3> QED BY <1>1, <2>2, <3>2, <3>3
  <2>3. CASE l.pending[f] = {}
    <3>1. r = [l EXCEPT !.interest[f] = events \cup l.mask[f]]
      BY <2>1, <2>3 DEF evport_add
    <3>2. r \in Loops
      <4>1. [l.interest EXCEPT ![f] = events \cup l.mask[f]] \in [Fd -> SUBSET Event]
        OBVIOUS
      <4>2. r = [l EXCEPT !.interest = [l.interest EXCEPT ![f] = events \cup l.mask[f]]]
        BY <3>1
      <4> QED BY <4>1, <4>2
    <3>3. /\ r.interest = [l.interest EXCEPT ![f] = events \cup l.mask[f]]
          /\ r.pending = l.pending
          /\ r.aborted = l.aborted /\ r.open = l.open /\ r.mask = l.mask /\ r.rproc = l.rproc
          /\ r.wproc = l.wproc /\ r.data = l.data /\ r.maxfd = l.maxfd /\ r.fd = l.fd
          /\ r.fresh = l.fresh /\ r.failed = l.failed
          /\ r.crossed = l.crossed /\ r.strays = l.strays
      BY <3>1
    <3> QED BY <1>1, <2>3, <3>2, <3>3
  <2> QED BY <2>2, <2>3
<1>2. CASE api = "epoll"
  BY <1>2 DEF ApiAdd
<1>3. CASE api \in {"select", "kqueue"}
  BY <1>3 DEF ApiAdd
<1> QED BY <1>1, <1>2, <1>3, FilesAssumption

(* aeCreateFileEvent: what it changes of the records.                      *)
CreatedAs(l, f, events, proc, c, r) ==
  /\ r \in Loops /\ Agree(r) /\ HighestIsKnown(r)
  /\ r.mask = [l.mask EXCEPT ![f] = @ \cup events]
  /\ r.data = [l.data EXCEPT ![f] = c]
  /\ r.rproc = [l.rproc EXCEPT ![f] = IF Read \in events THEN proc ELSE @]
  /\ r.wproc = [l.wproc EXCEPT ![f] = IF Write \in events THEN proc ELSE @]
  /\ r.open = l.open /\ r.fd = l.fd /\ r.fresh = l.fresh
  /\ r.failed = l.failed /\ r.strays = l.strays
  /\ r.crossed = (l.crossed \/ l.open[f] = Other)

LEMMA Created ==
  ASSUME NEW l \in Loops, Agree(l), HighestIsKnown(l), api \in Apis,
         NEW f \in Fd, ApiAccepts(l, f), l.failed = {} => l.open[f] # None,
         NEW events \in SUBSET Event, events # {},
         NEW proc \in Handler, NEW c \in Conn, NEW r, r = CreateFileEvent(l, f, events, proc, c)
  PROVE  CreatedAs(l, f, events, proc, c, r)
<1> DEFINE a == ApiAdd(l, f, events)
           m == IF f > l.maxfd THEN f ELSE l.maxfd
<1>1. /\ a \in Loops
      /\ ~l.crossed => /\ a.interest[f] \cup a.pending[f] = l.mask[f] \cup events
                       /\ a.interest[f] = {} \/ a.pending[f] = {}
                       /\ api # "evport" => a.pending[f] = {}
      /\ \A g \in Fd \ {f} : a.interest[g] = l.interest[g] /\ a.pending[g] = l.pending[g]
      /\ a.aborted = l.aborted /\ a.open = l.open /\ a.mask = l.mask /\ a.rproc = l.rproc
      /\ a.wproc = l.wproc /\ a.data = l.data /\ a.maxfd = l.maxfd /\ a.fd = l.fd
      /\ a.fresh = l.fresh /\ a.failed = l.failed
      /\ a.crossed = l.crossed /\ a.strays = l.strays
  BY ApiAdded
<1> HIDE DEF a
<1>2. r = [a EXCEPT !.mask[f] = @ \cup events,
                    !.rproc[f] = IF Read \in events THEN proc ELSE @,
                    !.wproc[f] = IF Write \in events THEN proc ELSE @,
                    !.data[f]  = c,
                    !.maxfd    = IF f > @ THEN f ELSE @,
                    !.crossed  = @ \/ l.open[f] = Other]
  BY DEF CreateFileEvent, a
<1>3. /\ r.mask = [l.mask EXCEPT ![f] = @ \cup events]
      /\ r.data = [l.data EXCEPT ![f] = c]
      /\ r.rproc = [l.rproc EXCEPT ![f] = IF Read \in events THEN proc ELSE @]
      /\ r.wproc = [l.wproc EXCEPT ![f] = IF Write \in events THEN proc ELSE @]
      /\ r.maxfd = m
      /\ r.interest = a.interest /\ r.pending = a.pending /\ r.aborted = l.aborted
      /\ r.open = l.open /\ r.fd = l.fd /\ r.fresh = l.fresh
      /\ r.failed = l.failed /\ r.strays = l.strays
      /\ r.crossed = (l.crossed \/ l.open[f] = Other)
  BY <1>1, <1>2 DEF Loops
<1>4. r \in Loops
  <2>1. /\ a.mask[f] \cup events \in SUBSET Event
        /\ (IF f > a.maxfd THEN f ELSE a.maxfd) \in Fd \cup {NoFd}
    BY <1>1 DEF Loops
  <2> DEFINE a1 == [a EXCEPT !.mask[f] = @ \cup events]
             a2 == [a1 EXCEPT !.rproc[f] = IF Read \in events THEN proc ELSE @]
             a3 == [a2 EXCEPT !.wproc[f] = IF Write \in events THEN proc ELSE @]
             a4 == [a3 EXCEPT !.data[f] = c]
  <2>2. a1 \in Loops /\ a1.maxfd = a.maxfd
    BY <1>1, <2>1 DEF Loops
  <2> HIDE DEF a1
  <2>3. a2 \in Loops /\ a2.maxfd = a.maxfd
    BY <2>2 DEF Loops
  <2> HIDE DEF a2
  <2>4. a3 \in Loops /\ a3.maxfd = a.maxfd
    BY <2>3 DEF Loops
  <2> HIDE DEF a3
  <2>5. a4 \in Loops /\ a4.maxfd = a.maxfd
    BY <2>4 DEF Loops
  <2> HIDE DEF a4
  <2>6. r = [a4 EXCEPT !.maxfd = IF f > @ THEN f ELSE @, !.crossed = @ \/ l.open[f] = Other]
    BY <1>2 DEF a1, a2, a3, a4
  <2>7. (a4.crossed \/ l.open[f] = Other) \in BOOLEAN
    OBVIOUS
  <2>8. r = [a4 EXCEPT !.maxfd = IF f > a4.maxfd THEN f ELSE a4.maxfd,
                       !.crossed = (a4.crossed \/ l.open[f] = Other)]
    BY <2>6
  <2> QED BY <2>1, <2>5, <2>7, <2>8 DEF Loops
<1>5. Agree(r)
  <2>1. \A g \in Fd \ {f} : r.mask[g] = l.mask[g]
    BY <1>3 DEF Loops
  <2>2. r.mask[f] = l.mask[f] \cup events
    BY <1>3 DEF Loops
  <2> SUFFICES ASSUME ~r.crossed PROVE Agree(r)
    BY DEF Agree
  <2>3. ~l.crossed /\ r.open[f] # Other
    BY <1>3
  <2>4. api # "select" \/ r.failed = {} => r.open[f] # None
    BY <1>3, <2>3, FilesAssumption DEF ApiAccepts, Agree
  <2> QED BY <1>1, <1>3, <2>1, <2>2, <2>3, <2>4 DEF Agree
<1>6. HighestIsKnown(r)
  <2>1. \A g \in Fd : r.mask[g] # {} <=> l.mask[g] # {} \/ g = f
    BY <1>3 DEF Loops
  <2>2. l.maxfd \in Fd \cup {NoFd} /\ Fd \subseteq Nat
    BY FilesAssumption DEF Loops
  <2>3. f \in Nat /\ l.maxfd \in Int /\ (l.maxfd = NoFd \/ l.mask[l.maxfd] # {})
    <3>1. l.maxfd = NoFd \/ l.mask[l.maxfd] # {}
      BY DEF HighestIsKnown
    <3>2. f \in Nat
      BY <2>2
    <3>3. l.maxfd \in Int
      BY <2>2, FdIsInt
    <3> QED BY <3>1, <3>2, <3>3
  <2>4. /\ f <= m /\ l.maxfd <= m
        /\ m = f \/ m = l.maxfd
    BY <2>3
  <2> HIDE DEF m
  <2>5. m \in Int /\ \A g \in Fd : l.mask[g] # {} => g <= l.maxfd
    BY <2>3, <2>4 DEF HighestIsKnown
  <2>6. ASSUME NEW g \in Fd, r.mask[g] # {} PROVE g <= m
    <3>1. CASE g = f
      BY <2>4, <3>1
    <3>2. CASE g # f
      <4>1. g <= l.maxfd /\ g \in Int
        BY <2>1, <2>2, <2>5, <2>6, <3>2
      <4> QED BY <2>3, <2>4, <2>5, <4>1
    <3> QED BY <3>1, <3>2
  <2>7. m = NoFd \/ r.mask[m] # {}
    BY <2>1, <2>2, <2>3, <2>4
  <2> QED BY <1>3, <2>6, <2>7 DEF HighestIsKnown
<1> QED BY <1>3, <1>4, <1>5, <1>6 DEF CreatedAs

(* The poller's part of a record.                                          *)
LEMMA PollerPart ==
  ASSUME NEW l \in Loops, NEW f \in Fd, NEW v \in SUBSET Event
  PROVE  /\ [l EXCEPT !.interest[f] = v] \in Loops
         /\ [l EXCEPT !.pending[f] = v] \in Loops
         /\ \A b \in BOOLEAN : [l EXCEPT !.interest[f] = v, !.aborted = b] \in Loops
BY DEF Loops

(* aeDeleteFileEvent: the mask is lowered, and both records with it.       *)
Lowered(l, r, f, events) ==
  /\ LoopInv(r)
  /\ \A g \in Fd : r.mask[g] = IF g = f THEN l.mask[g] \ events ELSE l.mask[g]
  /\ r.open = l.open /\ r.fd = l.fd /\ r.fresh = l.fresh
  /\ r.failed = l.failed /\ r.strays = l.strays /\ r.crossed = l.crossed
  /\ r.rproc = l.rproc /\ r.wproc = l.wproc /\ r.data = l.data

LEMMA Deleted ==
  ASSUME NEW l, LoopInv(l), api \in Apis,
         NEW f \in Fd \cup {NoFd}, NEW events \in SUBSET Event,
         NEW r, r = DeleteFileEvent(l, f, events)
  PROVE  Lowered(l, r, f, events)
<1>1. l \in Loops /\ Agree(l) /\ HighestIsKnown(l) /\ Registered(l)
  BY DEF LoopInv
<1>2. CASE f = NoFd \/ l.mask[f] = {}
  <2>1. r = l
    BY <1>2 DEF DeleteFileEvent
  <2>2. NoFd \notin Fd
    BY FilesAssumption DEF NoFd
  <2> QED BY <1>2, <2>1, <2>2 DEF Lowered
<1>3. CASE ~(f = NoFd \/ l.mask[f] = {})
  <2> DEFINE rest == l.mask[f] \ events
             top  == IF f = l.maxfd /\ rest = {} THEN Highest({g \in Fd : g < f /\ l.mask[g] # {}}) ELSE l.maxfd
             low  == [l EXCEPT !.mask[f] = rest, !.maxfd = top]
  <2>1. f \in Fd /\ l.mask[f] # {} /\ rest \in SUBSET Event /\ Fd \subseteq Nat
    BY <1>1, <1>3, FilesAssumption DEF Loops
  <2>2. r = ApiDel(low, f, events)
    BY <1>3 DEF DeleteFileEvent
  <2>3. /\ top \in Fd \cup {NoFd}
        /\ top = NoFd \/ (l.mask[top] # {} /\ (top = f => rest # {}))
        /\ \A g \in Fd : l.mask[g] # {} /\ (g = f => rest # {}) => g <= top
    <3> DEFINE S == {g \in Fd : g < f /\ l.mask[g] # {}}
    <3>1. CASE f = l.maxfd /\ rest = {}
      <4>1. Highest(S) \in S \cup {NoFd} /\ \A g \in S : g <= Highest(S)
        <5>1. \A g \in S : g <= f
          BY <2>1
        <5> QED BY <2>1, <5>1, HighestBelow
      <4>2. \A g \in Fd : l.mask[g] # {} /\ g # f => g \in S
        BY <1>1, <2>1, <3>1 DEF HighestIsKnown
      <4>3. f \notin S
        BY <2>1
      <4> HIDE DEF S
      <4>4. top = Highest(S)
        BY <3>1 DEF S
      <4>5. S \subseteq Fd /\ \A g \in S : l.mask[g] # {}
        BY DEF S
      <4> HIDE DEF top
      <4> QED BY <3>1, <4>1, <4>2, <4>3, <4>4, <4>5
    <3>2. CASE ~(f = l.maxfd /\ rest = {})
      BY <1>1, <3>2 DEF HighestIsKnown, Loops
    <3> QED BY <3>1, <3>2
  <2> HIDE DEF rest, top
  <2>4. /\ low \in Loops /\ low.maxfd = top /\ low.mask = [l.mask EXCEPT ![f] = rest]
        /\ low.interest = l.interest /\ low.pending = l.pending /\ low.aborted = l.aborted
        /\ low.open = l.open /\ low.fd = l.fd /\ low.fresh = l.fresh
        /\ low.failed = l.failed /\ low.strays = l.strays /\ low.crossed = l.crossed
        /\ low.rproc = l.rproc /\ low.wproc = l.wproc /\ low.data = l.data
    BY <1>1, <2>1, <2>3 DEF Loops
  <2>5. rest = l.mask[f] \ events
    BY DEF rest
  <2> HIDE DEF low
  <2>6. /\ r \in Loops /\ r.maxfd = top /\ r.mask = [l.mask EXCEPT ![f] = rest]
        /\ ~l.crossed => /\ r.interest[f] \cup r.pending[f] = rest
                         /\ r.interest[f] = {} \/ r.pending[f] = {}
                         /\ api # "evport" => r.pending[f] = {}
                         /\ ~r.aborted
        /\ \A g \in Fd \ {f} : r.interest[g] = l.interest[g] /\ r.pending[g] = l.pending[g]
        /\ r.open = l.open /\ r.fd = l.fd /\ r.fresh = l.fresh
        /\ r.failed = l.failed /\ r.strays = l.strays /\ r.crossed = l.crossed
        /\ r.rproc = l.rproc /\ r.wproc = l.wproc /\ r.data = l.data
    <3>0. /\ low.mask[f] = rest /\ l.mask[f] \in SUBSET Event
          /\ l.interest \in [Fd -> SUBSET Event] /\ l.pending \in [Fd -> SUBSET Event]
          /\ l.aborted \in BOOLEAN
          /\ ~l.crossed => /\ l.mask[f] = l.interest[f] \cup l.pending[f]
                           /\ l.interest[f] = {} \/ l.pending[f] = {}
                           /\ api # "evport" => l.pending[f] = {}
      BY <1>1, <2>1, <2>4 DEF Loops, Agree
    <3>1. CASE api = "evport" /\ l.pending[f] # {}
      <4>1. r = [low EXCEPT !.pending[f] = @ \ events] /\ (~l.crossed => l.interest[f] = {})
        BY <1>1, <2>1, <2>2, <2>4, <3>0, <3>1 DEF ApiDel, evport_del
      <4>2. /\ r.pending = [l.pending EXCEPT ![f] = l.pending[f] \ events]
            /\ r.interest = l.interest /\ r.aborted = l.aborted
            /\ r.open = low.open /\ r.fd = low.fd /\ r.fresh = low.fresh
            /\ r.failed = low.failed /\ r.strays = low.strays /\ r.crossed = low.crossed
            /\ r.rproc = low.rproc /\ r.wproc = low.wproc /\ r.data = low.data
            /\ r.maxfd = low.maxfd /\ r.mask = low.mask
        BY <1>1, <2>1, <2>4, <4>1 DEF Loops
      <4>3. r \in Loops
        <5>1. low.pending[f] \ events \in SUBSET Event
          BY <2>1, <2>4, <3>0
        <5>2. [low EXCEPT !.pending[f] = low.pending[f] \ events] \in Loops
          BY <2>1, <2>4, <5>1, PollerPart
        <5> QED BY <4>1, <5>2
      <4>4. /\ ~l.crossed => /\ r.interest[f] \cup r.pending[f] = rest
                             /\ r.interest[f] = {} \/ r.pending[f] = {}
                             /\ api # "evport" => r.pending[f] = {}
            /\ \A g \in Fd \ {f} : r.interest[g] = l.interest[g] /\ r.pending[g] = l.pending[g]
        BY <2>1, <2>5, <3>0, <3>1, <4>1, <4>2
      <4>5. ~l.crossed => ~r.aborted
        BY <1>1, <4>2 DEF Agree
      <4> QED BY <2>4, <4>2, <4>3, <4>4, <4>5
    <3>2. CASE api = "evport" /\ l.pending[f] = {}
      <4>1. /\ r = [low EXCEPT !.interest[f] = rest, !.aborted = @ \/ low.interest[f] = {}]
            /\ ~l.crossed => l.interest[f] # {}
        BY <1>1, <2>1, <2>2, <2>4, <3>0, <3>2 DEF ApiDel, evport_del, Agree
      <4>2. /\ r.interest = [l.interest EXCEPT ![f] = rest]
            /\ r.pending = l.pending /\ (~l.crossed => r.aborted = l.aborted)
            /\ r.open = low.open /\ r.fd = low.fd /\ r.fresh = low.fresh
            /\ r.failed = low.failed /\ r.strays = low.strays /\ r.crossed = low.crossed
            /\ r.rproc = low.rproc /\ r.wproc = low.wproc /\ r.data = low.data
            /\ r.maxfd = low.maxfd /\ r.mask = low.mask
        BY <1>1, <2>1, <2>4, <4>1 DEF Loops
      <4>3. r \in Loops
        <5>1. rest \in SUBSET Event
          BY <2>1, <2>4, <3>0
        <5>2. (low.aborted \/ low.interest[f] = {}) \in BOOLEAN
          BY <2>4, <3>0
        <5>3. [low EXCEPT !.interest[f] = rest, !.aborted = (low.aborted \/ low.interest[f] = {})] \in Loops
          BY <2>1, <2>4, <5>1, <5>2, PollerPart
        <5> QED BY <4>1, <5>3
      <4>4. /\ ~l.crossed => /\ r.interest[f] \cup r.pending[f] = rest
                             /\ r.interest[f] = {} \/ r.pending[f] = {}
                             /\ api # "evport" => r.pending[f] = {}
            /\ \A g \in Fd \ {f} : r.interest[g] = l.interest[g] /\ r.pending[g] = l.pending[g]
        BY <2>1, <2>5, <3>0, <3>2, <4>1, <4>2
      <4>5. ~l.crossed => ~r.aborted
        BY <1>1, <4>2 DEF Agree
      <4> QED BY <2>4, <4>2, <4>3, <4>4, <4>5
    <3>3. CASE api = "epoll"
      <4> DEFINE v == IF l.interest[f] = {} THEN {} ELSE rest
      <4>0. v \in SUBSET Event /\ (~l.crossed => v = rest)
        BY <2>1, <3>0, <3>3
      <4>1. r = [low EXCEPT !.interest[f] = v]
        BY <2>1, <2>2, <2>4, <3>0, <3>3 DEF ApiDel
      <4> HIDE DEF v
      <4>2. /\ r.interest = [l.interest EXCEPT ![f] = v]
            /\ r.pending = l.pending /\ r.aborted = l.aborted
            /\ r.open = low.open /\ r.fd = low.fd /\ r.fresh = low.fresh
            /\ r.failed = low.failed /\ r.strays = low.strays /\ r.crossed = low.crossed
            /\ r.rproc = low.rproc /\ r.wproc = low.wproc /\ r.data = low.data
            /\ r.maxfd = low.maxfd /\ r.mask = low.mask
        BY <1>1, <2>1, <2>4, <4>1 DEF Loops
      <4>3. r \in Loops
        <5>1. [low EXCEPT !.interest[f] = v] \in Loops
          BY <2>1, <2>4, <4>0, PollerPart
        <5> QED BY <4>1, <5>1
      <4>4. /\ ~l.crossed => /\ r.interest[f] \cup r.pending[f] = rest
                             /\ r.interest[f] = {} \/ r.pending[f] = {}
                             /\ api # "evport" => r.pending[f] = {}
            /\ \A g \in Fd \ {f} : r.interest[g] = l.interest[g] /\ r.pending[g] = l.pending[g]
        BY <2>1, <2>5, <3>0, <3>3, <4>0, <4>2
      <4>5. ~l.crossed => ~r.aborted
        BY <1>1, <4>2 DEF Agree
      <4> QED BY <2>4, <4>2, <4>3, <4>4, <4>5
    <3>4. CASE api \in {"select", "kqueue"}
      <4>1. r = [low EXCEPT !.interest[f] = @ \ events]
        BY <2>2, <3>4 DEF ApiDel
      <4>2. /\ r.interest = [l.interest EXCEPT ![f] = l.interest[f] \ events]
            /\ r.pending = l.pending /\ r.aborted = l.aborted
            /\ r.open = low.open /\ r.fd = low.fd /\ r.fresh = low.fresh
            /\ r.failed = low.failed /\ r.strays = low.strays /\ r.crossed = low.crossed
            /\ r.rproc = low.rproc /\ r.wproc = low.wproc /\ r.data = low.data
            /\ r.maxfd = low.maxfd /\ r.mask = low.mask
        BY <1>1, <2>1, <2>4, <4>1 DEF Loops
      <4>3. r \in Loops
        <5>1. low.interest[f] \ events \in SUBSET Event
          BY <2>1, <2>4, <3>0
        <5>2. [low EXCEPT !.interest[f] = low.interest[f] \ events] \in Loops
          BY <2>1, <2>4, <5>1, PollerPart
        <5> QED BY <4>1, <5>2
      <4>4. /\ ~l.crossed => /\ r.interest[f] \cup r.pending[f] = rest
                             /\ r.interest[f] = {} \/ r.pending[f] = {}
                             /\ api # "evport" => r.pending[f] = {}
            /\ \A g \in Fd \ {f} : r.interest[g] = l.interest[g] /\ r.pending[g] = l.pending[g]
        BY <2>1, <2>5, <3>0, <3>4, <4>1, <4>2
      <4>5. ~l.crossed => ~r.aborted
        BY <1>1, <4>2 DEF Agree
      <4> QED BY <2>4, <4>2, <4>3, <4>4, <4>5
    <3> QED BY <3>1, <3>2, <3>3, <3>4, FilesAssumption
  <2>7. \A g \in Fd : r.mask[g] = IF g = f THEN rest ELSE l.mask[g]
    BY <1>1, <2>1, <2>6 DEF Loops
  <2>8. Agree(r)
    BY <1>1, <2>1, <2>5, <2>6, <2>7 DEF Agree
  <2>9. HighestIsKnown(r)
    <3>1. top = NoFd \/ r.mask[top] # {}
      BY <2>3, <2>7
    <3>2. \A g \in Fd : r.mask[g] # {} => g <= top
      BY <2>1, <2>3, <2>7
    <3> QED BY <2>6, <3>1, <3>2 DEF HighestIsKnown
  <2>10. Registered(r)
    BY <1>1, <2>1, <2>5, <2>6, <2>7 DEF Registered
  <2> QED BY <2>5, <2>6, <2>7, <2>8, <2>9, <2>10 DEF LoopInv, Lowered
<1> QED BY <1>2, <1>3

(* close, of a descriptor for which nothing is registered any more.        *)
Shut(l, r, f) ==
  /\ LoopInv(r) /\ r.mask = l.mask
  /\ \A g \in Fd : r.open[g] = IF g = f THEN None ELSE l.open[g]
  /\ r.fd = l.fd /\ r.fresh = l.fresh /\ r.failed = l.failed /\ r.strays = l.strays
  /\ r.rproc = l.rproc /\ r.wproc = l.wproc /\ r.data = l.data

LEMMA ClosedIs ==
  ASSUME NEW l, LoopInv(l), NEW f \in Fd, NEW b \in BOOLEAN,
         l.crossed => b, ~b => l.mask[f] = {}, NEW r, r = [Closed(l, f) EXCEPT !.crossed = b]
  PROVE  Shut(l, r, f) /\ r.crossed = b
<1> DEFINE v == IF api = "select" THEN l.interest[f] ELSE {}
           o == [l EXCEPT !.open[f] = None]
           d == [o EXCEPT !.interest[f] = v]
<1>1. l \in Loops /\ Agree(l) /\ HighestIsKnown(l) /\ Registered(l)
  BY DEF LoopInv
<1>2. v \in SUBSET Event /\ (~b => l.interest[f] = {} /\ v = {})
  BY <1>1 DEF Agree, Loops
<1>3. /\ o \in Loops /\ o.interest = l.interest /\ o.open = [l.open EXCEPT ![f] = None]
      /\ o.mask = l.mask /\ o.pending = l.pending /\ o.aborted = l.aborted /\ o.maxfd = l.maxfd
      /\ o.fd = l.fd /\ o.fresh = l.fresh /\ o.failed = l.failed /\ o.strays = l.strays
      /\ o.rproc = l.rproc /\ o.wproc = l.wproc /\ o.data = l.data
  BY <1>1 DEF Loops
<1>4. r = [d EXCEPT !.crossed = b]
  BY DEF Closed
<1> HIDE DEF o, v
<1>5. d \in Loops
  BY <1>2, <1>3, PollerPart
<1>6. /\ d.interest = [l.interest EXCEPT ![f] = v] /\ d.open = [l.open EXCEPT ![f] = None]
      /\ d.mask = l.mask /\ d.pending = l.pending /\ d.aborted = l.aborted /\ d.maxfd = l.maxfd
      /\ d.fd = l.fd /\ d.fresh = l.fresh /\ d.failed = l.failed /\ d.strays = l.strays
      /\ d.rproc = l.rproc /\ d.wproc = l.wproc /\ d.data = l.data
  BY <1>3 DEF Loops
<1> HIDE DEF d
<1>7. /\ r \in Loops /\ r.crossed = b
      /\ r.interest = [l.interest EXCEPT ![f] = v] /\ r.open = [l.open EXCEPT ![f] = None]
      /\ r.mask = l.mask /\ r.pending = l.pending /\ r.aborted = l.aborted /\ r.maxfd = l.maxfd
      /\ r.fd = l.fd /\ r.fresh = l.fresh /\ r.failed = l.failed /\ r.strays = l.strays
      /\ r.rproc = l.rproc /\ r.wproc = l.wproc /\ r.data = l.data
  BY <1>4, <1>5, <1>6 DEF Loops
<1>8. /\ \A g \in Fd : r.open[g] = IF g = f THEN None ELSE l.open[g]
      /\ \A g \in Fd : r.interest[g] = IF g = f THEN v ELSE l.interest[g]
  BY <1>1, <1>7 DEF Loops
<1>9. Agree(r)
  <2> SUFFICES ASSUME ~r.crossed PROVE Agree(r)
    BY DEF Agree
  <2>1. ~l.crossed
    BY <1>7
  <2>2. None # Other
    BY FilesAssumption
  <2> QED BY <1>1, <1>2, <1>7, <1>8, <2>1, <2>2 DEF Agree
<1> QED BY <1>1, <1>7, <1>8, <1>9 DEF Shut, LoopInv, HighestIsKnown, Registered

LEMMA ClosedFd ==
  ASSUME NEW l, LoopInv(l), NEW f \in Fd \cup {NoFd}, f # NoFd => l.mask[f] = {},
         NEW r, r = CloseFd(l, f)
  PROVE  /\ Shut(l, r, f)
         /\ r.crossed = (l.crossed \/ (f # NoFd /\ l.open[f] = Other))
<1>1. CASE f = NoFd
  <2>1. NoFd \notin Fd
    BY FilesAssumption DEF NoFd
  <2>2. l.crossed \in BOOLEAN
    BY DEF LoopInv, Loops
  <2> QED BY <1>1, <2>1, <2>2 DEF CloseFd, Shut
<1>2. CASE f # NoFd
  <2> DEFINE b == l.crossed \/ l.open[f] = Other
  <2>1. b \in BOOLEAN /\ f \in Fd
    BY <1>2
  <2>2. Closed(l, f).crossed = l.crossed
    BY DEF Closed, LoopInv, Loops
  <2>3. r = [Closed(l, f) EXCEPT !.crossed = b]
    <3>1. r = [Closed(l, f) EXCEPT !.crossed = @ \/ l.open[f] = Other]
      BY <1>2 DEF CloseFd
    <3> QED BY <2>2, <3>1
  <2>4. Shut(l, r, f) /\ r.crossed = b
    <3>1. l.crossed => b
      OBVIOUS
    <3> HIDE DEF b
    <3> QED BY <1>2, <2>1, <2>3, <3>1, ClosedIs
  <2> QED BY <1>2, <2>4
<1> QED BY <1>1, <1>2

(* reconnect_socket closes the connection's descriptor and no other.       *)
LEMMA ClosedSocket ==
  ASSUME NEW l, LoopInv(l), api \in Apis, NEW c \in Conn,
         NEW r, r = CloseFd(DeleteFileEvent(l, l.fd[c], Event), l.fd[c])
  PROVE  /\ LoopInv(r)
         /\ \A g \in Fd : /\ r.open[g] = IF g = l.fd[c] THEN None ELSE l.open[g]
                         /\ r.mask[g] = IF g = l.fd[c] THEN {} ELSE l.mask[g]
         /\ r.fd = l.fd /\ r.fresh = l.fresh /\ r.failed = l.failed /\ r.strays = l.strays
         /\ r.rproc = l.rproc /\ r.wproc = l.wproc /\ r.data = l.data
         /\ r.crossed = (l.crossed \/ (l.fd[c] # NoFd /\ l.open[l.fd[c]] = Other))
<1> DEFINE d == DeleteFileEvent(l, l.fd[c], Event)
<1>1. l.fd[c] \in Fd \cup {NoFd} /\ \A g \in Fd : l.mask[g] \subseteq Event
  BY DEF LoopInv, Loops
<1>2. /\ LoopInv(d)
      /\ \A g \in Fd : d.mask[g] = IF g = l.fd[c] THEN l.mask[g] \ Event ELSE l.mask[g]
      /\ d.open = l.open /\ d.fd = l.fd /\ d.fresh = l.fresh
      /\ d.failed = l.failed /\ d.strays = l.strays /\ d.crossed = l.crossed
      /\ d.rproc = l.rproc /\ d.wproc = l.wproc /\ d.data = l.data
  <2> DEFINE e == Event
  <2>1. e \in SUBSET Event /\ d = DeleteFileEvent(l, l.fd[c], e)
    OBVIOUS
  <2> HIDE DEF d, e
  <2>2. Lowered(l, d, l.fd[c], e)
    BY <1>1, <2>1, Deleted
  <2> QED BY <2>2 DEF Lowered, e
<1>3. \A g \in Fd : d.mask[g] = IF g = l.fd[c] THEN {} ELSE l.mask[g]
  BY <1>1, <1>2
<1> HIDE DEF d
<1>4. r = CloseFd(d, l.fd[c])
  BY DEF d
<1>5. l.fd[c] # NoFd => d.mask[l.fd[c]] = {}
  BY <1>1, <1>3
<1>6. /\ Shut(d, r, l.fd[c])
      /\ r.crossed = (d.crossed \/ (l.fd[c] # NoFd /\ d.open[l.fd[c]] = Other))
  BY <1>1, <1>2, <1>4, <1>5, ClosedFd
<1> QED BY <1>2, <1>3, <1>6 DEF Shut

(* Another thread takes a number that is free.                             *)
Taken(l, m, f) ==
  /\ f \in Fd /\ l.open[f] = None
  /\ m.open = [l.open EXCEPT ![f] = Other] /\ m.fresh = l.fresh \cup {f}
  /\ m.crossed = (l.crossed \/ l.mask[f] # {})
  /\ m.fd = l.fd /\ m.failed = l.failed /\ m.strays = l.strays /\ m.mask = l.mask
  /\ m.rproc = l.rproc /\ m.wproc = l.wproc /\ m.data = l.data

LEMMA TakenByOther ==
  ASSUME NEW l, LoopInv(l), NEW m \in OpenedByOther(l)
  PROVE  LoopInv(m) /\ \E f \in Fd : Taken(l, m, f)
<1> DEFINE f == Lowest(Free(l))
           b == l.crossed \/ l.mask[f] # {}
<1>1. l \in Loops /\ Agree(l) /\ HighestIsKnown(l) /\ Registered(l)
  BY DEF LoopInv
<1>2. /\ l.others # MaxOthers /\ Free(l) # {}
      /\ m = [l EXCEPT !.others = @ + 1, !.open[f] = Other, !.fresh = @ \cup {f},
                       !.crossed = @ \/ l.mask[f] # {}]
  BY DEF OpenedByOther
<1>3. f \in Fd /\ l.open[f] = None
  BY <1>2, LowestIs DEF Free
<1>4. b \in BOOLEAN /\ l.others + 1 \in 0 .. MaxOthers
  BY <1>1, <1>2, FilesAssumption DEF Loops
<1>5. m = [l EXCEPT !.others = l.others + 1, !.open[f] = Other, !.fresh = l.fresh \cup {f},
                    !.crossed = b]
  BY <1>1, <1>2 DEF Loops
<1> HIDE DEF f, b
<1>6. m \in Loops /\ m.crossed = b /\ m.open = [l.open EXCEPT ![f] = Other]
  BY <1>1, <1>3, <1>4, <1>5 DEF Loops
<1>7. /\ m.interest = l.interest /\ m.pending = l.pending /\ m.aborted = l.aborted
      /\ m.maxfd = l.maxfd /\ m.fresh = l.fresh \cup {f}
      /\ m.fd = l.fd /\ m.failed = l.failed /\ m.strays = l.strays /\ m.mask = l.mask
      /\ m.rproc = l.rproc /\ m.wproc = l.wproc /\ m.data = l.data
  BY <1>1, <1>5 DEF Loops
<1>8. \A g \in Fd : m.open[g] = IF g = f THEN Other ELSE l.open[g]
  BY <1>1, <1>3, <1>6 DEF Loops
<1>9. Agree(m)
  <2> SUFFICES ASSUME ~m.crossed PROVE Agree(m)
    BY DEF Agree
  <2>1. ~l.crossed /\ l.mask[f] = {}
    BY <1>6 DEF b
  <2> QED BY <1>1, <1>7, <1>8, <2>1 DEF Agree
<1>10. LoopInv(m)
  BY <1>1, <1>6, <1>7, <1>9 DEF LoopInv, HighestIsKnown, Registered
<1> QED BY <1>3, <1>6, <1>7, <1>10 DEF Taken, b

(* connect_socket fails and changes nothing, or it takes a free number.    *)
Opened(l, r, c, f) ==
  /\ f \in Fd /\ l.open[f] = None
  /\ r.open = [l.open EXCEPT ![f] = c] /\ r.fd = [l.fd EXCEPT ![c] = f]
  /\ r.fresh = l.fresh \cup {f}
  /\ r.failed = l.failed /\ r.strays = l.strays /\ r.crossed = l.crossed
  /\ r.rproc[f] = r.wproc[f]
  /\ \A g \in Fd \ {f} : /\ r.rproc[g] = l.rproc[g] /\ r.wproc[g] = l.wproc[g]
                          /\ r.mask[g] = l.mask[g]

Refused(l, r, c) ==
  /\ r.open = l.open /\ r.fd = l.fd /\ r.fresh = l.fresh /\ c \in r.failed /\ l.failed \subseteq r.failed
  /\ r.rproc = l.rproc /\ r.wproc = l.wproc /\ r.mask = l.mask /\ r.crossed = l.crossed

LEMMA Connects ==
  ASSUME NEW l, LoopInv(l), api \in Apis, NEW c \in Conn,
         l.fd[c] # NoFd => l.mask[l.fd[c]] = {}, l.connects # MaxConnects,
         NEW r \in NewSocket(l, c)
  PROVE  LoopInv(r) /\ (Refused(l, r, c) \/ \E f \in Fd : Opened(l, r, c, f))
<1> DEFINE tried == [l EXCEPT !.connects = @ + 1]
           f     == Lowest(Free(l))
           sock  == [tried EXCEPT !.open[f] = c, !.fresh = @ \cup {f}]
           reg   == CreateFileEvent(sock, f, Event, "socket_connected", c)
<1>1. l \in Loops /\ Agree(l) /\ HighestIsKnown(l) /\ Registered(l)
  BY DEF LoopInv
<1>2. \/ r = [tried EXCEPT !.failed = @ \cup {c}]
      \/ Free(l) # {} /\ ApiAccepts(sock, f) /\ r = [reg EXCEPT !.fd[c] = f]
  BY DEF NewSocket
<1>3. l.connects + 1 \in 0 .. MaxConnects
  BY <1>1, FilesAssumption DEF Loops
<1>4. CASE r = [tried EXCEPT !.failed = @ \cup {c}]
  <2>1. r \in Loops
    BY <1>1, <1>3, <1>4 DEF Loops
  <2>2. /\ r.interest = l.interest /\ r.mask = l.mask /\ r.pending = l.pending
        /\ r.aborted = l.aborted /\ r.maxfd = l.maxfd /\ r.data = l.data
        /\ r.open = l.open /\ r.fd = l.fd /\ r.fresh = l.fresh /\ r.failed = l.failed \cup {c}
        /\ r.rproc = l.rproc /\ r.wproc = l.wproc /\ r.crossed = l.crossed
    BY <1>1, <1>4 DEF Loops
  <2>3. Agree(r)
    BY <1>1, <2>2 DEF Agree
  <2> QED BY <1>1, <2>1, <2>2, <2>3 DEF LoopInv, HighestIsKnown, Registered, Refused
<1>5. CASE Free(l) # {} /\ ApiAccepts(sock, f) /\ r = [reg EXCEPT !.fd[c] = f]
  <2>1. f \in Fd /\ l.open[f] = None
    BY <1>5, LowestIs DEF Free
  <2> HIDE DEF f
  <2>2. /\ sock.interest = l.interest /\ sock.mask = l.mask /\ sock.pending = l.pending
        /\ sock.aborted = l.aborted /\ sock.maxfd = l.maxfd /\ sock.data = l.data
        /\ sock.open = [l.open EXCEPT ![f] = c] /\ sock.fd = l.fd /\ sock.fresh = l.fresh \cup {f}
        /\ sock.failed = l.failed /\ sock.strays = l.strays /\ sock.crossed = l.crossed
        /\ sock.rproc = l.rproc /\ sock.wproc = l.wproc
    BY <1>1 DEF Loops
  <2>3. sock \in Loops
    BY <1>1, <1>3, <2>1 DEF Loops
  <2> HIDE DEF sock
  <2>4. Agree(sock) /\ HighestIsKnown(sock)
    <3>1. /\ \A g \in Fd : sock.open[g] = None => l.open[g] = None
          /\ \A g \in Fd : sock.open[g] = Other => l.open[g] = Other
      BY <1>1, <2>2, FilesAssumption DEF Loops
    <3> QED BY <1>1, <2>2, <3>1 DEF Agree, HighestIsKnown
  <2>5. /\ reg \in Loops /\ Agree(reg) /\ HighestIsKnown(reg)
        /\ reg.mask = [sock.mask EXCEPT ![f] = @ \cup Event]
        /\ reg.data = [sock.data EXCEPT ![f] = c]
        /\ reg.rproc = [sock.rproc EXCEPT ![f] = "socket_connected"]
        /\ reg.wproc = [sock.wproc EXCEPT ![f] = "socket_connected"]
        /\ reg.open = sock.open /\ reg.fd = sock.fd /\ reg.fresh = sock.fresh
        /\ reg.failed = sock.failed /\ reg.strays = sock.strays /\ reg.crossed = sock.crossed
    <3>0. sock.open[f] = c /\ c # None /\ c # Other /\ sock.crossed \in BOOLEAN
      BY <1>1, <2>1, <2>2, <2>3, FilesAssumption DEF Loops
    <3>1. /\ Event \in SUBSET Event /\ Event # {} /\ "socket_connected" \in Handler
          /\ Read \in Event /\ Write \in Event
      BY DEF Event, Handler
    <3>2. CreatedAs(sock, f, Event, "socket_connected", c, reg)
      BY <1>5, <2>1, <2>3, <2>4, <3>0, <3>1, Created
    <3> QED BY <3>0, <3>1, <3>2 DEF CreatedAs
  <2> HIDE DEF reg
  <2>6. /\ r.interest = reg.interest /\ r.mask = reg.mask /\ r.pending = reg.pending
        /\ r.aborted = reg.aborted /\ r.maxfd = reg.maxfd /\ r.data = reg.data
        /\ r.open = reg.open /\ r.fd = [l.fd EXCEPT ![c] = f] /\ r.fresh = reg.fresh
        /\ r.failed = reg.failed /\ r.strays = reg.strays /\ r.crossed = reg.crossed
        /\ r.rproc = reg.rproc /\ r.wproc = reg.wproc
        /\ r \in Loops
    BY <1>5, <2>1, <2>2, <2>5 DEF Loops
  <2>7. /\ \A g \in Fd : r.mask[g] = IF g = f THEN Event ELSE l.mask[g]
        /\ \A g \in Fd : r.data[g] = IF g = f THEN c ELSE l.data[g]
        /\ \A g \in Fd : r.rproc[g] = IF g = f THEN "socket_connected" ELSE l.rproc[g]
        /\ \A g \in Fd : r.wproc[g] = IF g = f THEN "socket_connected" ELSE l.wproc[g]
        /\ \A d \in Conn : r.fd[d] = IF d = c THEN f ELSE l.fd[d]
    <3>1. /\ r.mask = [l.mask EXCEPT ![f] = @ \cup Event] /\ l.mask \in [Fd -> SUBSET Event]
          /\ r.data = [l.data EXCEPT ![f] = c] /\ l.data \in [Fd -> Conn \cup {None}]
          /\ r.rproc = [l.rproc EXCEPT ![f] = "socket_connected"] /\ l.rproc \in [Fd -> Handler]
          /\ r.wproc = [l.wproc EXCEPT ![f] = "socket_connected"] /\ l.wproc \in [Fd -> Handler]
          /\ r.fd = [l.fd EXCEPT ![c] = f] /\ l.fd \in [Conn -> Fd \cup {NoFd}]
      BY <1>1, <2>2, <2>5, <2>6 DEF Loops
    <3>2. l.mask[f] \cup Event = Event
      BY <2>1, <3>1
    <3> QED BY <2>1, <3>1, <3>2
  <2>8. Agree(r) /\ HighestIsKnown(r)
    BY <2>5, <2>6 DEF Agree, HighestIsKnown
  <2>9. Registered(r)
    BY <1>1, <2>1, <2>7, FilesAssumption DEF Registered, NoFd
  <2>10. Opened(l, r, c, f)
    BY <2>1, <2>2, <2>5, <2>6, <2>7 DEF Opened
  <2> QED BY <2>1, <2>6, <2>8, <2>9, <2>10 DEF LoopInv
<1> QED BY <1>2, <1>4, <1>5

-----------------------------------------------------------------------------
(* What a handler leaves of the records, when B have begun: they are in    *)
(* order, and of this thread's descriptors only f may be replaced, by one  *)
(* that has no event or waits with one handler for both, unless crossed.   *)
Sound(l, B) == LoopInv(l) /\ OwnedIn(l, Conn) /\ OwnSocket(l, B)

Keeps(l, r, f) ==
  /\ l.crossed => r.crossed
  /\ \A g \in Fd \ {f} : l.open[g] \in Conn => r.open[g] \in Conn /\ (g \in r.fresh => g \in l.fresh)

Alike(l, g) == g \in l.fresh => l.crossed \/ l.mask[g] = {} \/ l.wproc[g] = l.rproc[g]

OthersKeep(l, r, c) == \A d \in Conn \ {c} : r.fd[d] = l.fd[d]

(* connect_socket for a connection that has no descriptor, when no other   *)
(* thread takes a number in between, and when one may.                     *)
Anew(l, r, c, B) ==
  /\ Sound(r, B \cup {c}) /\ OthersKeep(l, r, c) /\ Keeps(l, r, NoFd)
  /\ \A g \in Fd : Alike(l, g) => Alike(r, g)
  /\ r.fd[c] = l.fd[c] \/ (r.fd[c] \in Fd /\ l.open[r.fd[c]] = None)

LEMMA NewSocketIs ==
  ASSUME NEW l, LoopInv(l), api \in Apis, NEW c \in Conn, NEW B \in SUBSET (Conn \ {c}),
         l.fd[c] # NoFd => l.mask[l.fd[c]] = {}, OwnedIn(l, Conn \ {c}), OwnSocket(l, B),
         l.connects # MaxConnects, NEW r \in NewSocket(l, c)
  PROVE  Anew(l, r, c, B)
<1>1. LoopInv(r) /\ (Refused(l, r, c) \/ \E f \in Fd : Opened(l, r, c, f))
  BY Connects
<1>2. l \in Loops /\ r \in Loops
  BY <1>1 DEF LoopInv
<1>3. CASE Refused(l, r, c)
  <2>1. OwnedIn(r, Conn)
    BY <1>3 DEF Refused, OwnedIn
  <2>2. OwnSocket(r, B \cup {c})
    BY <1>3 DEF Refused, OwnSocket
  <2> QED BY <1>1, <1>3, <2>1, <2>2 DEF Refused, Sound, OthersKeep, Keeps, Alike, Anew
<1>4. ASSUME NEW f \in Fd, Opened(l, r, c, f)
      PROVE  /\ Sound(r, B \cup {c}) /\ OthersKeep(l, r, c) /\ Keeps(l, r, NoFd)
             /\ \A g \in Fd : Alike(l, g) => Alike(r, g)
             /\ r.fd[c] \in Fd /\ l.open[r.fd[c]] = None
  <2>1. /\ \A g \in Fd : r.open[g] = IF g = f THEN c ELSE l.open[g]
        /\ \A d \in Conn : r.fd[d] = IF d = c THEN f ELSE l.fd[d]
        /\ \A d \in Conn : l.fd[d] \in Fd \cup {NoFd}
        /\ c # None /\ f # NoFd /\ c # Other
    BY <1>2, <1>4, FilesAssumption DEF Opened, Loops, NoFd
  <2>2. OwnedIn(r, Conn)
    BY <2>1 DEF OwnedIn
  <2>3. OwnSocket(r, B \cup {c})
    <3>0. r.failed = {} => ~r.crossed /\ r.strays = {}
      BY <1>4 DEF Opened, OwnSocket
    <3> SUFFICES ASSUME r.failed = {}, NEW d \in B \cup {c}
                 PROVE  r.fd[d] # NoFd /\ r.open[r.fd[d]] = d
      BY <3>0 DEF OwnSocket
    <3>1. CASE d = c
      BY <2>1, <3>1
    <3>2. CASE d # c
      <4>1. d \in Conn /\ d \in B /\ d # None /\ l.failed = {}
        BY <1>4, <3>2, FilesAssumption DEF Opened
      <4>2. l.fd[d] # NoFd /\ l.open[l.fd[d]] = d
        BY <4>1 DEF OwnSocket
      <4>3. l.open[f] = None
        BY <1>4 DEF Opened
      <4> QED BY <2>1, <3>2, <4>1, <4>2, <4>3
    <3> QED BY <3>1, <3>2
  <2>4. OthersKeep(l, r, c)
    BY <2>1 DEF OthersKeep
  <2>5. Keeps(l, r, NoFd)
    BY <1>4, <2>1, FilesAssumption DEF Keeps, Opened
  <2>6. \A g \in Fd : Alike(l, g) => Alike(r, g)
    BY <1>4 DEF Opened, Alike
  <2> QED BY <1>1, <1>4, <2>1, <2>2, <2>3, <2>4, <2>5, <2>6 DEF Sound, Opened
<1> QED BY <1>1, <1>3, <1>4 DEF Refused, Anew

LEMMA TakenIsSound ==
  ASSUME NEW l, LoopInv(l), NEW C, OwnedIn(l, C), NEW B, OwnSocket(l, B), B \subseteq Conn,
         NEW f, NEW m, Taken(l, m, f), LoopInv(m)
  PROVE  /\ OwnedIn(m, C) /\ OwnSocket(m, B) /\ Keeps(l, m, NoFd)
         /\ \A g \in Fd : Alike(l, g) => Alike(m, g)
         /\ \A g \in Fd : m.open[g] = None => l.open[g] = None
<1>1. /\ f \in Fd /\ l.open[f] = None /\ l \in Loops /\ Agree(l)
      /\ Other \notin Conn /\ None \notin Conn /\ Other # None
  BY FilesAssumption DEF Taken, LoopInv
<1>2. \A g \in Fd : m.open[g] = IF g = f THEN Other ELSE l.open[g]
  BY <1>1 DEF Taken, Loops
<1>3. OwnedIn(m, C)
  BY <1>1, <1>2 DEF OwnedIn, Taken
<1>4. OwnSocket(m, B)
  <2> SUFFICES ASSUME m.failed = {}
               PROVE  /\ ~m.crossed /\ m.strays = {}
                      /\ \A c \in B : m.fd[c] # NoFd /\ m.open[m.fd[c]] = c
    BY DEF OwnSocket
  <2>1. /\ l.failed = {} /\ ~l.crossed /\ l.strays = {}
        /\ \A c \in B : l.fd[c] # NoFd /\ l.open[l.fd[c]] = c
    BY DEF OwnSocket, Taken
  <2>2. l.mask[f] = {}
    BY <1>1, <2>1 DEF Agree
  <2>3. ASSUME NEW c \in B PROVE m.fd[c] # NoFd /\ m.open[m.fd[c]] = c
    <3>1. l.fd[c] \in Fd \cup {NoFd} /\ c \in Conn
      BY <1>1 DEF Loops
    <3>2. l.fd[c] \in Fd /\ l.fd[c] # f
      BY <1>1, <2>1, <3>1
    <3> QED BY <1>2, <2>1, <3>2 DEF Taken
  <2> QED BY <2>1, <2>2, <2>3 DEF Taken
<1>5. Keeps(l, m, NoFd)
  BY <1>1, <1>2 DEF Keeps, Taken
<1>6. \A g \in Fd : Alike(l, g) => Alike(m, g)
  BY <1>1 DEF Alike, Taken
<1> QED BY <1>1, <1>2, <1>3, <1>4, <1>5, <1>6

LEMMA ConnectsAnew ==
  ASSUME NEW l, LoopInv(l), api \in Apis, NEW c \in Conn, NEW B \in SUBSET (Conn \ {c}),
         l.fd[c] # NoFd => l.mask[l.fd[c]] = {}, OwnedIn(l, Conn \ {c}), OwnSocket(l, B),
         NEW r \in ConnectSocket(l, c)
  PROVE  Anew(l, r, c, B)
<1>1. l.connects # MaxConnects /\ \E m \in {l} \cup OpenedByOther(l) : r \in NewSocket(m, c)
  BY DEF ConnectSocket
<1>2. CASE r \in NewSocket(l, c)
  BY <1>1, <1>2, NewSocketIs
<1>3. ASSUME NEW m \in OpenedByOther(l), r \in NewSocket(m, c) PROVE Anew(l, r, c, B)
  <2>1. PICK f \in Fd : LoopInv(m) /\ Taken(l, m, f)
    BY TakenByOther
  <2>2. /\ OwnedIn(m, Conn \ {c}) /\ OwnSocket(m, B) /\ Keeps(l, m, NoFd)
        /\ \A g \in Fd : Alike(l, g) => Alike(m, g)
        /\ \A g \in Fd : m.open[g] = None => l.open[g] = None
    <3>1. B \subseteq Conn
      OBVIOUS
    <3> QED BY <2>1, <3>1, TakenIsSound
  <2>3. m.fd = l.fd /\ m.mask = l.mask
    BY <2>1 DEF Taken
  <2>4. m.connects = l.connects
    BY DEF OpenedByOther, LoopInv, Loops
  <2>5. m.fd[c] # NoFd => m.mask[m.fd[c]] = {}
    BY <2>3
  <2>6. Anew(m, r, c, B)
    BY <1>1, <1>3, <2>1, <2>2, <2>4, <2>5, NewSocketIs
  <2>7. Keeps(l, r, NoFd)
    BY <2>2, <2>6 DEF Anew, Keeps
  <2>8. OthersKeep(l, r, c)
    BY <2>3, <2>6 DEF Anew, OthersKeep
  <2>9. r.fd[c] = l.fd[c] \/ (r.fd[c] \in Fd /\ l.open[r.fd[c]] = None)
    BY <2>2, <2>3, <2>6 DEF Anew
  <2>10. Sound(r, B \cup {c}) /\ \A g \in Fd : Alike(l, g) => Alike(r, g)
    BY <2>2, <2>6 DEF Anew
  <2> QED BY <2>7, <2>8, <2>9, <2>10 DEF Anew
<1> QED BY <1>1, <1>2, <1>3

(* reconnect_socket.                                                       *)
LEMMA Reconnects ==
  ASSUME NEW l, NEW B \in SUBSET Conn, Sound(l, B), api \in Apis, NEW c \in B,
         NEW r \in Reconnect(l, c)
  PROVE  /\ Sound(r, B) /\ OthersKeep(l, r, c) /\ Keeps(l, r, l.fd[c])
         /\ \A g \in Fd : Alike(l, g) => Alike(r, g)
         /\ r.fd[c] = l.fd[c] \/ (r.fd[c] \in Fd /\ l.open[r.fd[c]] = None)
<1> DEFINE k == CloseFd(DeleteFileEvent(l, l.fd[c], Event), l.fd[c])
           A == B \ {c}
<1>1. LoopInv(l) /\ OwnedIn(l, Conn) /\ OwnSocket(l, B) /\ c \in Conn
  BY DEF Sound
<1>2. /\ LoopInv(k)
      /\ \A g \in Fd : /\ k.open[g] = IF g = l.fd[c] THEN None ELSE l.open[g]
                      /\ k.mask[g] = IF g = l.fd[c] THEN {} ELSE l.mask[g]
      /\ k.fd = l.fd /\ k.fresh = l.fresh /\ k.failed = l.failed /\ k.strays = l.strays
      /\ k.rproc = l.rproc /\ k.wproc = l.wproc
      /\ k.crossed = (l.crossed \/ (l.fd[c] # NoFd /\ l.open[l.fd[c]] = Other))
  BY <1>1, ClosedSocket
<1>3. r \in ConnectSocket(k, c)
  BY DEF Reconnect
<1> HIDE DEF k
<1>4. \A d \in Conn : l.fd[d] \in Fd \cup {NoFd}
  BY <1>1 DEF LoopInv, Loops
<1>5. OwnedIn(k, Conn \ {c})
  BY <1>1, <1>2, FilesAssumption DEF OwnedIn
<1>6. OwnSocket(k, A)
  <2>0. k.failed = {} => ~k.crossed /\ k.strays = {}
    BY <1>1, <1>2, FilesAssumption DEF OwnSocket
  <2> SUFFICES ASSUME k.failed = {}, NEW d \in A
               PROVE  k.fd[d] # NoFd /\ k.open[k.fd[d]] = d
    BY <2>0 DEF OwnSocket
  <2>1. l.fd[d] # NoFd /\ l.open[l.fd[d]] = d /\ l.open[l.fd[c]] = c
    BY <1>1, <1>2 DEF OwnSocket
  <2>2. l.fd[d] # l.fd[c]
    BY <2>1
  <2> QED BY <1>2, <1>4, <2>1, <2>2
<1>7. k.fd[c] # NoFd => k.mask[k.fd[c]] = {}
  BY <1>1, <1>2, <1>4
<1>8. A \in SUBSET (Conn \ {c}) /\ A \cup {c} = B
  OBVIOUS
<1> HIDE DEF A
<1>9. Anew(k, r, c, A)
  <2>1. LoopInv(k) /\ c \in Conn
    BY <1>1, <1>2
  <2> QED BY <2>1, <1>3, <1>5, <1>6, <1>7, <1>8, ConnectsAnew
<1>10. Sound(r, B) /\ OthersKeep(l, r, c)
  BY <1>2, <1>8, <1>9 DEF OthersKeep, Anew
<1>11. Keeps(l, r, l.fd[c])
  <2>0. l.crossed => r.crossed
    BY <1>2, <1>9 DEF Keeps, Anew
  <2> SUFFICES ASSUME NEW g \in Fd \ {l.fd[c]}, l.open[g] \in Conn
               PROVE  r.open[g] \in Conn /\ (g \in r.fresh => g \in l.fresh)
    BY <2>0 DEF Keeps
  <2>1. g # NoFd /\ k.open[g] \in Conn
    BY <1>2, FilesAssumption DEF NoFd
  <2> QED BY <1>2, <1>9, <2>1 DEF Keeps, Anew
<1>12. \A g \in Fd : Alike(l, g) => Alike(r, g)
  BY <1>2, <1>9 DEF Alike, Anew
<1>13. r.fd[c] = l.fd[c] \/ (r.fd[c] \in Fd /\ l.open[r.fd[c]] = None)
  BY <1>1, <1>2, <1>4, <1>9, FilesAssumption DEF Anew, NoFd
<1> QED BY <1>10, <1>11, <1>12, <1>13

(* Registering a connection again for its own descriptor, and taking its   *)
(* writable event back.                                                    *)
Adds(l, f, e, proc, c, r) == r = CreateFileEvent(l, f, {e}, proc, c)
Removes(l, f, r) == r = DeleteFileEvent(l, f, {Write})

LEMMA Registers ==
  ASSUME NEW l, NEW B \in SUBSET Conn, Sound(l, B), api \in Apis, NEW c \in B,
         NEW f \in Fd \cup {NoFd}, f # NoFd => l.fd[c] = f,
         NEW e \in Event, NEW proc,
         proc = IF e = Read THEN "socket_readable" ELSE "socket_writeable",
         NEW r, Adds(l, f, e, proc, c, r)
  PROVE  Sound(r, B) /\ r.open = l.open /\ r.fd = l.fd /\ r.fresh = l.fresh /\ (l.crossed => r.crossed)
<1>0. r = CreateFileEvent(l, f, {e}, proc, c)
  BY DEF Adds
<1>1. /\ l \in Loops /\ Agree(l) /\ HighestIsKnown(l) /\ Registered(l) /\ OwnedIn(l, Conn) /\ OwnSocket(l, B)
  BY DEF Sound, LoopInv
<1>2. CASE ~ApiAccepts(l, f)
  BY <1>0, <1>2 DEF CreateFileEvent
<1>3. CASE ApiAccepts(l, f)
  <2>1. f \in Fd
    BY <1>3 DEF ApiAccepts
  <2>2. proc \in Handler /\ {e} # {}
    BY DEF Handler
  <2> DEFINE s == {e}
  <2>3. s \in SUBSET Event /\ s # {} /\ (Read \in s => e = Read) /\ (Write \in s => e = Write)
    OBVIOUS
  <2>4. r = CreateFileEvent(l, f, s, proc, c)
    BY <1>0
  <2> HIDE DEF s
  <2>5. /\ r \in Loops /\ Agree(r) /\ HighestIsKnown(r)
        /\ r.mask = [l.mask EXCEPT ![f] = @ \cup s]
        /\ r.data = [l.data EXCEPT ![f] = c]
        /\ r.rproc = [l.rproc EXCEPT ![f] = IF Read \in s THEN proc ELSE @]
        /\ r.wproc = [l.wproc EXCEPT ![f] = IF Write \in s THEN proc ELSE @]
        /\ r.open = l.open /\ r.fd = l.fd /\ r.fresh = l.fresh
        /\ r.failed = l.failed /\ r.strays = l.strays
        /\ r.crossed = (l.crossed \/ l.open[f] = Other)
        /\ l.failed = {} => l.open[f] = c
    <3>1. l.failed = {} => l.open[f] = c
      BY <1>1, <2>1, FilesAssumption DEF OwnSocket, NoFd
    <3>2. c \in Conn /\ c # None
      BY FilesAssumption
    <3>3. CreatedAs(l, f, s, proc, c, r)
      BY <1>1, <1>3, <2>1, <2>2, <2>3, <2>4, <3>1, <3>2, Created
    <3> QED BY <3>1, <3>3 DEF CreatedAs
  <2>6. Registered(r)
    <3>1. \A g \in Fd \ {f} : /\ r.mask[g] = l.mask[g] /\ r.data[g] = l.data[g]
                              /\ r.rproc[g] = l.rproc[g] /\ r.wproc[g] = l.wproc[g]
      BY <1>1, <2>5 DEF Loops
    <3>2. /\ r.mask[f] = l.mask[f] \cup s /\ r.data[f] = c
          /\ r.rproc[f] = IF Read \in s THEN proc ELSE l.rproc[f]
          /\ r.wproc[f] = IF Write \in s THEN proc ELSE l.wproc[f]
      BY <1>1, <2>1, <2>5 DEF Loops
    <3>3. r.fd[c] = f
      BY <2>1, <2>5, FilesAssumption DEF NoFd
    <3>4. /\ Read \in s  => proc = "socket_readable"
          /\ Write \in s => proc = "socket_writeable"
      BY <2>3 DEF Read, Write
    <3> SUFFICES ASSUME NEW g \in Fd
                 PROVE  /\ Read \in r.mask[g]  => r.rproc[g] \in {"socket_connected", "socket_readable"}
                        /\ Write \in r.mask[g] => r.wproc[g] \in {"socket_connected", "socket_writeable"}
                        /\ r.mask[g] # {} => r.data[g] \in Conn /\ r.fd[r.data[g]] = g
      BY DEF Registered
    <3>5. CASE g = f
      BY <1>1, <3>2, <3>3, <3>4, <3>5 DEF Registered
    <3>6. CASE g # f
      <4>1. r.fd = l.fd
        BY <2>5
      <4>2. /\ Read \in l.mask[g]  => l.rproc[g] \in {"socket_connected", "socket_readable"}
            /\ Write \in l.mask[g] => l.wproc[g] \in {"socket_connected", "socket_writeable"}
            /\ l.mask[g] # {} => l.data[g] \in Conn /\ l.fd[l.data[g]] = g
        BY <1>1 DEF Registered
      <4>3. /\ r.mask[g] = l.mask[g] /\ r.data[g] = l.data[g]
            /\ r.rproc[g] = l.rproc[g] /\ r.wproc[g] = l.wproc[g]
        BY <3>1, <3>6
      <4> QED BY <4>1, <4>2, <4>3
    <3> QED BY <3>5, <3>6
  <2>7. LoopInv(r)
    BY <2>5, <2>6 DEF LoopInv
  <2>8. OwnedIn(r, Conn) /\ OwnSocket(r, B)
    <3>1. r.open = l.open /\ r.fd = l.fd /\ r.failed = l.failed /\ r.strays = l.strays
      BY <2>5
    <3>2. r.failed = {} => ~r.crossed
      <4>1. /\ l.failed = {} => ~l.crossed /\ l.open[f] = c
            /\ r.crossed = (l.crossed \/ l.open[f] = Other) /\ r.failed = l.failed
        BY <1>1, <2>5 DEF OwnSocket
      <4>2. c # Other
        BY FilesAssumption
      <4> QED BY <4>1, <4>2
    <3> QED BY <1>1, <3>1, <3>2 DEF OwnedIn, OwnSocket
  <2> QED BY <2>5, <2>7, <2>8 DEF Sound
<1> QED BY <1>2, <1>3

LEMMA Unregisters ==
  ASSUME NEW l, NEW B, Sound(l, B), api \in Apis, NEW f \in Fd,
         NEW r, Removes(l, f, r)
  PROVE  Sound(r, B) /\ r.open = l.open /\ r.fd = l.fd /\ r.fresh = l.fresh /\ (l.crossed => r.crossed)
<1> DEFINE s == {Write}
<1>1. s \in SUBSET Event /\ r = DeleteFileEvent(l, f, s)
  BY DEF Event, Removes
<1> HIDE DEF s
<1>2. Lowered(l, r, f, s)
  BY <1>1, Deleted DEF Sound
<1> QED BY <1>2 DEF Lowered, Sound, OwnedIn, OwnSocket

(* The three handlers of the connection c of a descriptor f.               *)
Handled(l, r, f, c, B) ==
  /\ Sound(r, B) /\ OthersKeep(l, r, c) /\ Keeps(l, r, f)
  /\ Alike(l, f) /\ f \notin l.fresh => Alike(r, f)

LEMMA SameIsHandled ==
  ASSUME NEW l, NEW B, Sound(l, B), NEW f, NEW c, NEW r, Sound(r, B),
         r.open = l.open, r.fd = l.fd, r.fresh = l.fresh, l.crossed => r.crossed
  PROVE  Handled(l, r, f, c, B)
BY DEF Handled, OthersKeep, Keeps, Alike

LEMMA HandlersDo ==
  ASSUME NEW l, NEW B \in SUBSET Conn, Sound(l, B), api \in Apis,
         NEW c \in B, NEW f \in Fd, l.fd[c] = f
  PROVE  /\ \A r \in Reconnect(l, c) : Handled(l, r, f, c, B)
         /\ \A r \in Connected(l, f, c) : Handled(l, r, f, c, B)
         /\ \A r \in Readable(l, c) : Handled(l, r, f, c, B)
         /\ \A r \in Writeable(l, f, c) : Handled(l, r, f, c, B)
<1>0. Handled(l, l, f, c, B) /\ c \in Conn /\ f \in Fd \cup {NoFd}
  BY SameIsHandled
<1>1. ASSUME NEW r \in Reconnect(l, c) PROVE Handled(l, r, f, c, B)
  BY <1>1, Reconnects DEF Handled
<1>2. ASSUME NEW a \in Reconnect(l, c), NEW r \in Reconnect(a, c) PROVE Handled(l, r, f, c, B)
  <2>1. /\ Sound(a, B) /\ OthersKeep(l, a, c) /\ Keeps(l, a, f)
        /\ \A g \in Fd : Alike(l, g) => Alike(a, g)
        /\ a.fd[c] = f \/ l.open[a.fd[c]] = None
    BY Reconnects
  <2>2. /\ Sound(r, B) /\ OthersKeep(a, r, c) /\ Keeps(a, r, a.fd[c])
        /\ \A g \in Fd : Alike(a, g) => Alike(r, g)
    BY <2>1, Reconnects
  <2>3. OthersKeep(l, r, c)
    BY <2>1, <2>2 DEF OthersKeep
  <2>4. Keeps(l, r, f)
    <3>0. l.crossed => r.crossed
      BY <2>1, <2>2 DEF Keeps
    <3> SUFFICES ASSUME NEW g \in Fd \ {f}, l.open[g] \in Conn
                 PROVE  r.open[g] \in Conn /\ (g \in r.fresh => g \in l.fresh)
      BY <3>0 DEF Keeps
    <3>1. a.open[g] \in Conn /\ (g \in a.fresh => g \in l.fresh) /\ g # a.fd[c]
      BY <2>1, FilesAssumption DEF Keeps
    <3> QED BY <2>2, <3>1 DEF Keeps
  <2> QED BY <2>1, <2>2, <2>3, <2>4 DEF Handled
<1>3. ASSUME NEW r \in Connected(l, f, c) PROVE Handled(l, r, f, c, B)
  <2> DEFINE p == CreateFileEvent(l, f, {Read}, "socket_readable", c)
             q == CreateFileEvent(p, f, {Write}, "socket_writeable", c)
  <2>1. Read \in Event /\ Write \in Event /\ Read # Write
    BY DEF Event, Read, Write
  <2>2. Sound(p, B) /\ p.open = l.open /\ p.fd = l.fd /\ p.fresh = l.fresh /\ (l.crossed => p.crossed)
    <3>1. Adds(l, f, Read, "socket_readable", c, p)
      BY DEF Adds
    <3> HIDE DEF p
    <3> QED BY <1>0, <2>1, <3>1, Registers
  <2> HIDE DEF p
  <2>3. p.fd[c] = f
    BY <2>2
  <2>4. Sound(q, B) /\ q.open = p.open /\ q.fd = p.fd /\ q.fresh = p.fresh /\ (p.crossed => q.crossed)
    <3>1. Adds(p, f, Write, "socket_writeable", c, q)
      BY DEF Adds
    <3> HIDE DEF q
    <3> QED BY <1>0, <2>1, <2>2, <2>3, <3>1, Registers
  <2> HIDE DEF q
  <2>5. Handled(l, q, f, c, B)
    BY <2>2, <2>4, SameIsHandled
  <2>6. r = l \/ r = q \/ r \in Reconnect(l, c)
    BY DEF Connected, p, q
  <2> QED BY <1>0, <1>1, <2>5, <2>6
<1>4. ASSUME NEW r \in Readable(l, c) PROVE Handled(l, r, f, c, B)
  BY <1>0, <1>1, <1>2 DEF Readable
<1>5. ASSUME NEW r \in Writeable(l, f, c) PROVE Handled(l, r, f, c, B)
  <2> DEFINE p == DeleteFileEvent(l, f, {Write})
             q == CreateFileEvent(p, l.fd[c], {Write}, "socket_writeable", c)
  <2>1. Write \in Event /\ Read # Write
    BY DEF Event, Read, Write
  <2>2. Sound(p, B) /\ p.open = l.open /\ p.fd = l.fd /\ p.fresh = l.fresh /\ (l.crossed => p.crossed)
    <3>1. Removes(l, f, p)
      BY DEF Removes
    <3> HIDE DEF p, q
    <3> QED BY <3>1, Unregisters
  <2> HIDE DEF p
  <2>3. p.fd[c] = f
    BY <2>2
  <2>4. Sound(q, B) /\ q.open = p.open /\ q.fd = p.fd /\ q.fresh = p.fresh /\ (p.crossed => q.crossed)
    <3>1. Adds(p, f, Write, "socket_writeable", c, q)
      BY DEF Adds
    <3> HIDE DEF q
    <3> QED BY <1>0, <2>1, <2>2, <2>3, <3>1, Registers
  <2> HIDE DEF q
  <2>5. Handled(l, q, f, c, B)
    BY <2>2, <2>4, SameIsHandled
  <2>6. r = l \/ r = q \/ r \in Reconnect(l, c)
    BY DEF Writeable, p, q
  <2> QED BY <1>0, <1>1, <2>5, <2>6
<1> QED BY <1>1, <1>3, <1>4, <1>5

-----------------------------------------------------------------------------
(* What a poller reports is watched; all but kqueue report a descriptor    *)
(* once, and one that this thread has opened, until numbers cross.         *)
LEMMA Reported ==
  ASSUME NEW l, LoopInv(l), api \in Apis, NEW q \in Reports(l)
  PROVE  /\ q \in Seq(Fd \X (SUBSET Event))
         /\ api # "kqueue" /\ ~l.crossed =>
              \A i \in 1 .. Len(q) : /\ l.open[q[i][1]] \in Conn
                                    /\ \A j \in 1 .. Len(q) : i # j => q[i][1] # q[j][1]
<1>1. l \in Loops /\ Agree(l)
  BY DEF LoopInv
<1> DEFINE Pairs(p, m) == q = [i \in DOMAIN p |-> <<p[i], m[p[i]]>>]
<1>2. ASSUME NEW S \in SUBSET Fd, NEW p \in SetToSeqs(S), NEW m \in [S -> SUBSET Event], Pairs(p, m)
      PROVE  /\ q \in Seq(Fd \X (SUBSET Event))
             /\ \A i \in 1 .. Len(q) : /\ q[i][1] \in S
                                      /\ \A j \in 1 .. Len(q) : i # j => q[i][1] # q[j][1]
  <2>1. IsFiniteSet(S)
    BY FilesAssumption, FS_Subset
  <2>2. /\ p \in Seq(S) /\ DOMAIN p = 1 .. Len(p)
        /\ \A i, j \in 1 .. Len(p) : i # j => p[i] # p[j]
    BY <2>1, SeqsOf
  <2>3. Len(p) \in Nat /\ \A i \in 1 .. Len(p) : p[i] \in S
    BY <2>2
  <2>4. q \in [1 .. Len(p) -> Fd \X (SUBSET Event)]
    BY <1>2, <2>2, <2>3
  <2>5. q \in Seq(Fd \X (SUBSET Event)) /\ Len(q) = Len(p)
    BY <2>3, <2>4
  <2>6. \A i \in 1 .. Len(p) : q[i][1] = p[i]
    BY <1>2, <2>2
  <2> QED BY <2>2, <2>3, <2>5, <2>6
<1>3. \A f \in Watched(l) : ~l.crossed /\ (api = "select" => l.open[f] # None) => l.open[f] \in Conn
  <2> SUFFICES ASSUME NEW f \in Fd, l.interest[f] # {}, ~l.crossed, api = "select" => l.open[f] # None
               PROVE  l.open[f] \in Conn
    BY DEF Watched
  <2>1. l.open[f] # Other /\ l.open[f] # None
    BY <1>1 DEF Agree
  <2> QED BY <1>1, <2>1 DEF Loops
<1>4. Watched(l) \subseteq Fd
  BY DEF Watched
<1>5. CASE api = "epoll"
  <2>1. PICK S \in SUBSET Watched(l) :
          \E p \in SetToSeqs(S), m \in [S -> SUBSET Event] : q = [i \in DOMAIN p |-> <<p[i], m[p[i]]>>]
    BY <1>5 DEF Reports, epoll_wait, InAnyOrder
  <2>2. S \in SUBSET Fd
    BY <1>4
  <2>3. PICK p \in SetToSeqs(S), m \in [S -> SUBSET Event] : Pairs(p, m)
    BY <2>1
  <2> HIDE DEF Pairs
  <2>4. /\ q \in Seq(Fd \X (SUBSET Event))
        /\ \A i \in 1 .. Len(q) : /\ q[i][1] \in S
                                 /\ \A j \in 1 .. Len(q) : i # j => q[i][1] # q[j][1]
    BY <1>2, <2>2, <2>3
  <2> QED BY <1>3, <1>5, <2>4
<1>6. CASE api = "evport"
  <2>1. PICK S \in SUBSET Watched(l) :
          \E p \in SetToSeqs(S), m \in [S -> SUBSET Event] : q = [i \in DOMAIN p |-> <<p[i], m[p[i]]>>]
    BY <1>6 DEF Reports, port_getn, InAnyOrder
  <2>2. S \in SUBSET Fd
    BY <1>4
  <2>3. PICK p \in SetToSeqs(S), m \in [S -> SUBSET Event] : Pairs(p, m)
    BY <2>1
  <2> HIDE DEF Pairs
  <2>4. /\ q \in Seq(Fd \X (SUBSET Event))
        /\ \A i \in 1 .. Len(q) : /\ q[i][1] \in S
                                 /\ \A j \in 1 .. Len(q) : i # j => q[i][1] # q[j][1]
    BY <1>2, <2>2, <2>3
  <2> QED BY <1>3, <1>6, <2>4
<1>7. CASE api = "select" /\ q # <<>>
  <2> DEFINE S == {f \in Fd : l.mask[f] # {} /\ f <= l.maxfd}
  <2>1. \A f \in Watched(l) : l.open[f] # None
    BY <1>7 DEF Reports, select
  <2>2. PICK p \in SetToSeqs(S), n \in [Fd -> SUBSET Event] :
          q = [i \in DOMAIN p |-> <<p[i], n[p[i]]>>]
    <3>1. PICK p \in UpToMaxfd(l), n \in ReadySets(l) : q = [i \in DOMAIN p |-> <<p[i], n[p[i]]>>]
      BY <1>7, <2>1 DEF Reports, select
    <3>2. p \in SetToSeqs(S) /\ n \in [Fd -> SUBSET Event]
      BY DEF UpToMaxfd, ReadySets
    <3> QED BY <3>1, <3>2
  <2>3. \A f \in S : ~l.crossed => l.open[f] \in Conn
    BY <1>1, <1>3, <1>7, <2>1 DEF Agree, Watched
  <2> DEFINE m == [f \in S |-> n[f]]
  <2>4. m \in [S -> SUBSET Event] /\ S \in SUBSET Fd
    OBVIOUS
  <2>5. \A i \in DOMAIN p : p[i] \in S
    <3>1. IsFiniteSet(S)
      BY FilesAssumption, FS_Subset
    <3> QED BY <3>1, SeqsOf
  <2>6. Pairs(p, m)
    BY <2>2, <2>5
  <2> HIDE DEF S, m, Pairs
  <2>7. /\ q \in Seq(Fd \X (SUBSET Event))
        /\ \A i \in 1 .. Len(q) : /\ q[i][1] \in S
                                 /\ \A j \in 1 .. Len(q) : i # j => q[i][1] # q[j][1]
    BY <1>2, <2>2, <2>4, <2>6
  <2> QED BY <2>3, <2>7
<1>8. CASE api = "kqueue"
  <2>1. PICK S \in SUBSET (Fd \X (SUBSET Event)) : q \in SetToSeqs(S)
    BY <1>8 DEF Reports, kevent
  <2>2. IsFiniteSet(Fd \X (SUBSET Event))
    <3>1. IsFiniteSet(Event)
      <4>1. Event = {Read} \cup {Write}
        BY DEF Event
      <4> QED BY <4>1, FS_Singleton, FS_AddElement
    <3> QED BY <3>1, FilesAssumption, FS_SUBSET, FS_Product
  <2>3. IsFiniteSet(S)
    BY <2>1, <2>2, FS_Subset
  <2>4. q \in Seq(S)
    BY <2>1, <2>3, SeqsOf
  <2>5. q \in Seq(Fd \X (SUBSET Event))
    BY <2>1, <2>4
  <2> QED BY <1>8, <2>5
<1>9. CASE q = <<>>
  BY <1>9
<1> QED BY <1>5, <1>6, <1>7, <1>8, <1>9, FilesAssumption

-----------------------------------------------------------------------------
(* The steps of the loop.                                                  *)
LEMMA NextLoop ==
  ASSUME api' = api, Sound(loop', begun')
  PROVE  /\ loop' \in Loops /\ LoopInv(loop)'
         /\ OwnedIn(loop, Conn)' /\ OwnSocket(loop, begun)'
BY DEF Sound, LoopInv, Agree, HighestIsKnown, Registered, OwnedIn, OwnSocket

LEMMA IInvInit == Init => IInv
<1> SUFFICES ASSUME Init PROVE IInv
  OBVIOUS
<1> USE DEF Init
<1>1. loop \in Loops
  BY FilesAssumption DEF Loops, Handler
<1>2. TypeOK
  <2>1. /\ api \in Apis /\ timers = [c \in Conn |-> 0] /\ begun = {} /\ fired = <<>>
        /\ rfired = FALSE /\ turn = Read
    OBVIOUS
  <2> HIDE DEF Init
  <2>2. timers \in [Conn -> Nat]
    BY <2>1
  <2>3. fired \in Seq(Fd \X (SUBSET Event))
    BY <2>1
  <2> QED BY <1>1, <2>1, <2>2, <2>3 DEF TypeOK, Event
<1>3. Agree(loop) /\ HighestIsKnown(loop) /\ Registered(loop)
  BY DEF Agree, HighestIsKnown, Registered
<1>4. OwnedIn(loop, Conn) /\ OwnSocket(loop, begun) /\ BegunInv
  BY FilesAssumption DEF OwnedIn, OwnSocket, BegunInv
<1>5. FiredInv
  BY DEF FiredInv
<1> QED BY <1>1, <1>2, <1>3, <1>4, <1>5 DEF IInv, LoopInv

(* The descriptor whose events are being handled, and its connection.      *)
LEMMA Acting ==
  ASSUME IInv, fired # <<>>, NEW f, f = fired[1][1], loop.mask[f] # {}, NEW c, c = loop.data[f]
  PROVE  /\ f \in Fd /\ c \in begun /\ begun \in SUBSET Conn /\ loop.fd[c] = f
         /\ Sound(loop, begun)
<1>1. fired \in Seq(Fd \X (SUBSET Event)) /\ begun \in SUBSET Conn /\ loop \in Loops
  BY DEF IInv, TypeOK
<1>2. f \in Fd
  BY <1>1
<1>3. c \in Conn /\ loop.fd[c] = f
  BY <1>2 DEF IInv, LoopInv, Registered
<1>4. c \in begun
  BY <1>2, <1>3, FilesAssumption DEF IInv, BegunInv, NoFd
<1> QED BY <1>1, <1>2, <1>3, <1>4 DEF IInv, Sound

(* The rest of what was reported is as it was after its head is handled.   *)
LEMMA HeadRead ==
  ASSUME IInv, fired # <<>>, turn = Read, api' = api, fired' = fired, turn' = Write,
         Keeps(loop, loop', fired[1][1]),
         (api # "kqueue" /\ ~loop'.crossed /\ fired[1][1] \in loop'.fresh) =>
           \/ loop'.mask[fired[1][1]] = {}
           \/ rfired' /\ loop'.wproc[fired[1][1]] = loop'.rproc[fired[1][1]]
  PROVE  FiredInv'
<1> SUFFICES ASSUME api # "kqueue", ~loop'.crossed, ~loop.crossed PROVE FiredInv'
  BY DEF FiredInv, Keeps
<1>1. /\ fired \in Seq(Fd \X (SUBSET Event)) /\ Write # Read /\ 1 \in 1 .. Len(fired)
  BY DEF IInv, TypeOK, Read, Write
<1>2. \A i \in 1 .. Len(fired) :
        /\ fired[i][1] \in Fd /\ loop.open[fired[i][1]] \in Conn /\ fired[i][1] \notin loop.fresh
        /\ \A j \in 1 .. Len(fired) : i # j => fired[i][1] # fired[j][1]
  BY <1>1 DEF IInv, FiredInv
<1>3. \A i \in 1 .. Len(fired) : i > 1 =>
        loop'.open[fired[i][1]] \in Conn /\ fired[i][1] \notin loop'.fresh
  BY <1>1, <1>2 DEF Keeps
<1> QED BY <1>1, <1>2, <1>3 DEF FiredInv

LEMMA HeadDone ==
  ASSUME IInv, fired # <<>>, api' = api, Following, Keeps(loop, loop', fired[1][1])
  PROVE  /\ FiredInv' /\ fired' \in Seq(Fd \X (SUBSET Event)) /\ turn' \in Event /\ rfired' \in BOOLEAN
<1>1. /\ fired \in Seq(Fd \X (SUBSET Event)) /\ Write # Read /\ 1 \in 1 .. Len(fired)
  BY DEF IInv, TypeOK, Read, Write
<1>2. /\ fired' = Tail(fired) /\ turn' = Read /\ rfired' = FALSE
  BY DEF Following
<1>3. /\ fired' \in Seq(Fd \X (SUBSET Event)) /\ Len(fired') = Len(fired) - 1
      /\ \A i \in 1 .. Len(fired') : i + 1 \in 1 .. Len(fired) /\ fired'[i] = fired[i + 1]
  BY <1>1, <1>2
<1>4. FiredInv'
  <2> SUFFICES ASSUME api # "kqueue", ~loop'.crossed, ~loop.crossed PROVE FiredInv'
    BY DEF FiredInv, Keeps
  <2>1. \A i \in 1 .. Len(fired) :
          /\ fired[i][1] \in Fd
          /\ i > 1 => loop.open[fired[i][1]] \in Conn /\ fired[i][1] \notin loop.fresh
          /\ \A j \in 1 .. Len(fired) : i # j => fired[i][1] # fired[j][1]
    BY <1>1 DEF IInv, FiredInv
  <2>2. \A i \in 1 .. Len(fired) : i > 1 =>
          loop'.open[fired[i][1]] \in Conn /\ fired[i][1] \notin loop'.fresh
    BY <1>1, <2>1 DEF Keeps
  <2>3. \A i \in 1 .. Len(fired') :
          /\ loop'.open[fired'[i][1]] \in Conn /\ fired'[i][1] \notin loop'.fresh
          /\ \A j \in 1 .. Len(fired') : i # j => fired'[i][1] # fired'[j][1]
    <3> SUFFICES ASSUME NEW i \in 1 .. Len(fired')
                 PROVE  /\ loop'.open[fired'[i][1]] \in Conn /\ fired'[i][1] \notin loop'.fresh
                        /\ \A j \in 1 .. Len(fired') : i # j => fired'[i][1] # fired'[j][1]
      OBVIOUS
    <3>1. i + 1 \in 1 .. Len(fired) /\ i + 1 > 1 /\ fired'[i] = fired[i + 1]
      BY <1>3
    <3>2. ASSUME NEW j \in 1 .. Len(fired'), i # j PROVE fired'[i][1] # fired'[j][1]
      <4>1. j + 1 \in 1 .. Len(fired) /\ fired'[j] = fired[j + 1] /\ i + 1 # j + 1
        BY <1>3, <3>2
      <4> QED BY <2>1, <3>1, <4>1
    <3>3. loop'.open[fired[i + 1][1]] \in Conn /\ fired[i + 1][1] \notin loop'.fresh
      BY <2>2, <3>1
    <3> QED BY <3>1, <3>2, <3>3
  <2> QED BY <1>1, <1>2, <2>3 DEF FiredInv
<1> QED BY <1>2, <1>3, <1>4 DEF Event

LEMMA PollStep == IInv /\ Poll => IInv'
<1> SUFFICES ASSUME IInv, Poll PROVE IInv'
  OBVIOUS
<1> DEFINE again  == Reassociated([loop EXCEPT !.fresh = {}])
           closed == \E f \in Fd : loop.pending[f] # {} /\ loop.open[f] = None
           got(q) == IF api = "evport" THEN {q[i][1] : i \in DOMAIN q} ELSE {}
<1>1. PICK q \in Reports(again) :
        /\ fired' = q
        /\ loop' = [again EXCEPT !.pending  = [f \in Fd |-> IF f \in got(q) THEN again.interest[f] ELSE {}],
                                 !.interest = [f \in Fd |-> IF f \in got(q) THEN {} ELSE @[f]]]
  BY DEF Poll
<1>2. /\ loop \in Loops /\ Agree(loop) /\ HighestIsKnown(loop) /\ Registered(loop)
      /\ OwnedIn(loop, Conn) /\ OwnSocket(loop, begun) /\ api \in Apis
  BY DEF IInv, LoopInv, TypeOK
<1>3. /\ again \in Loops /\ again.fresh = {} /\ again.pending = [f \in Fd |-> {}]
      /\ again.interest = [f \in Fd |-> IF loop.pending[f] # {} THEN loop.pending[f] ELSE loop.interest[f]]
      /\ again.open = loop.open /\ again.mask = loop.mask /\ again.rproc = loop.rproc
      /\ again.wproc = loop.wproc /\ again.data = loop.data /\ again.maxfd = loop.maxfd
      /\ again.fd = loop.fd /\ again.failed = loop.failed /\ again.strays = loop.strays
      /\ again.crossed = loop.crossed /\ again.aborted = (loop.aborted \/ closed)
  <2> DEFINE l == [loop EXCEPT !.fresh = {}]
  <2>1. /\ l \in Loops /\ l.fresh = {} /\ l.pending = loop.pending /\ l.interest = loop.interest
        /\ l.open = loop.open /\ l.mask = loop.mask /\ l.rproc = loop.rproc
        /\ l.wproc = loop.wproc /\ l.data = loop.data /\ l.maxfd = loop.maxfd
        /\ l.fd = loop.fd /\ l.failed = loop.failed /\ l.strays = loop.strays
        /\ l.crossed = loop.crossed /\ l.aborted = loop.aborted
    BY <1>2 DEF Loops
  <2>2. again = [l EXCEPT !.pending  = [f \in Fd |-> {}],
                          !.interest = [f \in Fd |-> IF loop.pending[f] # {} THEN loop.pending[f] ELSE loop.interest[f]],
                          !.aborted  = (loop.aborted \/ closed)]
    <3> HIDE DEF l
    <3>1. again = Reassociated(l)
      BY DEF l
    <3> QED BY <2>1, <3>1 DEF Reassociated, Loops
  <2>3. (loop.aborted \/ closed) \in BOOLEAN
    OBVIOUS
  <2> HIDE DEF l, again, closed
  <2> QED BY <1>2, <2>1, <2>2, <2>3 DEF Loops
<1> HIDE DEF again
<1>4. Agree(again)
  <2> SUFFICES ASSUME ~loop.crossed PROVE Agree(again)
    BY <1>3 DEF Agree
  <2>1. ~closed
    BY <1>2 DEF Agree
  <2> HIDE DEF closed
  <2> QED BY <1>2, <1>3, <2>1 DEF Agree
<1> HIDE DEF closed
<1>5. LoopInv(again)
  BY <1>2, <1>3, <1>4 DEF LoopInv, HighestIsKnown, Registered
<1>6. /\ loop' \in Loops /\ loop'.fresh = {}
      /\ loop'.pending = [f \in Fd |-> IF f \in got(q) THEN again.interest[f] ELSE {}]
      /\ loop'.interest = [f \in Fd |-> IF f \in got(q) THEN {} ELSE again.interest[f]]
      /\ loop'.open = loop.open /\ loop'.mask = loop.mask /\ loop'.rproc = loop.rproc
      /\ loop'.wproc = loop.wproc /\ loop'.data = loop.data /\ loop'.maxfd = loop.maxfd
      /\ loop'.fd = loop.fd /\ loop'.failed = loop.failed /\ loop'.strays = loop.strays
      /\ loop'.crossed = loop.crossed /\ loop'.aborted = again.aborted
  <2> HIDE DEF got
  <2> QED BY <1>1, <1>3 DEF Loops
<1>7. api # "evport" => got(q) = {}
  OBVIOUS
<1> HIDE DEF got
<1>8. Agree(loop')
  BY <1>3, <1>4, <1>6, <1>7 DEF Agree
<1>9. Sound(loop', begun')
  <2>1. begun' = begun
    BY DEF Poll
  <2> QED BY <1>2, <1>6, <1>8, <2>1 DEF Sound, LoopInv, HighestIsKnown, Registered, OwnedIn, OwnSocket
<1>10. /\ fired' \in Seq(Fd \X (SUBSET Event))
       /\ api # "kqueue" /\ ~again.crossed =>
             \A i \in 1 .. Len(fired') : /\ again.open[fired'[i][1]] \in Conn
                                       /\ \A j \in 1 .. Len(fired') : i # j => fired'[i][1] # fired'[j][1]
  BY <1>1, <1>2, <1>5, Reported
<1>11. turn' = Read /\ rfired' = FALSE /\ UNCHANGED <<api, timers, begun>> /\ Read # Write
  BY DEF Poll, Read, Write
<1>12. FiredInv'
  BY <1>3, <1>6, <1>10, <1>11 DEF FiredInv
<1>13. TypeOK' /\ BegunInv'
  <2>1. turn' \in Event /\ rfired' \in BOOLEAN
    BY <1>11 DEF Event
  <2>2. api' = api /\ timers' = timers /\ begun' = begun
    BY <1>11
  <2>3. TypeOK'
    BY <1>6, <1>10, <2>1, <2>2 DEF IInv, TypeOK
  <2>4. BegunInv'
    BY <1>6, <2>2 DEF IInv, BegunInv
  <2> QED BY <2>3, <2>4
<1> QED BY <1>9, <1>11, <1>12, <1>13, NextLoop DEF IInv

(* What a handler of the connection c of the head does keeps the rest.     *)
LEMMA HandlerStep ==
  ASSUME IInv, NEW f, NEW c \in begun, Handled(loop, loop', f, c, begun),
         UNCHANGED <<api, timers, begun>>
  PROVE  /\ loop' \in Loops /\ LoopInv(loop)' /\ OwnedIn(loop, Conn)' /\ OwnSocket(loop, begun)'
         /\ BegunInv' /\ Keeps(loop, loop', f)
<1>1. Sound(loop', begun') /\ OthersKeep(loop, loop', c) /\ Keeps(loop, loop', f)
  BY DEF Handled
<1>2. BegunInv'
  BY <1>1 DEF IInv, BegunInv, OthersKeep
<1> QED BY <1>1, <1>2, NextLoop

LEMMA ReadStep == IInv /\ ReadEvent => IInv'
<1> SUFFICES ASSUME IInv, ReadEvent PROVE IInv'
  OBVIOUS
<1> DEFINE f == fired[1][1]
           c == loop.data[f]
<1>1. /\ fired # <<>> /\ turn = Read /\ Read \in loop.mask[f] /\ Read # Write
      /\ loop' \in CASE loop.rproc[f] = "socket_connected" -> Connected(loop, f, c)
                     [] loop.rproc[f] = "socket_readable"  -> Readable(loop, c)
      /\ rfired' = TRUE /\ turn' = Write /\ UNCHANGED <<api, timers, begun, fired>>
  BY DEF ReadEvent, ReadRuns, Valid, Read, Write
<1> HIDE DEF c
<1>2. /\ f \in Fd /\ c \in begun /\ begun \in SUBSET Conn /\ loop.fd[c] = f
      /\ Sound(loop, begun) /\ api \in Apis
  BY <1>1, Acting DEF c, IInv, TypeOK
<1>3. loop.rproc[f] \in {"socket_connected", "socket_readable"}
  BY <1>1, <1>2 DEF IInv, LoopInv, Registered
<1>4. Handled(loop, loop', f, c, begun)
  <2>1. CASE loop.rproc[f] = "socket_connected"
    BY <1>1, <1>2, <2>1, HandlersDo
  <2>2. CASE loop.rproc[f] = "socket_readable"
    BY <1>1, <1>2, <2>2, HandlersDo
  <2> QED BY <1>3, <2>1, <2>2
<1>5. /\ loop' \in Loops /\ LoopInv(loop)' /\ OwnedIn(loop, Conn)' /\ OwnSocket(loop, begun)'
      /\ BegunInv' /\ Keeps(loop, loop', f)
  BY <1>1, <1>2, <1>4, HandlerStep
<1>6. (api # "kqueue" /\ ~loop'.crossed /\ f \in loop'.fresh) =>
         loop'.mask[f] = {} \/ (rfired' /\ loop'.wproc[f] = loop'.rproc[f])
  <2>1. fired \in Seq(Fd \X (SUBSET Event))
    BY DEF IInv, TypeOK
  <2>2. 1 \in 1 .. Len(fired)
    BY <1>1, <2>1
  <2>3. api # "kqueue" /\ ~loop.crossed => f \notin loop.fresh
    BY <1>1, <2>2 DEF IInv, FiredInv
  <2> QED BY <1>1, <1>4, <1>5, <2>3 DEF Handled, Alike, Keeps
<1>7. FiredInv'
  BY <1>1, <1>5, <1>6, HeadRead
<1>8. TypeOK'
  BY <1>1, <1>5 DEF IInv, TypeOK, Event
<1> QED BY <1>5, <1>7, <1>8 DEF IInv

LEMMA NoReadStep == IInv /\ NoReadEvent => IInv'
<1> SUFFICES ASSUME IInv, NoReadEvent PROVE IInv'
  OBVIOUS
<1>1. /\ fired # <<>> /\ turn = Read /\ turn' = Write /\ rfired' = FALSE
      /\ UNCHANGED <<api, loop, timers, begun, fired>>
  BY DEF NoReadEvent
<1>2. Sound(loop', begun') /\ Keeps(loop, loop', fired[1][1])
  BY <1>1 DEF IInv, Sound, Keeps
<1>3. /\ fired \in Seq(Fd \X (SUBSET Event)) /\ 1 \in 1 .. Len(fired)
  BY <1>1 DEF IInv, TypeOK
<1>4. api # "kqueue" /\ ~loop.crossed => fired[1][1] \notin loop.fresh
  BY <1>1, <1>3 DEF IInv, FiredInv
<1>5. FiredInv'
  BY <1>1, <1>2, <1>4, HeadRead
<1>6. TypeOK' /\ BegunInv'
  BY <1>1 DEF IInv, TypeOK, BegunInv, Event
<1> QED BY <1>1, <1>2, <1>5, <1>6, NextLoop DEF IInv

LEMMA WriteStep == IInv /\ WriteEvent => IInv'
<1> SUFFICES ASSUME IInv, WriteEvent PROVE IInv'
  OBVIOUS
<1> DEFINE f == fired[1][1]
           c == loop.data[f]
<1>1. /\ fired # <<>> /\ Write \in loop.mask[f]
      /\ loop' \in CASE loop.wproc[f] = "socket_connected" -> Connected(loop, f, c)
                     [] loop.wproc[f] = "socket_writeable" -> Writeable(loop, f, c)
      /\ Following /\ UNCHANGED <<api, timers, begun>>
  BY DEF WriteEvent, WriteRuns, Valid
<1> HIDE DEF c
<1>2. /\ f \in Fd /\ c \in begun /\ begun \in SUBSET Conn /\ loop.fd[c] = f
      /\ Sound(loop, begun) /\ api \in Apis
  BY <1>1, Acting DEF c, IInv, TypeOK
<1>3. loop.wproc[f] \in {"socket_connected", "socket_writeable"}
  BY <1>1, <1>2 DEF IInv, LoopInv, Registered
<1>4. Handled(loop, loop', f, c, begun)
  <2>1. CASE loop.wproc[f] = "socket_connected"
    BY <1>1, <1>2, <2>1, HandlersDo
  <2>2. CASE loop.wproc[f] = "socket_writeable"
    BY <1>1, <1>2, <2>2, HandlersDo
  <2> QED BY <1>3, <2>1, <2>2
<1>5. /\ loop' \in Loops /\ LoopInv(loop)' /\ OwnedIn(loop, Conn)' /\ OwnSocket(loop, begun)'
      /\ BegunInv' /\ Keeps(loop, loop', f)
  BY <1>1, <1>2, <1>4, HandlerStep
<1>6. /\ FiredInv' /\ fired' \in Seq(Fd \X (SUBSET Event)) /\ turn' \in Event /\ rfired' \in BOOLEAN
  BY <1>1, <1>5, HeadDone
<1>7. TypeOK'
  BY <1>1, <1>5, <1>6 DEF IInv, TypeOK
<1> QED BY <1>5, <1>6, <1>7 DEF IInv

LEMMA DelayStep == IInv /\ Delay => IInv'
<1> SUFFICES ASSUME IInv, Delay PROVE IInv'
  OBVIOUS
<1> DEFINE f == fired[1][1]
           c == loop.data[f]
<1>1. /\ fired # <<>> /\ Write \in loop.mask[f]
      /\ loop' = DeleteFileEvent(loop, f, {Write})
      /\ timers' = [timers EXCEPT ![c] = @ + 1]
      /\ Following /\ UNCHANGED <<api, begun>>
  BY DEF Delay, WriteRuns, Valid
<1> HIDE DEF c
<1>2. f \in Fd /\ c \in begun /\ begun \in SUBSET Conn /\ Sound(loop, begun) /\ api \in Apis
  BY <1>1, Acting DEF c, IInv, TypeOK
<1>3. /\ Sound(loop', begun') /\ loop'.open = loop.open /\ loop'.fd = loop.fd
      /\ loop'.fresh = loop.fresh /\ (loop.crossed => loop'.crossed)
  <2>1. /\ Sound(loop', begun) /\ loop'.open = loop.open /\ loop'.fd = loop.fd
        /\ loop'.fresh = loop.fresh /\ (loop.crossed => loop'.crossed)
    <3>1. f \in Fd /\ Sound(loop, begun) /\ api \in Apis /\ Removes(loop, f, loop')
      BY <1>1, <1>2 DEF Removes
    <3> HIDE DEF f
    <3> QED BY <3>1, Unregisters
  <2> QED BY <1>1, <2>1
<1>4. Keeps(loop, loop', f)
  BY <1>3 DEF Keeps
<1>5. /\ FiredInv' /\ fired' \in Seq(Fd \X (SUBSET Event)) /\ turn' \in Event /\ rfired' \in BOOLEAN
  BY <1>1, <1>4, HeadDone
<1>6. BegunInv'
  BY <1>1, <1>2, <1>3 DEF IInv, TypeOK, BegunInv
<1>7. loop' \in Loops
  BY <1>3 DEF Sound, LoopInv
<1>8. TypeOK'
  BY <1>1, <1>2, <1>5, <1>7 DEF IInv, TypeOK
<1> QED BY <1>1, <1>3, <1>5, <1>6, <1>8, NextLoop DEF IInv

LEMMA NoWriteStep == IInv /\ NoWriteEvent => IInv'
<1> SUFFICES ASSUME IInv, NoWriteEvent PROVE IInv'
  OBVIOUS
<1>1. fired # <<>> /\ Following /\ UNCHANGED <<api, loop, timers, begun>>
  BY DEF NoWriteEvent
<1>2. Sound(loop', begun') /\ Keeps(loop, loop', fired[1][1])
  BY <1>1 DEF IInv, Sound, Keeps
<1>3. /\ FiredInv' /\ fired' \in Seq(Fd \X (SUBSET Event)) /\ turn' \in Event /\ rfired' \in BOOLEAN
  BY <1>1, <1>2, HeadDone
<1>4. TypeOK' /\ BegunInv'
  BY <1>1, <1>3 DEF IInv, TypeOK, BegunInv
<1> QED BY <1>1, <1>2, <1>3, <1>4, NextLoop DEF IInv

(* Between two polls nothing is left of what was reported.                 *)
LEMMA NothingFired ==
  ASSUME IInv, fired = <<>>, UNCHANGED <<fired, rfired, turn>>
  PROVE  FiredInv'
BY DEF FiredInv

LEMMA BeginStep ==
  ASSUME IInv, NEW c \in Conn, delayed_initial_connect(c)
  PROVE  IInv'
<1>1. /\ fired = <<>> /\ c \notin begun /\ begun' = begun \cup {c} /\ loop' \in ConnectSocket(loop, c)
      /\ UNCHANGED <<api, timers, fired, rfired, turn>>
  BY DEF delayed_initial_connect
<1>2. /\ loop.fd[c] = NoFd /\ begun \in SUBSET (Conn \ {c})
      /\ LoopInv(loop) /\ OwnSocket(loop, begun) /\ api \in Apis
  BY <1>1 DEF IInv, TypeOK, BegunInv
<1>3. OwnedIn(loop, Conn \ {c})
  <2>1. NoFd \notin Fd
    BY FilesAssumption DEF NoFd
  <2> QED BY <1>2, <2>1 DEF IInv, OwnedIn
<1>4. Sound(loop', begun \cup {c}) /\ OthersKeep(loop, loop', c)
  BY <1>1, <1>2, <1>3, ConnectsAnew DEF Anew
<1>5. Sound(loop', begun')
  BY <1>1, <1>4
<1>6. BegunInv'
  BY <1>1, <1>4 DEF IInv, BegunInv, OthersKeep
<1>7. loop' \in Loops
  BY <1>4 DEF Sound, LoopInv
<1>8. TypeOK' /\ FiredInv'
  BY <1>1, <1>7, NothingFired DEF IInv, TypeOK
<1> QED BY <1>1, <1>5, <1>6, <1>8, NextLoop DEF IInv

LEMMA DelayRequestStep ==
  ASSUME IInv, NEW c \in Conn, delay_request(c)
  PROVE  IInv'
<1>1. /\ fired = <<>> /\ timers[c] > 0 /\ timers' = [timers EXCEPT ![c] = @ - 1]
      /\ loop' = CreateFileEvent(loop, loop.fd[c], {Write}, "socket_writeable", c)
      /\ UNCHANGED <<api, begun, fired, rfired, turn>>
  BY DEF delay_request
<1>2. /\ loop \in Loops /\ Sound(loop, begun) /\ api \in Apis
      /\ timers \in [Conn -> Nat] /\ begun \subseteq Conn
  BY DEF IInv, Sound, TypeOK
<1>3. loop.fd[c] \in Fd \cup {NoFd} /\ Write \in Event /\ Write # Read
  BY <1>2 DEF Loops, Event, Read, Write
<1>4. Sound(loop', begun) /\ loop'.fd = loop.fd
  <2>0. c \in begun
    BY <1>1, <1>2 DEF IInv, BegunInv
  <2> DEFINE f == loop.fd[c]
  <2>1. /\ f \in Fd \cup {NoFd} /\ (f # NoFd => loop.fd[c] = f)
        /\ Adds(loop, f, Write, "socket_writeable", c, loop')
    BY <1>1, <1>3 DEF Adds
  <2> HIDE DEF f
  <2> QED BY <1>2, <1>3, <2>0, <2>1, Registers
<1>5. timers[c] # 0 /\ timers' \in [Conn -> Nat] /\ \A d \in Conn \ {c} : timers'[d] = timers[d]
  BY <1>1, <1>2
<1>6. c \in begun
  BY <1>5 DEF IInv, BegunInv
<1>7. BegunInv'
  BY <1>1, <1>4, <1>5, <1>6 DEF IInv, BegunInv
<1>8. loop' \in Loops
  BY <1>4 DEF Sound, LoopInv
<1>9. TypeOK' /\ FiredInv'
  BY <1>1, <1>5, <1>8, NothingFired DEF IInv, TypeOK
<1> QED BY <1>1, <1>4, <1>7, <1>9, NextLoop DEF IInv

-----------------------------------------------------------------------------
(* The steps of the other threads.  They close what they opened, or a      *)
(* number they are left with, which may be a socket of this thread.        *)
LEMMA OtherOpensStep == IInv /\ OtherOpens => IInv'
<1> SUFFICES ASSUME IInv, OtherOpens PROVE IInv'
  OBVIOUS
<1>1. /\ loop' \in OpenedByOther(loop) /\ LoopInv(loop) /\ OwnedIn(loop, Conn)
      /\ OwnSocket(loop, begun) /\ begun \subseteq Conn /\ loop \in Loops
      /\ UNCHANGED <<api, timers, begun, fired, rfired, turn>>
  BY DEF OtherOpens, IInv, TypeOK
<1>2. PICK f \in Fd : LoopInv(loop') /\ Taken(loop, loop', f)
  BY <1>1, TakenByOther
<1>3. OwnedIn(loop', Conn) /\ OwnSocket(loop', begun) /\ Keeps(loop, loop', NoFd)
  BY <1>1, <1>2, TakenIsSound
<1>4. Sound(loop', begun')
  BY <1>1, <1>2, <1>3 DEF Sound
<1>5. FiredInv'
  <2> SUFFICES ASSUME api # "kqueue", ~loop'.crossed PROVE FiredInv'
    BY <1>1 DEF FiredInv
  <2>1. /\ ~loop.crossed /\ loop.mask[f] = {} /\ loop'.mask = loop.mask
        /\ loop'.wproc = loop.wproc /\ loop'.rproc = loop.rproc
        /\ loop'.fresh = loop.fresh \cup {f}
    BY <1>2 DEF Taken
  <2>2. \A g \in Fd : loop.open[g] \in Conn => loop'.open[g] \in Conn /\ (g \in loop'.fresh => g \in loop.fresh)
    BY <1>3, FilesAssumption DEF Keeps, NoFd
  <2>3. /\ fired \in Seq(Fd \X (SUBSET Event))
        /\ \A i \in 1 .. Len(fired) : fired[i][1] \in Fd
    BY DEF IInv, TypeOK
  <2>4. FiredInv
    BY DEF IInv
  <2> QED BY <1>1, <2>1, <2>2, <2>3, <2>4 DEF FiredInv
<1>6. TypeOK' /\ BegunInv'
  <2>1. loop' \in Loops /\ loop'.fd = loop.fd
    BY <1>2 DEF LoopInv, Taken
  <2> QED BY <1>1, <2>1 DEF IInv, TypeOK, BegunInv
<1> QED BY <1>1, <1>4, <1>5, <1>6, NextLoop DEF IInv

LEMMA OtherClosesStep ==
  ASSUME IInv, NEW f \in Fd, OtherCloses(f)
  PROVE  IInv'
<1> DEFINE b    == loop.crossed \/ loop.open[f] \in Conn
           shut == [Closed(loop, f) EXCEPT !.crossed = b]
<1>1. /\ LoopInv(loop) /\ OwnedIn(loop, Conn) /\ OwnSocket(loop, begun) /\ begun \subseteq Conn
      /\ loop \in Loops /\ Agree(loop) /\ BegunInv /\ FiredInv
      /\ UNCHANGED <<api, timers, begun, fired, rfired, turn>>
  BY DEF OtherCloses, IInv, TypeOK, LoopInv
<1>2. loop.open[f] = Other \/ (f \in loop.strays /\ loop.open[f] \in Conn)
  BY <1>1 DEF OtherCloses, Loops
<1>3. loop' = shut \/ loop' = [shut EXCEPT !.failed = @ \cup {Other}, !.strays = @ \cup {f}]
  <2>1. Closed(loop, f).crossed = loop.crossed
    BY <1>1 DEF Closed, Loops
  <2>2. shut = [Closed(loop, f) EXCEPT !.crossed = @ \/ loop.open[f] \in Conn]
    BY <2>1
  <2> QED BY <2>2 DEF OtherCloses, ClosedByOther
<1>4. b \in BOOLEAN /\ (loop.crossed => b)
  OBVIOUS
<1>5. Shut(loop, shut, f) /\ shut.crossed = b
  <2>1. ~b => loop.mask[f] = {}
    BY <1>1, <1>2 DEF Agree
  <2> HIDE DEF b
  <2> QED BY <1>1, <1>4, <2>1, ClosedIs
<1>6. /\ LoopInv(shut) /\ shut.crossed = b /\ shut.mask = loop.mask
      /\ \A g \in Fd : shut.open[g] = IF g = f THEN None ELSE loop.open[g]
      /\ shut.fd = loop.fd /\ shut.fresh = loop.fresh /\ shut.failed = loop.failed
      /\ shut.strays = loop.strays /\ shut.rproc = loop.rproc /\ shut.wproc = loop.wproc
  BY <1>5 DEF Shut
<1> HIDE DEF shut
<1>7. /\ LoopInv(loop') /\ loop'.crossed = b /\ loop'.mask = loop.mask
      /\ loop'.open = shut.open
      /\ loop'.fd = loop.fd /\ loop'.fresh = loop.fresh
      /\ loop'.rproc = loop.rproc /\ loop'.wproc = loop.wproc
      /\ loop'.failed = {} => loop.failed = {} /\ loop'.strays = loop.strays
  <2>1. CASE loop' = shut
    BY <1>6, <2>1
  <2>2. CASE loop' = [shut EXCEPT !.failed = @ \cup {Other}, !.strays = @ \cup {f}]
    <3>1. shut \in Loops /\ Agree(shut) /\ HighestIsKnown(shut) /\ Registered(shut)
      BY <1>6 DEF LoopInv
    <3>2. /\ loop' \in Loops /\ Other \in loop'.failed /\ shut.failed \subseteq loop'.failed
          /\ loop'.crossed = shut.crossed /\ loop'.mask = shut.mask /\ loop'.open = shut.open
          /\ loop'.fd = shut.fd /\ loop'.fresh = shut.fresh
          /\ loop'.rproc = shut.rproc /\ loop'.wproc = shut.wproc
          /\ loop'.interest = shut.interest /\ loop'.pending = shut.pending
          /\ loop'.aborted = shut.aborted /\ loop'.maxfd = shut.maxfd /\ loop'.data = shut.data
      BY <2>2, <3>1 DEF Loops
    <3>3. Agree(loop')
      BY <3>1, <3>2 DEF Agree
    <3>4. LoopInv(loop')
      BY <3>1, <3>2, <3>3 DEF LoopInv, HighestIsKnown, Registered
    <3> QED BY <1>6, <3>2, <3>4
  <2> QED BY <1>3, <2>1, <2>2
<1>8. \A g \in Fd : loop'.open[g] = IF g = f THEN None ELSE loop.open[g]
  BY <1>6, <1>7
<1>9. OwnedIn(loop', Conn)
  BY <1>1, <1>7, <1>8, FilesAssumption DEF OwnedIn
<1>10. OwnSocket(loop', begun)
  <2> SUFFICES ASSUME loop'.failed = {}
               PROVE  /\ ~loop'.crossed /\ loop'.strays = {}
                      /\ \A c \in begun : loop'.fd[c] # NoFd /\ loop'.open[loop'.fd[c]] = c
    BY DEF OwnSocket
  <2>1. /\ ~loop.crossed /\ loop.strays = {} /\ loop'.strays = {}
        /\ \A c \in begun : loop.fd[c] # NoFd /\ loop.open[loop.fd[c]] = c
    BY <1>1, <1>7 DEF OwnSocket
  <2>2. loop.open[f] = Other /\ Other \notin Conn
    BY <1>2, <2>1, FilesAssumption
  <2>3. ~loop'.crossed
    BY <1>7, <2>1, <2>2
  <2>4. ASSUME NEW c \in begun PROVE loop'.fd[c] # NoFd /\ loop'.open[loop'.fd[c]] = c
    <3>1. loop.fd[c] \in Fd \cup {NoFd} /\ c \in Conn
      BY <1>1 DEF Loops
    <3>2. loop.fd[c] \in Fd /\ loop.fd[c] # f
      BY <2>1, <2>2, <3>1
    <3> QED BY <1>7, <1>8, <2>1, <3>2
  <2> QED BY <2>1, <2>3, <2>4
<1>11. Sound(loop', begun')
  BY <1>1, <1>7, <1>9, <1>10 DEF Sound
<1>12. FiredInv'
  <2> SUFFICES ASSUME api # "kqueue", ~loop'.crossed PROVE FiredInv'
    BY <1>1 DEF FiredInv
  <2>1. ~loop.crossed /\ loop.open[f] \notin Conn
    BY <1>7
  <2>2. \A g \in Fd : loop.open[g] \in Conn => loop'.open[g] \in Conn
    BY <1>8, <2>1
  <2>3. /\ fired \in Seq(Fd \X (SUBSET Event))
        /\ \A i \in 1 .. Len(fired) : fired[i][1] \in Fd
    BY DEF IInv, TypeOK
  <2> QED BY <1>1, <1>7, <2>1, <2>2, <2>3 DEF FiredInv
<1>13. TypeOK' /\ BegunInv'
  <2>1. loop' \in Loops
    BY <1>7 DEF LoopInv
  <2> QED BY <1>1, <1>7, <2>1 DEF IInv, TypeOK, BegunInv
<1> QED BY <1>1, <1>11, <1>12, <1>13, NextLoop DEF IInv

(* The records of the loop, of the poller and of the connections agree in  *)
(* every state, whatever is reported, closed, reused, delayed or refused,  *)
(* and whatever the other threads do.                                      *)
THEOREM Invariance == Spec => []IInv
<1>1. IInv /\ [Next]_vars => IInv'
  <2> SUFFICES ASSUME IInv, [Next]_vars PROVE IInv'
    OBVIOUS
  <2>1. CASE UNCHANGED vars
    <3>1. UNCHANGED <<api, loop, timers, begun, fired, rfired, turn>>
      BY <2>1 DEF vars
    <3> QED BY <3>1 DEF IInv, TypeOK, LoopInv, Agree, HighestIsKnown, Registered, OwnedIn, OwnSocket,
                        BegunInv, FiredInv
  <2> QED BY <2>1, PollStep, ReadStep, NoReadStep, WriteStep, DelayStep, NoWriteStep, BeginStep,
             DelayRequestStep, OtherOpensStep, OtherClosesStep DEF Next, Own
<1> QED BY <1>1, IInvInit, PTL DEF Spec

-----------------------------------------------------------------------------
(* The records keep their types.                                           *)
THEOREM TypeCorrect == Spec => []TypeOK
<1>1. IInv => TypeOK
  BY DEF IInv
<1> QED BY <1>1, Invariance, PTL

(* maxfd is the highest number registered and every descriptor the thread  *)
(* has opened is some connection's.  Until two threads use a number, its   *)
(* mask is what its poller watches and event ports never abort; and they   *)
(* do so only after a connect has failed at once.  For any number of       *)
(* connections, of descriptors of other threads and of failures, and each  *)
(* of the pollers.                                                         *)
THEOREM Agreement == Spec => []RecordsAgree
<1>1. IInv => RecordsAgree
  <2> SUFFICES ASSUME IInv PROVE RecordsAgree
    OBVIOUS
  <2>1. /\ loop \in Loops /\ Agree(loop) /\ HighestIsKnown(loop) /\ OwnedIn(loop, Conn)
        /\ loop.crossed => loop.failed # {}
    BY DEF IInv, LoopInv, OwnSocket
  <2> DEFINE S == {f \in Fd : loop.mask[f] # {}}
  <2>2. loop.maxfd \in S \cup {NoFd} /\ \A g \in S : g <= loop.maxfd
    BY <2>1 DEF HighestIsKnown, Loops
  <2>3. S \subseteq Fd
    OBVIOUS
  <2> HIDE DEF S
  <2>4. Highest(S) = loop.maxfd
    BY <2>2, <2>3, HighestIs
  <2> QED BY <2>1, <2>4 DEF RecordsAgree, Agree, OwnedIn, S
<1> QED BY <1>1, Invariance, PTL

(* No handler and no time event acts on the socket of another connection   *)
(* or thread, as long as every connect of the process went through.        *)
THEOREM OwnSockets == Spec => []ActsOnOwnSocket
<1>1. IInv => ActsOnOwnSocket
  BY DEF IInv, LoopInv, Registered, OwnSocket, ActsOnOwnSocket
<1> QED BY <1>1, Invariance, PTL

(* What was reported of a descriptor is not delivered to the socket that   *)
(* takes its number before the next poll, but by kqueue, until two threads *)
(* use a number.                                                           *)
THEOREM NoStaleEvent == Spec => StaleIsSkipped
<1>1. IInv => (ReadRuns \/ WriteRuns =>
                 fired[1][1] \notin loop.fresh \/ api = "kqueue" \/ loop.crossed)
  <2> SUFFICES ASSUME IInv, ReadRuns \/ WriteRuns, api # "kqueue", ~loop.crossed, fired[1][1] \in loop.fresh
               PROVE  FALSE
    OBVIOUS
  <2>1. fired \in Seq(Fd \X (SUBSET Event)) /\ fired # <<>> /\ Read # Write
    BY DEF IInv, TypeOK, ReadRuns, WriteRuns, Read, Write
  <2>2. 1 \in 1 .. Len(fired)
    BY <2>1
  <2>3. turn # Read
    BY <2>2 DEF IInv, FiredInv
  <2>4. /\ turn = Write /\ loop.mask[fired[1][1]] # {}
        /\ ~rfired \/ loop.wproc[fired[1][1]] # loop.rproc[fired[1][1]]
    BY <2>3 DEF ReadRuns, WriteRuns, Valid
  <2> QED BY <2>1, <2>4 DEF IInv, FiredInv
<1> QED BY <1>1, Invariance, PTL DEF StaleIsSkipped
=============================================================================
