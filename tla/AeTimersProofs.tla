---------------------------- MODULE AeTimersProofs ----------------------------
(***************************************************************************)
(* Proofs about AeTimers, for every length of a second, of the run and of  *)
(* the delays, for every set of amounts the clock may be set by, and       *)
(* however long handlers take: no time event runs early or is passed over  *)
(* for long, and the loop stops in time.                                   *)
(*                                                                         *)
(* The operators that read the clock come first: each comparison of        *)
(* seconds and milliseconds is one of numbers.  Then those on the list of  *)
(* time events, and then the steps.                                        *)
(***************************************************************************)
EXTENDS AeTimers, NumberLemmas, SequenceTheorems, TLAPS

Moment == [sec : Nat, ms : 0 .. Second - 1]

LEMMA Positive == Second \in Nat \ {0}
BY TimersAssumption

LEMMA Sums ==
  ASSUME NEW a \in Int, NEW b \in Int, NEW c \in Int, NEW d \in Int, a < b + d, b <= c
  PROVE  a < c + d
OBVIOUS

(* A number of seconds and milliseconds is ordered as its parts are.       *)
LEMMA Multiples ==
  ASSUME NEW c \in Nat \ {0}, NEW a \in Nat, NEW b \in Nat
  PROVE  /\ a * c \in Nat
         /\ a > b => a * c >= b * c + c
         /\ (a + b) * c = a * c + b * c
         /\ a >= b => (a - b) * c = a * c - b * c
OBVIOUS

LEMMA Lexicographic ==
  ASSUME NEW c \in Nat \ {0}, NEW a \in Nat, NEW b \in Nat,
         NEW m \in 0 .. c - 1, NEW n \in 0 .. c - 1
  PROVE  a * c + m >= b * c + n <=> a > b \/ (a = b /\ m >= n)
<1> DEFINE p == a * c
           q == b * c
<1>1. /\ p \in Nat /\ q \in Nat
      /\ a > b => p >= q + c
      /\ b > a => q >= p + c
      /\ a = b => p = q
  BY Multiples
<1> HIDE DEF p, q
<1>2. p + m >= q + n <=> a > b \/ (a = b /\ m >= n)
  BY <1>1
<1> QED BY <1>2 DEF p, q

(* The clock in seconds and milliseconds.                                  *)
LEMMA ClockIs ==
  ASSUME NEW t \in Nat
  PROVE  /\ Sec(t) \in Nat /\ Ms(t) \in 0 .. Second - 1
         /\ t = Sec(t) * Second + Ms(t)
<1>1. Sec(t) \in Nat
  BY Positive DEF Sec
<1>2. Ms(t) \in 0 .. Second - 1
  BY Positive, ModRange DEF Ms
<1>3. t = Sec(t) * Second + Ms(t)
  BY Positive, DivMod DEF Sec, Ms
<1> QED BY <1>1, <1>2, <1>3

(* The seconds of a clock that goes forward do so, and a clock that shows  *)
(* no earlier second is behind by less than one.                           *)
LEMMA Seconds ==
  ASSUME NEW t \in Nat, NEW u \in Nat
  PROVE  /\ t <= u => Sec(t) <= Sec(u)
         /\ Sec(t) <= Sec(u) => t < u + Second
<1> DEFINE p == Sec(t) * Second
           q == Sec(u) * Second
<1>1. /\ Sec(t) \in Nat /\ Ms(t) \in 0 .. Second - 1 /\ t = p + Ms(t)
      /\ Sec(u) \in Nat /\ Ms(u) \in 0 .. Second - 1 /\ u = q + Ms(u)
  BY ClockIs
<1>2. /\ p \in Nat /\ q \in Nat
      /\ Sec(t) > Sec(u) => p >= q + Second
      /\ Sec(u) > Sec(t) => q >= p + Second
      /\ Sec(u) = Sec(t) => q = p
  BY <1>1, Positive, Multiples
<1> HIDE DEF p, q
<1> QED BY <1>1, <1>2, Positive

LEMMA MomentIs ==
  ASSUME NEW e, e.when \in Moment
  PROVE  At(e) \in Nat /\ e.when.sec \in Nat /\ e.when.ms \in 0 .. Second - 1
<1>1. e.when.sec \in Nat /\ e.when.ms \in 0 .. Second - 1
  BY DEF Moment
<1>2. e.when.sec * Second \in Nat
  BY <1>1, Positive, Multiples
<1> QED BY <1>1, <1>2, Positive DEF At

LEMMA DueIs ==
  ASSUME NEW e, e.when \in Moment, clock \in Nat
  PROVE  Due(e) <=> clock >= At(e)
<1>1. e.when.sec \in Nat /\ e.when.ms \in 0 .. Second - 1
  BY MomentIs
<1>2. Sec(clock) \in Nat /\ Ms(clock) \in 0 .. Second - 1 /\ clock = Sec(clock) * Second + Ms(clock)
  BY ClockIs
<1>3. Sec(clock) * Second + Ms(clock) >= e.when.sec * Second + e.when.ms
        <=> Sec(clock) > e.when.sec \/ (Sec(clock) = e.when.sec /\ Ms(clock) >= e.when.ms)
  BY <1>1, <1>2, Positive, Lexicographic
<1>4. clock >= At(e) <=> Sec(clock) * Second + Ms(clock) >= e.when.sec * Second + e.when.ms
  BY <1>2 DEF At
<1> QED BY <1>3, <1>4 DEF Due

LEMMA BeforeIs ==
  ASSUME NEW d, NEW e, d.when \in Moment, e.when \in Moment
  PROVE  Before(d, e) <=> At(d) < At(e)
<1>1. /\ e.when.sec \in Nat /\ e.when.ms \in 0 .. Second - 1
      /\ d.when.sec \in Nat /\ d.when.ms \in 0 .. Second - 1
      /\ At(d) \in Nat /\ At(e) \in Nat
  BY MomentIs
<1>2. At(d) >= At(e) <=> d.when.sec > e.when.sec \/ (d.when.sec = e.when.sec /\ d.when.ms >= e.when.ms)
  BY <1>1, Positive, Lexicographic DEF At
<1> QED BY <1>1, <1>2, Positive DEF Before

(* aeAddMillisecondsToNow is what its name says.                           *)
LEMMA AddsToNow ==
  ASSUME clock \in Nat, NEW d \in Nat
  PROVE  /\ AddMillisecondsToNow(d) \in Moment
         /\ AddMillisecondsToNow(d).sec * Second + AddMillisecondsToNow(d).ms = clock + d
<1> DEFINE ms == Ms(clock) + Ms(d)
           carry == IF ms >= Second THEN 1 ELSE 0
           rest == IF ms >= Second THEN ms - Second ELSE ms
           a == Sec(clock)
           b == Sec(d)
<1>1. AddMillisecondsToNow(d) = [sec |-> a + b + carry, ms |-> rest]
  BY DEF AddMillisecondsToNow, Sec, Ms
<1>2. /\ a \in Nat /\ Ms(clock) \in 0 .. Second - 1 /\ clock = a * Second + Ms(clock)
      /\ b \in Nat /\ Ms(d) \in 0 .. Second - 1 /\ d = b * Second + Ms(d)
  BY ClockIs
<1>3. /\ carry \in Nat /\ rest \in 0 .. Second - 1
      /\ carry * Second + rest = ms
  BY <1>2, Positive
<1> HIDE DEF carry, rest, a, b
<1>4. (a + b + carry) * Second = a * Second + b * Second + carry * Second
  <2>1. (a + b) * Second = a * Second + b * Second
    BY <1>2, Positive, Multiples
  <2>2. a + b \in Nat
    BY <1>2
  <2>3. ((a + b) + carry) * Second = (a + b) * Second + carry * Second
    BY <1>3, <2>2, Positive, Multiples
  <2> QED BY <2>1, <2>3
<1>5. a + b + carry \in Nat
  BY <1>2, <1>3
<1>6. a * Second \in Nat /\ b * Second \in Nat /\ carry * Second \in Nat
  BY <1>2, <1>3, Positive, Multiples
<1>7. (a + b + carry) * Second + rest = clock + d
  <2> DEFINE x == a * Second
             y == b * Second
             z == carry * Second
  <2>1. /\ x \in Nat /\ y \in Nat /\ z \in Nat
        /\ clock = x + Ms(clock) /\ d = y + Ms(d) /\ z + rest = Ms(clock) + Ms(d)
    BY <1>2, <1>3, <1>6
  <2> HIDE DEF x, y, z
  <2>2. x + y + z + rest = clock + d
    BY <2>1, <1>2, <1>3, Positive
  <2> QED BY <1>4, <2>2 DEF x, y, z
<1> QED BY <1>1, <1>3, <1>5, <1>7 DEF Moment

-----------------------------------------------------------------------------
(* Lists of time events.                                                   *)
LEMMA PutFirst ==
  ASSUME NEW S, NEW s \in Seq(S), NEW x \in S
  PROVE  /\ <<x>> \o s \in Seq(S)
         /\ DOMAIN (<<x>> \o s) = 1 .. Len(s) + 1
         /\ (<<x>> \o s)[1] = x
         /\ \A i \in DOMAIN s : i + 1 \in DOMAIN (<<x>> \o s) /\ (<<x>> \o s)[i + 1] = s[i]
         /\ \A i \in DOMAIN (<<x>> \o s) : i # 1 => i - 1 \in DOMAIN s /\ (<<x>> \o s)[i] = s[i - 1]
<1> DEFINE t == <<x>> \o s
<1>1. <<x>> \in Seq(S) /\ Len(<<x>>) = 1 /\ <<x>>[1] = x
  OBVIOUS
<1>2. /\ t \in Seq(S) /\ Len(t) = Len(s) + 1
      /\ \A i \in 1 .. Len(s) + 1 : t[i] = IF i <= 1 THEN <<x>>[i] ELSE s[i - 1]
  BY <1>1, ConcatProperties
<1>3. Len(s) \in Nat /\ DOMAIN s = 1 .. Len(s) /\ DOMAIN t = 1 .. Len(t)
  BY <1>2, LenProperties
<1> HIDE DEF t
<1>4. DOMAIN t = 1 .. Len(s) + 1 /\ t[1] = x
  BY <1>1, <1>2, <1>3
<1>5. \A i \in DOMAIN s : i + 1 \in DOMAIN t /\ t[i + 1] = s[i]
  BY <1>2, <1>3
<1>6. \A i \in DOMAIN t : i # 1 => i - 1 \in DOMAIN s /\ t[i] = s[i - 1]
  BY <1>2, <1>3
<1> QED BY <1>2, <1>4, <1>5, <1>6 DEF t

LEMMA TakenOut ==
  ASSUME NEW S, NEW s \in Seq(S), NEW k \in DOMAIN s
  PROVE  /\ RemoveAt(s, k) \in Seq(S)
         /\ DOMAIN RemoveAt(s, k) = 1 .. Len(s) - 1
         /\ \A i \in 1 .. Len(s) - 1 : RemoveAt(s, k)[i] = IF i < k THEN s[i] ELSE s[i + 1]
<1> DEFINE t == SubSeq(s, 1, k - 1)
           u == SubSeq(s, k + 1, Len(s))
<1>1. Len(s) \in Nat /\ DOMAIN s = 1 .. Len(s) /\ k \in 1 .. Len(s)
  BY LenProperties
<1>2. /\ t \in Seq(S) /\ Len(t) = k - 1
      /\ \A i \in 1 .. k - 1 : t[i] = s[i]
  BY <1>1, ElementOfSeq, SubSeqProperties
<1>3. /\ u \in Seq(S) /\ Len(u) = Len(s) - k
      /\ \A i \in 1 .. Len(s) - k : u[i] = s[k + i]
  <2>1. \A i \in k + 1 .. Len(s) : s[i] \in S
    BY <1>1, ElementOfSeq
  <2>2. /\ u \in Seq(S)
        /\ Len(u) = IF k + 1 <= Len(s) THEN Len(s) - (k + 1) + 1 ELSE 0
        /\ \A i \in 1 .. Len(s) - (k + 1) + 1 : u[i] = s[(k + 1) + i - 1]
    BY <1>1, <2>1, SubSeqProperties
  <2> HIDE DEF u
  <2> QED BY <1>1, <2>2, SMTT(30)
<1> HIDE DEF t, u
<1>4. /\ t \o u \in Seq(S) /\ Len(t \o u) = Len(s) - 1
      /\ \A i \in 1 .. Len(s) - 1 : (t \o u)[i] = IF i <= k - 1 THEN t[i] ELSE u[i - (k - 1)]
  <2>1. Len(t) + Len(u) = Len(s) - 1
    BY <1>1, <1>2, <1>3
  <2>2. /\ t \o u \in Seq(S) /\ Len(t \o u) = Len(t) + Len(u)
        /\ \A i \in 1 .. Len(t) + Len(u) : (t \o u)[i] = IF i <= Len(t) THEN t[i] ELSE u[i - Len(t)]
    BY <1>2, <1>3, ConcatProperties
  <2> QED BY <1>2, <2>1, <2>2
<1>5. RemoveAt(s, k) = t \o u
  BY DEF RemoveAt, t, u
<1>6. \A i \in 1 .. Len(s) - 1 : (t \o u)[i] = IF i < k THEN s[i] ELSE s[i + 1]
  <2> TAKE i \in 1 .. Len(s) - 1
  <2>1. (t \o u)[i] = IF i <= k - 1 THEN t[i] ELSE u[i - (k - 1)]
    BY <1>4
  <2>2. CASE i < k
    BY <1>1, <1>2, <2>1, <2>2
  <2>3. CASE i >= k
    <3>1. i - (k - 1) \in 1 .. Len(s) - k /\ k + (i - (k - 1)) = i + 1
      BY <1>1, <2>3
    <3>2. u[i - (k - 1)] = s[i + 1]
      BY <1>3, <3>1
    <3> QED BY <1>1, <2>1, <2>3, <3>2
  <2>4. i < k \/ i >= k
    BY <1>1
  <2> QED BY <2>2, <2>3, <2>4
<1>7. DOMAIN (t \o u) = 1 .. Len(s) - 1
  BY <1>4, LenProperties
<1> QED BY <1>4, <1>5, <1>6, <1>7

LEMMA Changed ==
  ASSUME NEW S, NEW s \in Seq(S), NEW k \in DOMAIN s, NEW x \in S
  PROVE  /\ [s EXCEPT ![k] = x] \in Seq(S)
         /\ DOMAIN [s EXCEPT ![k] = x] = DOMAIN s
         /\ \A i \in DOMAIN s : [s EXCEPT ![k] = x][i] = IF i = k THEN x ELSE s[i]
BY ExceptSeq, LenProperties

(* aeSearchNearestTimer finds an event that no other is before.            *)
LEMMA NearestIs ==
  ASSUME events \in Seq(TimeEvent), events # <<>>
  PROVE  /\ \E i \in DOMAIN events : Nearest = events[i]
         /\ \A i \in DOMAIN events : At(Nearest) <= At(events[i])
<1>1. /\ Len(events) \in Nat /\ DOMAIN events = 1 .. Len(events) /\ DOMAIN events # {}
      /\ \A i \in DOMAIN events : events[i] \in TimeEvent
  BY LenProperties, ElementOfSeq, EmptySeq
<1>2. \A i \in DOMAIN events : events[i].when \in Moment /\ At(events[i]) \in Nat
  BY <1>1, MomentIs DEF TimeEvent, Moment
<1> DEFINE T == {At(events[i]) : i \in DOMAIN events}
<1>3. PICK m \in T : \A k \in T : m <= k
  BY <1>1, <1>2, LeastNumber
<1> DEFINE I == {i \in DOMAIN events : At(events[i]) = m}
<1>4. I \subseteq Nat /\ I # {}
  BY <1>1, <1>3
<1>5. PICK n \in I : \A i \in I : n <= i
  BY <1>4, LeastNumber
<1> DEFINE P(i) == \A j \in DOMAIN events :
                     ~Before(events[j], events[i]) /\ (j < i => Before(events[i], events[j]))
<1>6. P(n)
  <2> TAKE j \in DOMAIN events
  <2>1. At(events[n]) <= At(events[j]) /\ (j < n => At(events[j]) # m)
    BY <1>1, <1>3, <1>5
  <2>2. At(events[n]) = m
    BY <1>5
  <2> QED BY <1>2, <2>1, <2>2, BeforeIs
<1> DEFINE c == CHOOSE i \in DOMAIN events : P(i)
<1>7. c \in DOMAIN events /\ P(c)
  BY <1>6
<1>8. Nearest = events[c]
  BY DEF Nearest
<1> HIDE DEF c
<1>9. \A i \in DOMAIN events : At(events[c]) <= At(events[i])
  BY <1>2, <1>7, BeforeIs
<1> QED BY <1>7, <1>8, <1>9

(* The timeout of epoll_wait ends at the nearest event's time, or within a *)
(* second when that has passed.                                            *)
LEMMA TimeoutIs ==
  ASSUME clock \in Nat, Nearest.when \in Moment
  PROVE  /\ Timeout \in Nat
         /\ clock + Timeout = At(Nearest) \/ Timeout < Second
<1> DEFINE n == Nearest
           s == n.when.sec
           m == n.when.ms
           S == Sec(clock)
           M == Ms(clock)
           b == IF m < M THEN 1 ELSE 0
           r == IF m < M THEN m - M + Second ELSE m - M
<1>1. /\ s \in Nat /\ m \in 0 .. Second - 1 /\ At(n) = s * Second + m
      /\ S \in Nat /\ M \in 0 .. Second - 1 /\ clock = S * Second + M
  BY ClockIs, MomentIs DEF At
<1>2. b \in {0, 1} /\ r \in 0 .. Second - 1 /\ r = m - M + b * Second
  BY <1>1, Positive
<1>3. Timeout = Larger(s - S - b, 0) * Second + r
  <2> HIDE DEF s, m, S, M
  <2>1. Timeout = Larger(s - S - b, 0) * Second + Larger(m - M + (IF m < M THEN Second ELSE 0), 0)
    BY DEF Timeout, s, m, S, M
  <2>2. Larger(m - M + (IF m < M THEN Second ELSE 0), 0) = r
    BY <1>1, Positive DEF Larger
  <2> QED BY <2>1, <2>2
<1> HIDE DEF s, m, S, M, b, r, n
<1>4. CASE s - S - b <= 0
  <2>1. Larger(s - S - b, 0) = 0
    BY <1>1, <1>2, <1>4 DEF Larger
  <2> QED BY <1>2, <1>3, <2>1, Positive
<1>5. CASE s - S - b > 0
  <2> DEFINE q == s - S - b
  <2>1. Larger(q, 0) = q /\ q \in Nat /\ s = S + (b + q)
    BY <1>1, <1>2, <1>5 DEF Larger
  <2>2. q * Second \in Nat /\ s * Second = S * Second + (b * Second + q * Second)
    <3> HIDE DEF q
    <3>1. b \in Nat /\ b + q \in Nat
      BY <1>2, <2>1
    <3>2. (b + q) * Second = b * Second + q * Second /\ q * Second \in Nat
      BY <2>1, <3>1, Positive, Multiples
    <3>3. (S + (b + q)) * Second = S * Second + (b + q) * Second
      BY <1>1, <3>1, Positive, Multiples
    <3> QED BY <2>1, <3>2, <3>3
  <2> DEFINE x == s * Second
             y == S * Second
             z == q * Second
             w == b * Second
  <2>3. /\ x \in Nat /\ y \in Nat /\ z \in Nat /\ w \in Nat
        /\ x = y + (w + z) /\ clock = y + M /\ At(n) = x + m /\ r = m - M + w
        /\ Timeout = z + r
    BY <1>1, <1>2, <1>3, <2>1, <2>2, Positive, Multiples
  <2> HIDE DEF x, y, z, w, q
  <2>4. clock + Timeout = At(n) /\ Timeout \in Nat
    BY <1>1, <1>2, <2>3, Positive
  <2> QED BY <2>4 DEF n
<1> QED BY <1>1, <1>2, <1>4, <1>5

-----------------------------------------------------------------------------
(* What the type invariant says of the variables and of each event.        *)
LEMMA Types ==
  ASSUME TypeOK, ClockInv
  PROVE  /\ clock \in Nat /\ start \in Nat /\ up \in Nat /\ jump \in Int /\ busy \in Nat
         /\ lastUp \in Nat /\ gap \in Nat /\ lastTime \in Nat /\ sleep \in Nat
         /\ nextId \in Nat /\ maxId \in Int /\ te \in Nat \ {0}
         /\ clock = start + up + jump
         /\ jump # 0 => clock >= Second
         /\ Len(events) \in Nat /\ DOMAIN events = 1 .. Len(events)
         /\ \A i \in DOMAIN events :
              /\ events[i] \in TimeEvent /\ events[i].when \in Moment
              /\ events[i].id \in Nat /\ events[i].due \in Nat /\ At(events[i]) \in Nat
<1>1. /\ clock \in Nat /\ start \in Nat /\ up \in Nat /\ busy \in Nat
      /\ lastUp \in Nat /\ gap \in Nat /\ lastTime \in Nat /\ sleep \in Nat
      /\ nextId \in Nat /\ maxId \in Int /\ te \in Nat \ {0}
      /\ clock = start + up + jump /\ Epoch <= start /\ jump \in Jumps \cup {0}
      /\ events \in Seq(TimeEvent)
  BY TimersAssumption DEF TypeOK, ClockInv
<1>2. jump \in Int /\ (jump # 0 => Epoch + jump >= Second) /\ Epoch \in Nat
  BY <1>1, TimersAssumption
<1>3. jump # 0 => clock >= Second
  BY <1>1, <1>2, Positive
<1>4. /\ Len(events) \in Nat /\ DOMAIN events = 1 .. Len(events)
      /\ \A i \in DOMAIN events : events[i] \in TimeEvent
  BY <1>1, LenProperties, ElementOfSeq
<1>5. \A i \in DOMAIN events :
        /\ events[i].when \in Moment /\ At(events[i]) \in Nat
        /\ events[i].id \in Nat /\ events[i].due \in Nat
  BY <1>4, MomentIs DEF TimeEvent, Moment
<1> QED BY <1>1, <1>2, <1>3, <1>4, <1>5

(* An event that is armed now: by the clock as it is, and not for the past. *)
Fresh(e) ==
  e \in TimeEvent /\ At(e) = start + e.due + jump /\ up <= e.due

LEMMA ArmedIs ==
  ASSUME TypeOK, ClockInv, NEW e \in TimeEvent, NEW d \in Nat
  PROVE  /\ Armed(e, d).id = e.id /\ Armed(e, d).kind = e.kind
         /\ Fresh(Armed(e, d)) /\ At(Armed(e, d)) = clock + d
<1>0. clock \in Nat /\ start \in Nat /\ up \in Nat /\ jump \in Int /\ nextId \in Nat /\ clock = start + up + jump
  BY Types
<1> DEFINE w == AddMillisecondsToNow(d)
<1>1. w \in Moment /\ w.sec * Second + w.ms = clock + d
  BY <1>0, AddsToNow
<1>2. Armed(e, d) = [e EXCEPT !.when = w, !.due = up + d]
  BY DEF Armed
<1> HIDE DEF w
<1>3. /\ Armed(e, d) \in TimeEvent
      /\ Armed(e, d).id = e.id /\ Armed(e, d).kind = e.kind
      /\ Armed(e, d).when = w /\ Armed(e, d).due = up + d
  <2> DEFINE m == [e EXCEPT !.when = w]
  <2>1. up + d \in Nat
    BY <1>0
  <2>2. m \in TimeEvent /\ m.id = e.id /\ m.kind = e.kind /\ m.when = w
    BY <1>1 DEF TimeEvent, Moment
  <2>3. Armed(e, d) = [m EXCEPT !.due = up + d]
    BY <1>2
  <2> HIDE DEF m
  <2> QED BY <2>1, <2>2, <2>3 DEF TimeEvent
<1>4. At(Armed(e, d)) = clock + d
  BY <1>1, <1>3 DEF At
<1>5. clock + d = start + (up + d) + jump /\ up <= up + d
  BY <1>0
<1> QED BY <1>3, <1>4, <1>5 DEF Fresh

LEMMA EventIs ==
  ASSUME TypeOK, ClockInv, NEW k \in Kind, NEW d \in Nat
  PROVE  /\ Event(k, d).id = nextId /\ Event(k, d).kind = k
         /\ Fresh(Event(k, d))
<1>0. clock \in Nat /\ start \in Nat /\ up \in Nat /\ jump \in Int /\ nextId \in Nat /\ clock = start + up + jump
  BY Types
<1> DEFINE w == AddMillisecondsToNow(d)
<1>1. w \in Moment /\ w.sec * Second + w.ms = clock + d
  BY <1>0, AddsToNow
<1>2. Event(k, d) = [id |-> nextId, kind |-> k, when |-> w, due |-> up + d]
  BY DEF Event
<1> HIDE DEF w
<1>3. Event(k, d) \in TimeEvent
  BY <1>0, <1>1, <1>2 DEF TimeEvent, Moment
<1>4. At(Event(k, d)) = clock + d
  BY <1>1, <1>2 DEF At
<1>5. Event(k, d).due = up + d
  BY <1>2
<1>6. clock + d = start + (up + d) + jump /\ up <= up + d
  BY <1>0
<1> QED BY <1>2, <1>3, <1>4, <1>5, <1>6 DEF Fresh

(* The list keeps its order: the younger an event, the nearer the head.    *)
Listed(s, n) ==
  /\ s \in Seq(TimeEvent)
  /\ \A i \in DOMAIN s : s[i].id < n /\ \A j \in DOMAIN s : i < j => s[i].id > s[j].id

LEMMA ListedFirst ==
  ASSUME NEW n \in Nat, NEW s, Listed(s, n), NEW x \in TimeEvent, x.id = n
  PROVE  Listed(<<x>> \o s, n + 1)
<1> DEFINE t == <<x>> \o s
<1>1. s \in Seq(TimeEvent)
  BY DEF Listed
<1>2. /\ t \in Seq(TimeEvent) /\ DOMAIN t = 1 .. Len(s) + 1 /\ t[1] = x
      /\ \A i \in DOMAIN t : i # 1 => i - 1 \in DOMAIN s /\ t[i] = s[i - 1]
  BY <1>1, PutFirst
<1>3. /\ Len(s) \in Nat /\ DOMAIN s = 1 .. Len(s)
      /\ \A i \in DOMAIN s : s[i].id \in Nat
  <2>1. Len(s) \in Nat /\ DOMAIN s = 1 .. Len(s)
    BY <1>1, LenProperties
  <2>2. \A i \in DOMAIN s : s[i] \in TimeEvent
    BY <1>1, <2>1, ElementOfSeq
  <2> QED BY <2>1, <2>2 DEF TimeEvent
<1>4. \A i \in DOMAIN s : s[i].id < n /\ \A j \in DOMAIN s : i < j => s[i].id > s[j].id
  BY DEF Listed
<1> HIDE DEF t
<1>5. ASSUME NEW i \in DOMAIN t
      PROVE  t[i].id < n + 1 /\ \A j \in DOMAIN t : i < j => t[i].id > t[j].id
  <2>1. \A j \in DOMAIN t : i < j => j # 1 /\ j - 1 \in DOMAIN s /\ t[j] = s[j - 1]
    BY <1>2, <1>3
  <2>2. CASE i = 1
    BY <1>2, <1>3, <1>4, <2>1, <2>2
  <2>3. CASE i # 1
    <3>1. i - 1 \in DOMAIN s /\ t[i] = s[i - 1]
      BY <1>2, <2>3
    <3>2. \A j \in DOMAIN t : i < j => i - 1 < j - 1
      BY <1>2, <1>3
    <3>3. \A j \in DOMAIN t : i < j => t[i].id > t[j].id
      BY <1>4, <2>1, <3>1, <3>2
    <3>4. t[i].id < n + 1
      BY <1>3, <1>4, <3>1
    <3> QED BY <3>3, <3>4
  <2> QED BY <2>2, <2>3
<1> QED BY <1>2, <1>5 DEF Listed, t

LEMMA ListedOut ==
  ASSUME NEW n \in Nat, NEW s, Listed(s, n), NEW k \in DOMAIN s
  PROVE  Listed(RemoveAt(s, k), n)
<1> DEFINE t == RemoveAt(s, k)
<1>1. s \in Seq(TimeEvent)
  BY DEF Listed
<1>2. /\ t \in Seq(TimeEvent) /\ DOMAIN t = 1 .. Len(s) - 1
      /\ \A i \in 1 .. Len(s) - 1 : t[i] = IF i < k THEN s[i] ELSE s[i + 1]
  BY <1>1, TakenOut
<1>3. Len(s) \in Nat /\ DOMAIN s = 1 .. Len(s)
  BY <1>1, LenProperties
<1>4. \A i \in DOMAIN s : s[i].id < n /\ \A j \in DOMAIN s : i < j => s[i].id > s[j].id
  BY DEF Listed
<1> HIDE DEF t
<1> DEFINE from(i) == IF i < k THEN i ELSE i + 1
<1>5. /\ \A i \in DOMAIN t : from(i) \in DOMAIN s /\ t[i] = s[from(i)]
      /\ \A i, j \in DOMAIN t : i < j => from(i) < from(j)
  BY <1>2, <1>3
<1> HIDE DEF from
<1>6. \A i \in DOMAIN t : t[i].id < n /\ \A j \in DOMAIN t : i < j => t[i].id > t[j].id
  BY <1>4, <1>5
<1> QED BY <1>2, <1>6 DEF Listed, t

LEMMA ListedChanged ==
  ASSUME NEW n \in Nat, NEW s, Listed(s, n), NEW k \in DOMAIN s,
         NEW x \in TimeEvent, x.id = s[k].id
  PROVE  Listed([s EXCEPT ![k] = x], n)
<1> DEFINE t == [s EXCEPT ![k] = x]
<1>1. s \in Seq(TimeEvent)
  BY DEF Listed
<1>2. /\ t \in Seq(TimeEvent) /\ DOMAIN t = DOMAIN s
      /\ \A i \in DOMAIN s : t[i].id = s[i].id
  BY <1>1, Changed
<1> HIDE DEF t
<1>3. \A i \in DOMAIN t : t[i].id < n /\ \A j \in DOMAIN t : i < j => t[i].id > t[j].id
  BY <1>2 DEF Listed
<1> QED BY <1>2, <1>3 DEF Listed, t

(* Handlers keep the events, arm some, and keep the check that ends the    *)
(* loop.                                                                   *)
Kept(c, e) ==
  /\ c.kind = "check_timeouts" /\ c.id = e.id
  /\ ~stop' => At(c) <= At(e) \/ At(c) <= start + Duration + TimeoutInterval

Handled ==
  /\ nextId' \in Nat /\ Listed(events', nextId')
  /\ \A i \in DOMAIN events' : Fresh(events'[i]) \/ \E j \in DOMAIN events : events'[i] = events[j]
  /\ \A j \in DOMAIN events :
       events[j].kind = "check_timeouts" => \E i \in DOMAIN events' : Kept(events'[i], events[j])

LEMMA ListIs ==
  ASSUME TypeOK
  PROVE  Listed(events, nextId) /\ events \in Seq(TimeEvent) /\ nextId \in Nat
BY DEF TypeOK, Listed

LEMMA ReArmHandled ==
  ASSUME TypeOK, ClockInv, te \in DOMAIN events, NEW d \in Nat, ReArm(d),
         events[te].kind = "check_timeouts" /\ ~stop' => clock + d <= start + Duration + TimeoutInterval
  PROVE  Handled
<1> DEFINE x == Armed(events[te], d)
<1>1. events[te] \in TimeEvent
  BY Types
<1>2. x \in TimeEvent /\ Fresh(x) /\ x.id = events[te].id /\ x.kind = events[te].kind /\ At(x) = clock + d
  BY <1>1, ArmedIs DEF Fresh
<1>3. events' = [events EXCEPT ![te] = x] /\ nextId' = nextId
  BY DEF ReArm
<1> HIDE DEF x
<1>4. Listed(events', nextId') /\ nextId' \in Nat
  BY <1>2, <1>3, ListIs, ListedChanged
<1>5. /\ DOMAIN events' = DOMAIN events
      /\ \A i \in DOMAIN events : events'[i] = IF i = te THEN x ELSE events[i]
  BY <1>2, <1>3, ListIs, Changed
<1>6. ASSUME NEW j \in DOMAIN events, events[j].kind = "check_timeouts"
      PROVE  Kept(events'[j], events[j])
  <2>1. CASE j = te
    BY <1>2, <1>5, <1>6, <2>1 DEF Kept
  <2>2. CASE j # te
    <3>1. events'[j] = events[j] /\ At(events[j]) \in Nat
      BY <1>5, <2>2, Types
    <3>2. At(events[j]) <= At(events[j])
      BY <3>1
    <3> QED BY <1>6, <3>1, <3>2 DEF Kept
  <2> QED BY <2>1, <2>2
<1> QED BY <1>2, <1>4, <1>5, <1>6 DEF Handled

LEMMA NoMoreHandled ==
  ASSUME TypeOK, ClockInv, te \in DOMAIN events, NEW t, t = RemoveAt(events, te),
         events[te].kind # "check_timeouts"
  PROVE  /\ Listed(t, nextId)
         /\ \A i \in DOMAIN t : \E j \in DOMAIN events : t[i] = events[j]
         /\ \A j \in DOMAIN events :
              events[j].kind = "check_timeouts" => \E i \in DOMAIN t : Kept(t[i], events[j])
<1>1. Listed(t, nextId)
  BY ListIs, ListedOut
<1>2. /\ DOMAIN t = 1 .. Len(events) - 1
      /\ \A i \in 1 .. Len(events) - 1 : t[i] = IF i < te THEN events[i] ELSE events[i + 1]
  BY ListIs, TakenOut
<1>3. Len(events) \in Nat /\ DOMAIN events = 1 .. Len(events)
  BY Types
<1>4. \A i \in DOMAIN t : \E j \in DOMAIN events : t[i] = events[j]
  <2> TAKE i \in DOMAIN t
  <2>1. (IF i < te THEN i ELSE i + 1) \in DOMAIN events
    BY <1>2, <1>3
  <2>2. t[i] = events[IF i < te THEN i ELSE i + 1]
    BY <1>2
  <2> QED BY <2>1, <2>2
<1>5. ASSUME NEW j \in DOMAIN events, events[j].kind = "check_timeouts"
      PROVE  \E i \in DOMAIN t : Kept(t[i], events[j])
  <2>1. j # te
    BY <1>5
  <2> DEFINE i == IF j < te THEN j ELSE j - 1
  <2>2. i \in DOMAIN t /\ t[i] = events[j]
    BY <1>2, <1>3, <2>1
  <2>3. At(events[j]) <= At(events[j])
    BY Types
  <2> QED BY <1>5, <2>2, <2>3 DEF Kept
<1> QED BY <1>1, <1>4, <1>5

LEMMA CreateHandled ==
  ASSUME TypeOK, ClockInv, NEW k \in Kind, NEW d \in Nat, NEW t,
         Listed(t, nextId),
         \A i \in DOMAIN t : \E j \in DOMAIN events : t[i] = events[j],
         \A j \in DOMAIN events :
           events[j].kind = "check_timeouts" => \E i \in DOMAIN t : Kept(t[i], events[j]),
         events' = <<Event(k, d)>> \o t, nextId' = nextId + 1
  PROVE  Handled
<1> DEFINE x == Event(k, d)
<1>1. x \in TimeEvent /\ Fresh(x) /\ x.id = nextId
  BY EventIs DEF Fresh
<1>2. events' = <<x>> \o t
  OBVIOUS
<1> HIDE DEF x
<1>3. Listed(events', nextId') /\ nextId' \in Nat
  BY <1>1, <1>2, ListIs, ListedFirst
<1>4. /\ events'[1] = x
      /\ \A i \in DOMAIN t : i + 1 \in DOMAIN events' /\ events'[i + 1] = t[i]
      /\ \A i \in DOMAIN events' : i # 1 => i - 1 \in DOMAIN t /\ events'[i] = t[i - 1]
  BY <1>1, <1>2, PutFirst DEF Listed
<1>5. \A i \in DOMAIN events' : Fresh(events'[i]) \/ \E j \in DOMAIN events : events'[i] = events[j]
  BY <1>1, <1>4
<1>6. \A j \in DOMAIN events :
        events[j].kind = "check_timeouts" => \E i \in DOMAIN events' : Kept(events'[i], events[j])
  BY <1>4
<1> QED BY <1>3, <1>5, <1>6 DEF Handled

(* Every event is Kept if nothing is done.                                 *)
LEMMA SameHandled ==
  ASSUME TypeOK, ClockInv
  PROVE  /\ \A i \in DOMAIN events : \E j \in DOMAIN events : events[i] = events[j]
         /\ \A j \in DOMAIN events :
              events[j].kind = "check_timeouts" => \E i \in DOMAIN events : Kept(events[i], events[j])
<1>1. \A j \in DOMAIN events : At(events[j]) <= At(events[j])
  BY Types
<1> QED BY <1>1 DEF Kept

-----------------------------------------------------------------------------
(* The steps of the invariant.  A handler's step keeps each part.          *)
HandlerStep ==
  /\ IInv /\ Handled
  /\ phase \in {"files", "walk"} /\ stop' \in BOOLEAN /\ (stop => stop')
  /\ te' \in Nat \ {0} /\ (phase = "walk" => te' = 1)
  /\ UNCHANGED <<phase, time, sleep, maxId, lastTime, lastUp, gap>>

LEMMA HandlerKeepsEvents ==
  ASSUME HandlerStep
  PROVE  (ClockInv /\ WhenInv /\ WalkInv /\ SetBackInv)'
<1>1. /\ TypeOK /\ ClockInv /\ WhenInv /\ WalkInv /\ SetBackInv
      /\ phase' = phase /\ clock' = clock /\ up' = up /\ jump' = jump /\ busy' = busy /\ start' = start
      /\ maxId' = maxId /\ lastTime' = lastTime /\ lastUp' = lastUp /\ gap' = gap
      /\ phase = "walk" => te' = 1
      /\ te' \in Nat \ {0}
  BY DEF HandlerStep, IInv, time
<1>2. \A i \in DOMAIN events' : Fresh(events'[i]) \/ \E j \in DOMAIN events : events'[i] = events[j]
  BY DEF HandlerStep, Handled
<1>3. /\ lastUp \in Nat /\ gap \in Nat /\ up \in Nat /\ lastUp <= up
      /\ \A i \in DOMAIN events : events[i].due \in Nat
  BY <1>1, Types DEF ClockInv
<1>4. \A i \in DOMAIN events' :
        \/ /\ events'[i].due \in Nat /\ At(events'[i]) = start + events'[i].due + jump
           /\ lastUp <= events'[i].due /\ lastUp <= events'[i].due + gap
        \/ \E j \in DOMAIN events : events'[i] = events[j]
  BY <1>2, <1>3 DEF Fresh, TimeEvent
<1>5. ClockInv'
  BY <1>1 DEF ClockInv
<1>6. WhenInv'
  BY <1>1, <1>4 DEF WhenInv, Shifted
<1>7. WalkInv'
  <2>1. jump = 0 => \A i \in DOMAIN events' : (phase = "walk" => i < te') => lastUp <= events'[i].due
    <3>1. CASE phase = "walk"
      <4>1. \A i \in DOMAIN events' : ~(i < te')
        <5>1. events' \in Seq(TimeEvent)
          BY DEF HandlerStep, Handled, Listed
        <5>2. DOMAIN events' = 1 .. Len(events') /\ Len(events') \in Nat
          BY <5>1, LenProperties
        <5> QED BY <1>1, <3>1, <5>2
      <4> QED BY <3>1, <4>1
    <3>2. CASE phase # "walk"
      BY <1>1, <1>4, <3>2 DEF WalkInv
    <3> QED BY <3>1, <3>2
  <2>2. phase = "walk" => \A i \in DOMAIN events' : events'[i].id > maxId => lastUp <= events'[i].due
    BY <1>1, <1>4 DEF WalkInv
  <2> QED BY <1>1, <2>1, <2>2 DEF WalkInv
<1>8. SetBackInv'
  <2>1. CASE /\ lastTime = Sec(start + lastUp)
             /\ phase = "walk" => \A i \in DOMAIN events : lastUp <= events[i].due + gap
    <3>1. phase = "walk" => \A i \in DOMAIN events' : lastUp <= events'[i].due + gap
      BY <1>4, <2>1
    <3> QED BY <1>1, <2>1, <3>1 DEF SetBackInv, Sec
  <2>2. CASE jump # 0 /\ -jump < gap + Second
    BY <1>1, <2>2 DEF SetBackInv
  <2>3. CASE jump # 0 /\ \A i \in DOMAIN events : Shifted(events[i])
    <3>1. \A i \in DOMAIN events' :
            At(events'[i]) = start + events'[i].due + jump \/ (events'[i].when.sec = 0 /\ jump # 0)
      BY <1>4, <2>3 DEF Shifted
    <3> QED BY <1>1, <2>3, <3>1 DEF SetBackInv, Shifted
  <2> QED BY <1>1, <2>1, <2>2, <2>3 DEF SetBackInv
<1> QED BY <1>5, <1>6, <1>7, <1>8

LEMMA HandlerKeepsTheCheck ==
  ASSUME HandlerStep
  PROVE  (TypeOK /\ StopInv)'
<1>1. /\ TypeOK /\ ClockInv /\ StopInv
      /\ phase' = phase /\ clock' = clock /\ up' = up /\ jump' = jump /\ busy' = busy /\ start' = start
      /\ maxId' = maxId /\ lastTime' = lastTime /\ lastUp' = lastUp /\ gap' = gap /\ sleep' = sleep
      /\ phase \in {"files", "walk"} /\ stop' \in BOOLEAN /\ (stop => stop')
      /\ te' \in Nat \ {0} /\ (phase = "walk" => te' = 1)
  BY DEF HandlerStep, IInv, time
<1>2. PICK c \in DOMAIN events :
        /\ events[c].kind = "check_timeouts"
        /\ ~stop => /\ At(events[c]) <= start + Duration + TimeoutInterval
                    /\ phase = "walk" => events[c].id <= maxId
  BY <1>1 DEF StopInv
<1>3. PICK n \in DOMAIN events' : Kept(events'[n], events[c])
  BY <1>2 DEF HandlerStep, Handled
<1>4. Listed(events', nextId') /\ nextId' \in Nat
  BY DEF HandlerStep, Handled
<1>5. DOMAIN events' = 1 .. Len(events') /\ Len(events') \in Nat /\ \A i \in DOMAIN events' : events'[i] \in TimeEvent
  BY <1>4, LenProperties, ElementOfSeq DEF Listed
<1>6. TypeOK'
  <2>1. events' # <<>>
    BY <1>5
  <2> QED BY <1>1, <1>4, <2>1 DEF TypeOK, Listed
<1>7. ~stop' => At(events'[n]) <= start + Duration + TimeoutInterval
  <2>1. At(events'[n]) \in Nat /\ At(events[c]) \in Nat /\ start \in Nat
    BY <1>1, <1>5, Types, MomentIs DEF TimeEvent, Moment
  <2>2. Duration \in Nat /\ TimeoutInterval \in Nat
    BY TimersAssumption
  <2> QED BY <1>1, <1>2, <1>3, <2>1, <2>2 DEF Kept
<1>8. phase = "walk" => ~(te' > n)
  BY <1>1, <1>5
<1>9. events'[n].kind = "check_timeouts" /\ events'[n].id = events[c].id
  BY <1>3 DEF Kept
<1>10. StopInv'
  <2>1. /\ (Asleep + (IF phase = "asleep" THEN sleep ELSE 0) < Limit + Second)'
        /\ (stop => phase \in {"files", "walk"})'
        /\ (phase = "poll" => Asleep < Limit)'
    BY <1>1 DEF StopInv, Asleep, Limit, Backward, Larger
  <2>2. ~stop' => /\ At(events'[n]) <= start' + Duration + TimeoutInterval
                  /\ phase' = "walk" => events'[n].id <= maxId' /\ (te' > n => (Asleep < Limit)')
    BY <1>1, <1>2, <1>7, <1>8, <1>9
  <2> QED BY <1>9, <2>1, <2>2 DEF StopInv
<1> QED BY <1>6, <1>10

LEMMA RunStep ==
  ASSUME IInv, Run
  PROVE  HandlerStep /\ te \in DOMAIN events /\ Due(events[te])
<1>1. /\ TypeOK /\ ClockInv /\ te \in Nat \ {0} /\ stop \in BOOLEAN
      /\ Len(events) \in Nat /\ DOMAIN events = 1 .. Len(events)
  BY Types DEF IInv, TypeOK
<1>2. /\ {TimeoutInterval, CalibrateDelay, SampleInterval} \subseteq Nat
      /\ \A d \in 1 .. MaxWait : d \in Nat
      /\ Kind = {"delayed_initial_connect", "calibrate", "check_timeouts", "sample_rate", "delay_request"}
  BY TimersAssumption DEF Kind
<1>3. ASSUME NEW k, Fire(k), Handled, stop' \in BOOLEAN, stop => stop'
      PROVE  HandlerStep /\ te \in DOMAIN events /\ Due(events[te])
  BY <1>1, <1>3 DEF HandlerStep, Fire
<1>4. ASSUME NEW k, Fire(k)
      PROVE  te \in DOMAIN events /\ events[te].kind = k
  BY <1>1, <1>4 DEF Fire
<1>5. ASSUME NEW k, Fire(k), k # "check_timeouts", NoMore
      PROVE  Handled
  <2>1. te \in DOMAIN events /\ events[te].kind # "check_timeouts" /\ nextId' = nextId /\ nextId \in Nat
    BY <1>4, <1>5, <1>1, Types DEF NoMore
  <2>2. events' = RemoveAt(events, te)
    BY <1>5 DEF NoMore
  <2> QED BY <1>1, <2>1, <2>2, NoMoreHandled DEF Handled
<1>6. CASE delayed_initial_connect
  <2>1. Handled
    BY <1>5, <1>6 DEF delayed_initial_connect
  <2> QED BY <1>1, <1>3, <1>6, <2>1 DEF delayed_initial_connect
<1>7. CASE calibrate
  <2>1. Fire("calibrate") /\ stop' = stop
    BY <1>7 DEF calibrate
  <2>2. te \in DOMAIN events /\ events[te].kind # "check_timeouts"
    BY <1>4, <2>1
  <2>3. CASE ReArm(CalibrateDelay)
    <3>1. Handled
      BY <1>1, <1>2, <2>2, <2>3, ReArmHandled
    <3> QED BY <1>1, <1>3, <2>1, <3>1
  <2>4. CASE nextId' = nextId + 1 /\ events' = <<Event("sample_rate", SampleInterval)>> \o RemoveAt(events, te)
    <3> DEFINE t == RemoveAt(events, te)
    <3>1. /\ Listed(t, nextId)
          /\ \A i \in DOMAIN t : \E j \in DOMAIN events : t[i] = events[j]
          /\ \A j \in DOMAIN events :
               events[j].kind = "check_timeouts" => \E i \in DOMAIN t : Kept(t[i], events[j])
      BY <1>1, <2>2, NoMoreHandled
    <3>2. "sample_rate" \in Kind /\ SampleInterval \in Nat
      BY <1>2
    <3> HIDE DEF t
    <3>3. events' = <<Event("sample_rate", SampleInterval)>> \o t /\ nextId' = nextId + 1
      BY <2>4 DEF t
    <3>4. Handled
      BY <1>1, <3>1, <3>2, <3>3, CreateHandled
    <3> QED BY <1>1, <1>3, <2>1, <3>4
  <2> QED BY <1>7, <2>3, <2>4 DEF calibrate
<1>8. CASE sample_rate
  <2>1. Fire("sample_rate") /\ stop' = stop /\ ReArm(SampleInterval)
    BY <1>8 DEF sample_rate
  <2>2. te \in DOMAIN events /\ events[te].kind # "check_timeouts"
    BY <1>4, <2>1
  <2>3. Handled
    BY <1>1, <1>2, <2>1, <2>2, ReArmHandled
  <2> QED BY <1>1, <1>3, <2>1, <2>3
<1>9. CASE check_timeouts
  <2>1. Fire("check_timeouts") /\ ReArm(TimeoutInterval)
    BY <1>9 DEF check_timeouts
  <2>2. stop' \in BOOLEAN /\ (stop => stop') /\ (~stop' => ~(clock >= start + Duration))
    BY <1>1, <1>9 DEF check_timeouts
  <2>3. te \in DOMAIN events
    BY <1>4, <2>1
  <2>4. ~stop' => clock + TimeoutInterval <= start + Duration + TimeoutInterval
    <3>1. clock \in Nat /\ start \in Nat
      BY <1>1, Types
    <3>2. Duration \in Nat /\ TimeoutInterval \in Nat
      BY TimersAssumption
    <3> QED BY <2>2, <3>1, <3>2
  <2>5. Handled
    BY <1>1, <1>2, <2>1, <2>3, <2>4, ReArmHandled
  <2> QED BY <1>3, <2>1, <2>2, <2>5
<1>10. CASE delay_request
  <2>1. Fire("delay_request") /\ stop' = stop
    BY <1>10 DEF delay_request
  <2>2. te \in DOMAIN events /\ events[te].kind # "check_timeouts"
    BY <1>4, <2>1
  <2>3. CASE NoMore
    <3>1. Handled
      BY <1>5, <2>1, <2>3
    <3> QED BY <1>1, <1>3, <2>1, <3>1
  <2>4. CASE \E d \in 1 .. MaxWait : ReArm(d)
    <3>1. PICK d \in Nat : ReArm(d)
      BY <1>2, <2>4
    <3>2. Handled
      BY <1>1, <2>2, <3>1, ReArmHandled
    <3> QED BY <1>1, <1>3, <2>1, <3>2
  <2> QED BY <1>10, <2>3, <2>4 DEF delay_request
<1> QED BY <1>6, <1>7, <1>8, <1>9, <1>10 DEF Run

LEMMA FilesStep ==
  ASSUME IInv, socket_writeable \/ response_complete
  PROVE  HandlerStep
<1>1. TypeOK /\ ClockInv /\ te \in Nat \ {0} /\ stop \in BOOLEAN
  BY Types DEF IInv, TypeOK
<1>2. /\ Listed(events, nextId) /\ nextId \in Nat
      /\ \A i \in DOMAIN events : \E j \in DOMAIN events : events[i] = events[j]
      /\ \A j \in DOMAIN events :
           events[j].kind = "check_timeouts" => \E i \in DOMAIN events : Kept(events[i], events[j])
  BY <1>1, ListIs, SameHandled
<1>3. CASE socket_writeable
  <2>1. PICK d \in 1 .. MaxWait : Create("delay_request", d)
    BY <1>3 DEF socket_writeable
  <2>2. d \in Nat /\ "delay_request" \in Kind
    BY DEF Kind
  <2>3. Handled
    BY <1>1, <1>2, <2>1, <2>2, CreateHandled DEF Create
  <2> QED BY <1>1, <1>3, <2>3 DEF socket_writeable, HandlerStep, walk
<1>4. CASE response_complete
  <2>1. events' = events /\ nextId' = nextId
    BY <1>4 DEF response_complete
  <2>2. Handled
    BY <1>2, <2>1 DEF Handled
  <2> QED BY <1>1, <1>4, <2>2 DEF response_complete, HandlerStep, walk
<1> QED BY <1>3, <1>4

LEMMA Start ==
  ASSUME Init
  PROVE  IInv
<1>1. /\ start \in Nat /\ Epoch <= start /\ Epoch \in Nat
      /\ clock = start /\ up = 0 /\ jump = 0 /\ busy = 0
      /\ lastTime = Sec(start) /\ lastUp = 0 /\ gap = 0
      /\ phase = "poll" /\ stop = FALSE /\ te = 1 /\ maxId = -1 /\ sleep = 0
      /\ nextId = 3
  <2>1. Epoch \in Nat /\ start \in Epoch .. Epoch + Second - 1 /\ Second \in Nat
    BY TimersAssumption, Positive DEF Init
  <2> QED BY <2>1 DEF Init
<1>2. /\ TimeoutInterval \in Nat /\ CalibrateDelay \in Nat /\ Duration \in Nat /\ MaxBusy \in Nat
      /\ TimeoutInterval > 0 /\ Second > 0 /\ Second \in Nat
  BY TimersAssumption
<1> DEFINE a == AddMillisecondsToNow(TimeoutInterval)
           b == AddMillisecondsToNow(CalibrateDelay)
           c == AddMillisecondsToNow(0)
           p == [id |-> 2, kind |-> "check_timeouts", when |-> a, due |-> TimeoutInterval]
           q == [id |-> 1, kind |-> "calibrate", when |-> b, due |-> CalibrateDelay]
           r == [id |-> 0, kind |-> "delayed_initial_connect", when |-> c, due |-> 0]
<1>3. /\ a \in Moment /\ a.sec * Second + a.ms = clock + TimeoutInterval
      /\ b \in Moment /\ b.sec * Second + b.ms = clock + CalibrateDelay
      /\ c \in Moment /\ c.sec * Second + c.ms = clock + 0
  BY <1>1, <1>2, AddsToNow
<1>4. events = <<p, q, r>>
  BY DEF Init
<1> HIDE DEF a, b, c
<1>5. /\ p \in TimeEvent /\ q \in TimeEvent /\ r \in TimeEvent
      /\ At(p) = start + TimeoutInterval /\ At(q) = start + CalibrateDelay /\ At(r) = start + 0
  BY <1>1, <1>2, <1>3 DEF TimeEvent, Moment, Kind, At
<1>6. /\ p.id = 2 /\ q.id = 1 /\ r.id = 0 /\ p.kind = "check_timeouts"
      /\ p.due = TimeoutInterval /\ q.due = CalibrateDelay /\ r.due = 0
  OBVIOUS
<1> HIDE DEF p, q, r
<1>7. /\ DOMAIN events = {1, 2, 3} /\ events \in Seq(TimeEvent) /\ events # <<>>
      /\ events[1] = p /\ events[2] = q /\ events[3] = r
  BY <1>4, <1>5
<1>8. TypeOK
  <2>1. lastTime \in Nat
    BY <1>1, ClockIs
  <2>2. \A i \in DOMAIN events :
          events[i].id < nextId /\ \A j \in DOMAIN events : i < j => events[i].id > events[j].id
    BY <1>1, <1>6, <1>7
  <2>3. {clock, lastTime, nextId, te, sleep, start, up, lastUp, gap} \subseteq Nat
    BY <1>1, <2>1
  <2>4. te > 0 /\ maxId \in Nat \cup {-1} /\ busy \in 0 .. MaxBusy /\ jump \in Jumps \cup {0}
    BY <1>1, <1>2
  <2> QED BY <1>1, <1>7, <2>2, <2>3, <2>4 DEF TypeOK
<1>9. ClockInv /\ WhenInv /\ WalkInv /\ SetBackInv
  BY <1>1, <1>2, <1>5, <1>6, <1>7 DEF ClockInv, WhenInv, WalkInv, SetBackInv
<1>10. StopInv
  BY <1>1, <1>2, <1>5, <1>6, <1>7 DEF StopInv, Asleep, Limit, Backward, Larger
<1> QED BY <1>8, <1>9, <1>10 DEF IInv

LEMMA TickKeeps ==
  ASSUME IInv, Tick
  PROVE  IInv'
<1>1. /\ TypeOK /\ ClockInv /\ WhenInv /\ WalkInv /\ SetBackInv /\ StopInv
      /\ phase' = phase /\ jump' = jump /\ start' = start /\ events' = events /\ nextId' = nextId
      /\ stop' = stop /\ te' = te /\ maxId' = maxId /\ lastTime' = lastTime
      /\ lastUp' = lastUp /\ gap' = gap
      /\ clock' = clock + 1 /\ up' = up + 1
  BY DEF IInv, Tick, walk
<1>2. \/ phase = "asleep" /\ sleep \in Nat /\ sleep > 0 /\ sleep' = sleep - 1 /\ busy' = busy
      \/ phase # "asleep" /\ busy < MaxBusy /\ busy' = busy + 1 /\ sleep' = sleep
  BY <1>1, Types DEF Tick
<1>3. /\ clock \in Nat /\ up \in Nat /\ busy \in Nat /\ sleep \in Nat /\ start \in Nat /\ jump \in Int
      /\ lastUp \in Nat /\ MaxBusy \in Nat /\ busy <= MaxBusy
  BY <1>1, Types, TimersAssumption DEF TypeOK
<1>4. busy' \in 0 .. MaxBusy /\ sleep' \in Nat /\ clock' \in Nat /\ up' \in Nat
  BY <1>1, <1>2, <1>3
<1>5. TypeOK'
  BY <1>1, <1>4 DEF TypeOK
<1>6. ClockInv'
  BY <1>1, <1>2, <1>3 DEF ClockInv
<1>7. (WhenInv /\ WalkInv /\ SetBackInv)'
  BY <1>1 DEF WhenInv, WalkInv, SetBackInv, Shifted, Sec
<1>8. StopInv'
  <2>1. phase # "asleep" => Asleep' = Asleep
    BY <1>1, <1>2, <1>3 DEF Asleep
  <2>2. (Asleep + (IF phase = "asleep" THEN sleep ELSE 0))' = Asleep + (IF phase = "asleep" THEN sleep ELSE 0)
    <3>1. CASE phase = "asleep"
      <4>1. busy' = busy /\ sleep' = sleep - 1 /\ phase' = "asleep"
        BY <1>1, <1>2, <3>1
      <4>2. (up' - busy') + sleep' = (up - busy) + sleep
        BY <1>1, <1>3, <4>1
      <4> QED BY <3>1, <4>1, <4>2 DEF Asleep
    <3>2. CASE phase # "asleep"
      BY <1>1, <2>1, <3>2
    <3> QED BY <3>1, <3>2
  <2>3. Limit' = Limit
    BY <1>1 DEF Limit, Backward
  <2> QED BY <1>1, <2>1, <2>2, <2>3 DEF StopInv
<1> QED BY <1>5, <1>6, <1>7, <1>8 DEF IInv

LEMMA SetClockKeeps ==
  ASSUME IInv, SetClock
  PROVE  IInv'
<1>1. /\ TypeOK /\ ClockInv /\ WhenInv /\ WalkInv /\ SetBackInv /\ StopInv
      /\ phase' = phase /\ start' = start /\ events' = events /\ nextId' = nextId /\ stop' = stop
      /\ te' = te /\ maxId' = maxId /\ lastTime' = lastTime /\ lastUp' = lastUp /\ gap' = gap
      /\ up' = up /\ busy' = busy /\ sleep' = sleep /\ jump = 0
  BY DEF IInv, SetClock, walk
<1>2. PICK j \in Jumps : jump' = j /\ clock' = clock + j
  BY DEF SetClock
<1>3. j \in Int /\ j # 0 /\ Epoch + j >= Second /\ Epoch \in Nat
  BY TimersAssumption
<1>4. clock \in Nat /\ up \in Nat /\ busy \in Nat /\ start \in Nat /\ clock = start + up + 0 /\ Epoch <= start
  BY <1>1, Types DEF ClockInv
<1>5. clock' \in Nat
  BY <1>2, <1>3, <1>4, Positive
<1>6. TypeOK'
  BY <1>1, <1>2, <1>5 DEF TypeOK
<1>7. ClockInv'
  BY <1>1, <1>2, <1>3, <1>4 DEF ClockInv
<1>8. \A i \in DOMAIN events : At(events[i]) = start + events[i].due
  <2>1. \A i \in DOMAIN events : events[i].due \in Nat
    BY <1>1, Types
  <2> QED BY <1>1, <1>4, <2>1 DEF WhenInv, Shifted
<1>9. WhenInv'
  BY <1>1, <1>8 DEF WhenInv
<1>10. WalkInv' /\ SetBackInv'
  <2>1. jump' # 0
    BY <1>2, <1>3
  <2>2. /\ lastTime = Sec(start + lastUp)
        /\ phase = "walk" => \A i \in DOMAIN events : lastUp <= events[i].due + gap
    BY <1>1 DEF SetBackInv
  <2> QED BY <1>1, <2>1, <2>2 DEF WalkInv, SetBackInv, Sec
<1>11. StopInv'
  <2>1. Limit \in Int /\ Limit' \in Int /\ Limit <= Limit' /\ Asleep' = Asleep /\ Asleep \in Int
    <3>1. Duration \in Nat /\ TimeoutInterval \in Nat
      BY TimersAssumption
    <3> QED BY <1>1, <1>2, <1>3, <1>4, <3>1 DEF Limit, Backward, Larger, Asleep
  <2>2. sleep \in Nat
    BY <1>1, Types
  <2>3. /\ Asleep + (IF phase = "asleep" THEN sleep ELSE 0) < Limit + Second
            => Asleep' + (IF phase = "asleep" THEN sleep ELSE 0) < Limit' + Second
        /\ Asleep < Limit => Asleep' < Limit'
    <3> DEFINE z == IF phase = "asleep" THEN sleep ELSE 0
    <3>1. z \in Nat
      BY <2>2
    <3> HIDE DEF z
    <3>2. /\ Asleep + z < Limit + Second => Asleep + z < Limit' + Second
          /\ Asleep < Limit => Asleep < Limit'
      <4>1. Asleep + z \in Int /\ Second \in Int
        BY <2>1, <3>1, Positive
      <4>2. Asleep + z < Limit + Second => Asleep + z < Limit' + Second
        BY <2>1, <4>1, Sums
      <4> QED BY <2>1, <4>2
    <3> QED BY <2>1, <3>2 DEF z
  <2> QED BY <1>1, <2>3 DEF StopInv
<1> QED BY <1>6, <1>7, <1>9, <1>10, <1>11 DEF IInv

LEMMA PollKeeps ==
  ASSUME IInv, Poll
  PROVE  IInv'
<1>1. /\ TypeOK /\ ClockInv /\ WhenInv /\ WalkInv /\ SetBackInv /\ StopInv
      /\ phase = "poll" /\ phase' = "asleep" /\ sleep' = Timeout
      /\ start' = start /\ events' = events /\ nextId' = nextId /\ stop' = stop
      /\ te' = te /\ maxId' = maxId /\ lastTime' = lastTime /\ lastUp' = lastUp /\ gap' = gap
      /\ up' = up /\ busy' = busy /\ jump' = jump /\ clock' = clock
  BY DEF IInv, Poll, walk, time
<1>2. events \in Seq(TimeEvent) /\ events # <<>>
  BY <1>1 DEF TypeOK
<1>3. /\ clock \in Nat /\ up \in Nat /\ busy \in Nat /\ start \in Nat /\ jump \in Int
      /\ clock = start + up + jump
      /\ \A i \in DOMAIN events : events[i].when \in Moment /\ At(events[i]) \in Nat
  BY <1>1, Types
<1>4. /\ Nearest.when \in Moment /\ At(Nearest) \in Nat
      /\ \A i \in DOMAIN events : At(Nearest) <= At(events[i])
  BY <1>2, <1>3, NearestIs
<1>5. Timeout \in Nat /\ (clock + Timeout = At(Nearest) \/ Timeout < Second)
  BY <1>3, <1>4, TimeoutIs
<1>6. TypeOK'
  BY <1>1, <1>5 DEF TypeOK
<1>7. (ClockInv /\ WhenInv /\ WalkInv /\ SetBackInv)'
  BY <1>1 DEF ClockInv, WhenInv, WalkInv, SetBackInv, Shifted, Sec
<1>8. PICK c \in DOMAIN events :
        events[c].kind = "check_timeouts" /\ At(events[c]) <= start + Duration + TimeoutInterval
  BY <1>1 DEF StopInv
<1>9. Asleep + Timeout < Limit + Second
  <2>1. Asleep < Limit
    BY <1>1 DEF StopInv
  <2>2. Duration \in Nat /\ TimeoutInterval \in Nat
    BY TimersAssumption
  <2>3. At(Nearest) <= start + Duration + TimeoutInterval
    BY <1>3, <1>4, <1>8, <2>2
  <2> QED BY <1>3, <1>4, <1>5, <2>1, <2>2, <2>3, Positive DEF Asleep, Limit, Backward, Larger
<1>10. StopInv'
  <2>1. Asleep' = Asleep /\ Limit' = Limit /\ ~stop
    BY <1>1 DEF Asleep, Limit, Backward, StopInv
  <2> QED BY <1>1, <1>8, <1>9, <2>1 DEF StopInv
<1> QED BY <1>6, <1>7, <1>10 DEF IInv

LEMMA WakeKeeps ==
  ASSUME IInv, Wake
  PROVE  IInv'
<1>1. /\ TypeOK /\ ClockInv /\ WhenInv /\ WalkInv /\ SetBackInv /\ StopInv
      /\ phase = "asleep" /\ phase' = "files" /\ sleep' = 0
      /\ start' = start /\ events' = events /\ nextId' = nextId /\ stop' = stop
      /\ te' = te /\ maxId' = maxId /\ lastTime' = lastTime /\ lastUp' = lastUp /\ gap' = gap
      /\ up' = up /\ busy' = busy /\ jump' = jump /\ clock' = clock
  BY DEF IInv, Wake, walk, time
<1>2. TypeOK'
  BY <1>1 DEF TypeOK
<1>3. (ClockInv /\ WhenInv /\ WalkInv /\ SetBackInv)'
  BY <1>1 DEF ClockInv, WhenInv, WalkInv, SetBackInv, Shifted, Sec
<1>4. StopInv'
  <2>1. Asleep' = Asleep /\ Limit' = Limit
    BY <1>1 DEF Asleep, Limit, Backward
  <2>2. Asleep \in Int /\ Limit \in Int /\ sleep \in Nat
    <3>1. Duration \in Nat /\ TimeoutInterval \in Nat
      BY TimersAssumption
    <3>2. up \in Nat /\ busy \in Nat /\ jump \in Int /\ sleep \in Nat
      BY <1>1, Types
    <3> QED BY <3>1, <3>2 DEF Asleep, Limit, Backward, Larger
  <2>3. Asleep + sleep < Limit + Second
    BY <1>1 DEF StopInv
  <2>4. Asleep + 0 < Limit + Second
    BY <2>2, <2>3, Positive
  <2> QED BY <1>1, <2>1, <2>4 DEF StopInv
<1> QED BY <1>2, <1>3, <1>4 DEF IInv

(* A clock that was found to be set back makes all events due, and lets    *)
(* them be what they are.                                                  *)
LEMMA MadeDue ==
  ASSUME TypeOK, ClockInv, BeginWalk
  PROVE  /\ events' \in Seq(TimeEvent) /\ DOMAIN events' = DOMAIN events
         /\ \A i \in DOMAIN events :
              /\ events'[i].id = events[i].id /\ events'[i].kind = events[i].kind
              /\ events'[i].due = events[i].due
              /\ At(events'[i]) \in Nat /\ At(events'[i]) <= At(events[i])
              /\ IF Sec(clock) < lastTime THEN events'[i].when.sec = 0 ELSE events'[i] = events[i]
<1>1. /\ Len(events) \in Nat /\ DOMAIN events = 1 .. Len(events) /\ events \in Seq(TimeEvent)
      /\ \A i \in DOMAIN events : events[i] \in TimeEvent /\ At(events[i]) \in Nat
  BY Types, ListIs
<1>2. CASE ~(Sec(clock) < lastTime)
  <2>1. events' = events
    BY <1>2 DEF BeginWalk
  <2> QED BY <1>1, <1>2, <2>1
<1>3. CASE Sec(clock) < lastTime
  <2> DEFINE made(e) == [e EXCEPT !.when.sec = 0]
  <2>1. events' = [i \in DOMAIN events |-> made(events[i])]
    BY <1>3 DEF BeginWalk
  <2>2. ASSUME NEW e \in TimeEvent
        PROVE  /\ made(e) \in TimeEvent /\ made(e).id = e.id /\ made(e).kind = e.kind /\ made(e).due = e.due
               /\ made(e).when.sec = 0 /\ made(e).when.ms = e.when.ms
    <3> DEFINE w == [e.when EXCEPT !.sec = 0]
    <3>1. e.when \in [sec : Nat, ms : 0 .. Second - 1]
      BY DEF TimeEvent
    <3>2. w \in [sec : Nat, ms : 0 .. Second - 1] /\ w.sec = 0 /\ w.ms = e.when.ms
      BY <3>1
    <3>3. made(e) = [e EXCEPT !.when = w]
      OBVIOUS
    <3> HIDE DEF w, made
    <3> QED BY <3>2, <3>3 DEF TimeEvent
  <2>3. ASSUME NEW e \in TimeEvent
        PROVE  At(made(e)) \in Nat /\ At(made(e)) <= At(e)
    <3>1. e.when.sec \in Nat /\ e.when.ms \in 0 .. Second - 1
      BY DEF TimeEvent
    <3>2. e.when.sec * Second \in Nat /\ 0 * Second = 0
      BY <3>1, Positive, Multiples
    <3>3. At(made(e)) = 0 * Second + e.when.ms
      BY <2>2 DEF At
    <3>4. At(e) = e.when.sec * Second + e.when.ms
      BY DEF At
    <3> QED BY <3>1, <3>2, <3>3, <3>4, Positive
  <2> HIDE DEF made
  <2>4. /\ DOMAIN events' = DOMAIN events
        /\ \A i \in DOMAIN events : events'[i] = made(events[i])
    BY <2>1
  <2>5. events' \in [1 .. Len(events) -> TimeEvent]
    BY <1>1, <2>1, <2>2
  <2>6. events' \in Seq(TimeEvent)
    BY <1>1, <2>5, SeqDef
  <2>7. \A i \in DOMAIN events : events[i] \in TimeEvent
    BY <1>1
  <2> QED BY <1>3, <2>2, <2>3, <2>4, <2>6, <2>7
<1> QED BY <1>2, <1>3

LEMMA BeginWalkKeeps ==
  ASSUME IInv, BeginWalk
  PROVE  IInv'
<1>1. /\ TypeOK /\ ClockInv /\ WhenInv /\ WalkInv /\ SetBackInv /\ StopInv
      /\ phase = "files" /\ phase' = "walk" /\ te' = 1 /\ maxId' = nextId - 1
      /\ lastTime' = Sec(clock) /\ lastUp' = up /\ gap' = Larger(gap, up - lastUp)
      /\ start' = start /\ nextId' = nextId /\ stop' = stop /\ sleep' = sleep
      /\ up' = up /\ busy' = busy /\ jump' = jump /\ clock' = clock
  BY DEF IInv, BeginWalk, time
<1>2. /\ events' \in Seq(TimeEvent) /\ DOMAIN events' = DOMAIN events
      /\ \A i \in DOMAIN events :
           /\ events'[i].id = events[i].id /\ events'[i].kind = events[i].kind
           /\ events'[i].due = events[i].due
           /\ At(events'[i]) \in Nat /\ At(events'[i]) <= At(events[i])
           /\ IF Sec(clock) < lastTime THEN events'[i].when.sec = 0 ELSE events'[i] = events[i]
  BY <1>1, MadeDue
<1>3. /\ clock \in Nat /\ up \in Nat /\ start \in Nat /\ jump \in Int /\ lastUp \in Nat /\ gap \in Nat
      /\ nextId \in Nat /\ lastUp <= up /\ clock = start + up + jump
      /\ Len(events) \in Nat /\ DOMAIN events = 1 .. Len(events)
      /\ \A i \in DOMAIN events :
           events[i].due \in Nat /\ events[i].id \in Nat /\ At(events[i]) \in Nat
  BY <1>1, Types DEF ClockInv
<1>3a. /\ up \in Int /\ start \in Int /\ jump \in Int /\ lastUp \in Int /\ gap \in Int /\ Second \in Int
       /\ clock = start + up + jump
  BY <1>3, Positive
<1>4. gap' \in Nat /\ gap <= gap' /\ up - lastUp <= gap' /\ up <= lastUp + gap'
  BY <1>1, <1>3 DEF Larger
<1>5. \A i \in DOMAIN events : events[i].id < nextId
  BY <1>1 DEF TypeOK
(* A clock that was never set is not found to be set back.                 *)
<1>6. jump = 0 => lastTime = Sec(start + lastUp) /\ ~(Sec(clock) < lastTime)
  <2> HAVE jump = 0
  <2>1. lastTime = Sec(start + lastUp)
    BY <1>1 DEF SetBackInv
  <2>2. start + lastUp \in Nat /\ start + lastUp <= clock
    BY <1>3
  <2>3. Sec(start + lastUp) <= Sec(clock) /\ Sec(start + lastUp) \in Nat /\ Sec(clock) \in Nat
    BY <1>3, <2>2, Seconds, ClockIs
  <2> QED BY <2>1, <2>3
<1>7. TypeOK'
  <2>1. Sec(clock) \in Nat
    BY <1>3, ClockIs
  <2>2. events' # <<>>
    BY <1>1, <1>2 DEF TypeOK
  <2>3. /\ {clock', lastTime', nextId', te', sleep', start', up', lastUp', gap'} \subseteq Nat
        /\ te' > 0 /\ maxId' \in Nat \cup {-1}
    BY <1>1, <1>3, <1>4, <2>1 DEF TypeOK
  <2> QED BY <1>1, <1>2, <2>2, <2>3 DEF TypeOK
<1>8. ClockInv'
  BY <1>1, <1>3 DEF ClockInv
<1>9. WhenInv'
  <2>1. CASE Sec(clock) < lastTime
    BY <1>1, <1>2, <1>6, <2>1 DEF WhenInv, Shifted
  <2>2. CASE ~(Sec(clock) < lastTime)
    BY <1>1, <1>2, <2>2 DEF WhenInv, Shifted
  <2> QED BY <2>1, <2>2
<1>10. WalkInv'
  <2>1. \A i \in DOMAIN events : ~(i < te') /\ ~(events'[i].id > maxId')
    BY <1>1, <1>2, <1>3, <1>5
  <2> QED BY <1>1, <1>2, <2>1 DEF WalkInv
<1>11. SetBackInv'
  <2>1. CASE jump = 0
    <3>1. \A i \in DOMAIN events : lastUp <= events[i].due
      BY <1>1, <2>1 DEF WalkInv
    <3>2. \A i \in DOMAIN events' : up <= events'[i].due + gap'
      <4> TAKE i \in DOMAIN events'
      <4>1. events'[i].due \in Nat /\ lastUp <= events'[i].due
        BY <1>2, <1>3, <3>1
      <4> QED BY <1>3a, <1>4, <4>1
    <3>3. Sec(clock) = Sec(start + up)
      BY <1>3, <2>1
    <3> QED BY <1>1, <3>2, <3>3 DEF SetBackInv, Sec
  <2>2. CASE jump # 0 /\ Sec(clock) < lastTime
    BY <1>1, <1>2, <2>2 DEF SetBackInv, Shifted
  <2>3. CASE jump # 0 /\ ~(Sec(clock) < lastTime) /\ lastTime = Sec(start + lastUp)
    <3>1. start + lastUp \in Nat
      BY <1>3
    <3>2. Sec(start + lastUp) <= Sec(clock)
      BY <1>3, <2>3, <3>1, ClockIs
    <3>3. start + lastUp < clock + Second
      BY <1>3, <3>1, <3>2, Seconds
    <3>4. -jump < (up - lastUp) + Second /\ -jump \in Int /\ up - lastUp \in Int
      BY <1>3a, <3>3
    <3>5. up - lastUp <= gap' /\ gap' \in Int
      BY <1>4
    <3>6. -jump < gap' + Second
      BY <1>3a, <3>4, <3>5, Sums
    <3> QED BY <1>1, <2>3, <3>6 DEF SetBackInv
  <2>4. CASE jump # 0 /\ -jump < gap + Second
    <3>1. -jump < gap' + Second
      <4>1. gap' \in Int /\ gap <= gap'
        BY <1>4
      <4>2. -jump \in Int
        BY <1>3a
      <4> QED BY <1>3a, <2>4, <4>1, <4>2, Sums
    <3> QED BY <1>1, <2>4, <3>1 DEF SetBackInv
  <2>5. CASE jump # 0 /\ ~(Sec(clock) < lastTime) /\ \A i \in DOMAIN events : Shifted(events[i])
    <3>1. \A i \in DOMAIN events' : events'[i] = events[i]
      BY <1>2, <2>5
    <3> QED BY <1>1, <1>2, <2>5, <3>1 DEF SetBackInv, Shifted
  <2> QED BY <1>1, <2>1, <2>2, <2>3, <2>4, <2>5 DEF SetBackInv
<1>12. StopInv'
  <2>1. PICK c \in DOMAIN events :
          /\ events[c].kind = "check_timeouts"
          /\ ~stop => At(events[c]) <= start + Duration + TimeoutInterval
    BY <1>1 DEF StopInv
  <2>2. /\ events'[c].kind = "check_timeouts" /\ ~(te' > c) /\ events'[c].id <= maxId'
        /\ ~stop => At(events'[c]) <= start + Duration + TimeoutInterval
    <3>1. Duration \in Nat /\ TimeoutInterval \in Nat
      BY TimersAssumption
    <3> QED BY <1>1, <1>2, <1>3, <1>5, <2>1, <3>1
  <2>3. Asleep' = Asleep /\ Limit' = Limit
    BY <1>1 DEF Asleep, Limit, Backward
  <2>4. Asleep + 0 < Limit + Second
    BY <1>1 DEF StopInv
  <2> QED BY <1>1, <1>2, <2>2, <2>3, <2>4 DEF StopInv
<1> QED BY <1>7, <1>8, <1>9, <1>10, <1>11, <1>12 DEF IInv

(* An event that is not due when the walk comes by is late by little.      *)
LEMMA NotDue ==
  ASSUME TypeOK, ClockInv, WhenInv, NEW e \in DOMAIN events, ~Due(events[e])
  PROVE  /\ clock < At(events[e])
         /\ At(events[e]) = start + events[e].due \/ At(events[e]) = start + events[e].due + jump
<1>1. /\ clock \in Nat /\ Second \in Nat \ {0}
      /\ jump # 0 => clock >= Second
      /\ events[e].when \in Moment /\ At(events[e]) \in Nat
  BY Types, Positive
<1>2. clock < At(events[e])
  BY <1>1, DueIs
<1>3. ~(events[e].when.sec = 0 /\ jump # 0)
  <2> SUFFICES ASSUME events[e].when.sec = 0, jump # 0
               PROVE  FALSE
    OBVIOUS
  <2>1. events[e].when.ms \in 0 .. Second - 1 /\ 0 * Second = 0
    BY <1>1, MomentIs, Positive
  <2>2. At(events[e]) = 0 * Second + events[e].when.ms
    BY DEF At
  <2> QED BY <1>1, <1>2, <2>1, <2>2, Positive
<1> QED BY <1>2, <1>3 DEF WhenInv, Shifted

LEMMA SkipKeeps ==
  ASSUME IInv, Skip
  PROVE  IInv'
<1>1. /\ TypeOK /\ ClockInv /\ WhenInv /\ WalkInv /\ SetBackInv /\ StopInv
      /\ phase = "walk" /\ phase' = "walk" /\ te' = te + 1 /\ te <= Len(events)
      /\ events[te].id > maxId \/ ~Due(events[te])
      /\ start' = start /\ events' = events /\ nextId' = nextId /\ stop' = stop /\ sleep' = sleep
      /\ maxId' = maxId /\ lastTime' = lastTime /\ lastUp' = lastUp /\ gap' = gap
      /\ up' = up /\ busy' = busy /\ jump' = jump /\ clock' = clock
  BY DEF IInv, Skip, time
<1>2. /\ clock \in Nat /\ up \in Nat /\ busy \in Nat /\ start \in Nat /\ jump \in Int /\ lastUp \in Nat
      /\ te \in Nat \ {0} /\ maxId \in Int /\ clock = start + up + jump /\ lastUp <= up
      /\ Len(events) \in Nat /\ DOMAIN events = 1 .. Len(events)
  BY <1>1, Types DEF ClockInv
<1>3. \A i \in DOMAIN events : events[i].due \in Nat /\ events[i].id \in Nat /\ At(events[i]) \in Nat
  BY <1>1, Types
<1>4. te \in DOMAIN events
  BY <1>1, <1>2
<1>5. TypeOK'
  <2>1. te + 1 \in Nat /\ te + 1 > 0
    BY <1>2
  <2> QED BY <1>1, <2>1 DEF TypeOK
<1>6. (ClockInv /\ WhenInv /\ SetBackInv)'
  BY <1>1 DEF ClockInv, WhenInv, SetBackInv, Shifted, Sec
<1>7. WalkInv'
  <2>1. ASSUME jump = 0, NEW i \in DOMAIN events, i < te + 1
        PROVE  lastUp <= events[i].due
    <3>1. CASE i < te
      BY <1>1, <2>1, <3>1 DEF WalkInv
    <3>2. CASE i = te /\ events[te].id > maxId
      BY <1>1, <3>2 DEF WalkInv
    <3>3. CASE i = te /\ ~Due(events[te])
      <4>1. clock < At(events[te]) /\ At(events[te]) = start + events[te].due
        <5>1. events[te].due \in Nat
          BY <1>3, <1>4
        <5> QED BY <1>1, <1>2, <1>4, <2>1, <3>3, <5>1, NotDue
      <4>2. events[te].due \in Nat
        BY <1>3, <1>4
      <4> QED BY <1>2, <2>1, <3>3, <4>1, <4>2
    <3>4. i < te \/ i = te
      BY <1>2, <2>1
    <3> QED BY <1>1, <3>1, <3>2, <3>3, <3>4
  <2>2. \A i \in DOMAIN events : events[i].id > maxId => lastUp <= events[i].due
    BY <1>1 DEF WalkInv
  <2> QED BY <1>1, <2>1, <2>2 DEF WalkInv
<1>8. StopInv'
  <2>1. Asleep' = Asleep /\ Limit' = Limit
    BY <1>1 DEF Asleep, Limit, Backward
  <2>2. PICK c \in DOMAIN events :
          /\ events[c].kind = "check_timeouts"
          /\ ~stop => /\ At(events[c]) <= start + Duration + TimeoutInterval
                      /\ events[c].id <= maxId /\ (te > c => Asleep < Limit)
    BY <1>1 DEF StopInv
  <2>3. ASSUME ~stop, te + 1 > c
        PROVE  Asleep < Limit
    <3>1. CASE te > c
      BY <2>2, <2>3, <3>1
    <3>2. CASE te = c
      <4>1. ~Due(events[c])
        BY <1>1, <1>2, <1>3, <2>2, <2>3, <3>2
      <4>2. clock < At(events[c]) /\ At(events[c]) \in Nat
        BY <1>1, <1>3, <4>1, NotDue
      <4>3. Duration \in Nat /\ TimeoutInterval \in Nat
        BY TimersAssumption
      <4>4. clock < start + Duration + TimeoutInterval
        BY <1>2, <2>2, <2>3, <4>2, <4>3
      <4> QED BY <1>2, <4>3, <4>4 DEF Asleep, Limit, Backward, Larger
    <3> QED BY <1>2, <2>3, <3>1, <3>2
  <2>4. Asleep + 0 < Limit + Second
    BY <1>1 DEF StopInv
  <2> QED BY <1>1, <2>1, <2>2, <2>3, <2>4 DEF StopInv
<1> QED BY <1>5, <1>6, <1>7, <1>8 DEF IInv

LEMMA EndWalkKeeps ==
  ASSUME IInv, EndWalk
  PROVE  IInv'
<1>1. /\ TypeOK /\ ClockInv /\ WhenInv /\ WalkInv /\ SetBackInv /\ StopInv
      /\ phase = "walk" /\ phase' = (IF stop THEN "ended" ELSE "poll") /\ te > Len(events)
      /\ te' = te /\ start' = start /\ events' = events /\ nextId' = nextId /\ stop' = stop /\ sleep' = sleep
      /\ maxId' = maxId /\ lastTime' = lastTime /\ lastUp' = lastUp /\ gap' = gap
      /\ up' = up /\ busy' = busy /\ jump' = jump /\ clock' = clock
  BY DEF IInv, EndWalk, time, walk
<1>2. te \in Nat \ {0} /\ Len(events) \in Nat /\ DOMAIN events = 1 .. Len(events)
  BY <1>1, Types
<1>3. \A i \in DOMAIN events : i < te /\ te > i
  BY <1>1, <1>2
<1>4. TypeOK'
  BY <1>1 DEF TypeOK
<1>5. (ClockInv /\ WhenInv /\ SetBackInv)'
  BY <1>1 DEF ClockInv, WhenInv, SetBackInv, Shifted, Sec
<1>6. WalkInv'
  BY <1>1, <1>3 DEF WalkInv
<1>7. StopInv'
  <2>1. Asleep' = Asleep /\ Limit' = Limit
    BY <1>1 DEF Asleep, Limit, Backward
  <2>2. PICK c \in DOMAIN events :
          /\ events[c].kind = "check_timeouts"
          /\ ~stop => At(events[c]) <= start + Duration + TimeoutInterval /\ (te > c => Asleep < Limit)
    BY <1>1 DEF StopInv
  <2>3. Asleep + 0 < Limit + Second
    BY <1>1 DEF StopInv
  <2> QED BY <1>1, <1>3, <2>1, <2>2, <2>3 DEF StopInv
<1> QED BY <1>4, <1>5, <1>6, <1>7 DEF IInv

-----------------------------------------------------------------------------
(* The invariant is kept by each step of the event loop ae.c with wrk.c's  *)
(* handlers: what the armed times are on the clock, what a walk has left   *)
(* behind, what a clock that was set means, and when the check comes.      *)
THEOREM Invariance == Spec => []IInv
<1>1. Init => IInv
  BY Start
<1>2. IInv /\ [Next]_vars => IInv'
  <2> SUFFICES ASSUME IInv, [Next]_vars
               PROVE  IInv'
    OBVIOUS
  <2>1. CASE Tick
    BY <2>1, TickKeeps
  <2>2. CASE SetClock
    BY <2>2, SetClockKeeps
  <2>3. CASE socket_writeable \/ response_complete
    <3>1. HandlerStep
      BY <2>3, FilesStep
    <3> QED BY <3>1, HandlerKeepsEvents, HandlerKeepsTheCheck DEF IInv
  <2>4. CASE Poll
    BY <2>4, PollKeeps
  <2>5. CASE Wake
    BY <2>5, WakeKeeps
  <2>6. CASE BeginWalk
    BY <2>6, BeginWalkKeeps
  <2>7. CASE Skip
    BY <2>7, SkipKeeps
  <2>8. CASE Run
    <3>1. HandlerStep
      BY <2>8, RunStep
    <3> QED BY <3>1, HandlerKeepsEvents, HandlerKeepsTheCheck DEF IInv
  <2>9. CASE EndWalk
    BY <2>9, EndWalkKeeps
  <2>10. CASE UNCHANGED vars
    BY <2>10 DEF vars, time, walk, IInv, TypeOK, ClockInv, WhenInv, WalkInv, SetBackInv, StopInv,
                Shifted, Sec, Asleep, Limit, Backward
  <2> QED BY <2>1, <2>2, <2>3, <2>4, <2>5, <2>6, <2>7, <2>8, <2>9, <2>10 DEF Next, Loop
<1> QED BY <1>1, <1>2, PTL DEF Spec

(* The list of time events holds events of the handlers' kinds, with whole *)
(* seconds and less than a second of milliseconds, the youngest first.     *)
THEOREM TypeCorrect == Spec => []TypeOK
<1>1. IInv => TypeOK
  BY DEF IInv
<1> QED BY <1>1, Invariance, PTL

(* check_timeouts ends the loop in time: one check and one second after    *)
(* stop_at, apart from the time handlers take and the clock is set back.   *)
THEOREM EndsInTime == Spec => []StopsInTime
<1>1. IInv => StopsInTime
  <2> SUFFICES ASSUME IInv, phase # "ended"
               PROVE  up < Duration + TimeoutInterval + Second + busy + Backward
    BY DEF StopsInTime
  <2> DEFINE z == IF phase = "asleep" THEN sleep ELSE 0
  <2>1. up \in Nat /\ busy \in Nat /\ jump \in Int /\ z \in Nat
    BY Types DEF IInv
  <2>2. (up - busy) + z < Duration + TimeoutInterval + Backward + Second
    BY DEF IInv, StopInv, Asleep, Limit
  <2>3. Backward \in Nat
    BY <2>1 DEF Backward, Larger
  <2>4. Duration \in Nat /\ TimeoutInterval \in Nat
    BY TimersAssumption
  <2> HIDE DEF z
  <2> QED BY <2>1, <2>2, <2>3, <2>4, Positive
<1> QED BY <1>1, Invariance, PTL

(* processTimeEvents runs no event before its time and passes over none    *)
(* for long, whatever the clock is set to.                                 *)
THEOREM RunsOnTime == Spec => OnTime
<1>1. ASSUME IInv, Next
      PROVE  /\ Run => events[te].due <= up + Forward \/ events[te].when.sec = 0
             /\ Skip => events[te].id > maxId \/ lastUp < events[te].due + gap + Second
  <2>1. /\ TypeOK /\ ClockInv /\ WhenInv /\ SetBackInv
        /\ clock \in Nat /\ up \in Nat /\ start \in Nat /\ jump \in Int /\ lastUp \in Nat /\ gap \in Nat
        /\ clock = start + up + jump /\ lastUp <= up
    BY <1>1, Types DEF IInv, ClockInv
  <2>1a. /\ clock \in Int /\ up \in Int /\ start \in Int /\ jump \in Int /\ lastUp \in Int /\ gap \in Nat
         /\ clock = start + up + jump /\ lastUp <= up
         /\ Second \in Int /\ Second > 0
    BY <2>1, Positive
  <2>2. ASSUME Run
        PROVE  events[te].due <= up + Forward \/ events[te].when.sec = 0
    <3>1. te \in DOMAIN events /\ Due(events[te])
      BY <1>1, <2>2, RunStep
    <3>2. events[te].when \in Moment /\ events[te].due \in Nat /\ At(events[te]) \in Nat
      BY <2>1, <3>1, Types
    <3>3. clock >= At(events[te])
      BY <2>1, <3>1, <3>2, DueIs
    <3>4. \/ At(events[te]) = start + events[te].due
          \/ At(events[te]) = start + events[te].due + jump
          \/ events[te].when.sec = 0
      BY <2>1, <3>1 DEF WhenInv, Shifted
    <3> QED BY <2>1, <3>2, <3>3, <3>4 DEF Forward, Larger
  <2>3. ASSUME Skip, ~(events[te].id > maxId)
        PROVE  lastUp < events[te].due + gap + Second
    <3>1. phase = "walk" /\ te \in DOMAIN events /\ ~Due(events[te])
      <4>1. Len(events) \in Nat /\ DOMAIN events = 1 .. Len(events) /\ te \in Nat \ {0}
        BY <2>1, Types
      <4> QED BY <2>3, <4>1 DEF Skip
    <3> DEFINE due == events[te].due
    <3>2. due \in Nat /\ At(events[te]) \in Nat
      BY <2>1, <3>1, Types
    <3>3. clock < At(events[te]) /\ (At(events[te]) = start + due \/ At(events[te]) = start + due + jump)
      BY <2>1, <3>1, NotDue
    <3> HIDE DEF due
    <3>4. ASSUME At(events[te]) = start + due + jump
          PROVE  lastUp < due + gap + Second
      BY <2>1a, <3>2, <3>3, <3>4
    <3>5. ASSUME lastUp <= due + gap
          PROVE  lastUp < due + gap + Second
      BY <2>1a, <3>2, <3>5
    <3>6. ASSUME -jump < gap + Second /\ At(events[te]) = start + due
          PROVE  lastUp < due + gap + Second
      BY <2>1a, <3>2, <3>3, <3>6
    <3>7. ASSUME Shifted(events[te])
          PROVE  lastUp < due + gap + Second
      <4>1. CASE events[te].when.sec = 0 /\ jump # 0
        <5>1. events[te].when.ms \in 0 .. Second - 1 /\ 0 * Second = 0 /\ clock >= Second
          BY <2>1, <3>1, <4>1, Types, MomentIs, Positive
        <5>2. At(events[te]) = 0 * Second + events[te].when.ms
          BY <4>1 DEF At
        <5> QED BY <2>1, <3>3, <5>1, <5>2, Positive
      <4> QED BY <3>4, <3>7, <4>1 DEF Shifted, due
    <3>8. lastUp <= due + gap \/ -jump < gap + Second \/ Shifted(events[te])
      BY <2>1, <3>1 DEF SetBackInv, due
    <3> QED BY <3>3, <3>4, <3>5, <3>6, <3>7, <3>8 DEF due
  <2> QED BY <2>2, <2>3
<1>2. IInv /\ [Next]_vars =>
        [/\ Run  => events[te].due <= up + Forward \/ events[te].when.sec = 0
         /\ Skip => events[te].id > maxId \/ lastUp < events[te].due + gap + Second]_vars
  BY <1>1
<1> QED BY <1>2, Invariance, PTL DEF Spec, OnTime
=============================================================================
