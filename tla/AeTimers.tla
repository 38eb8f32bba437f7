------------------------------- MODULE AeTimers -------------------------------
(***************************************************************************)
(* The time events of a wrk2 thread: the event loop ae.c with the handlers *)
(* that wrk.c registers.                                                   *)
(*                                                                         *)
(* The loop sleeps in epoll_wait until the nearest time event or until a   *)
(* descriptor is ready, runs the file events' handlers, and walks the list *)
(* of time events.  A handler re-arms its event or lets it be deleted; the *)
(* walk then starts again at the head and leaves out the events that were  *)
(* registered meanwhile.  The clock is the system's, which may be set; the *)
(* loop looks at its seconds to find out whether it was set back.  One     *)
(* unit of time is a millisecond of the code, `Second` of them a second.   *)
(***************************************************************************)
EXTENDS Integers, Sequences, SequencesExt

CONSTANTS
  Second,          (* milliseconds in a second                             *)
  Epoch,           (* the clock's least value at the start                 *)
  Duration,        (* thread->stop_at, from the start                      *)
  TimeoutInterval, (* TIMEOUT_INTERVAL_MS                                  *)
  CalibrateDelay,  (* CALIBRATE_DELAY_MS                                   *)
  SampleInterval,  (* thread->interval                                     *)
  MaxWait,         (* the longest time to the next request                 *)
  Jumps,           (* by how much the clock may be set, once               *)
  MaxBusy,         (* bound: the time the handlers take                    *)
  MaxIds           (* bound: how many time events are created              *)

ASSUME TimersAssumption ==
  /\ {Second, TimeoutInterval, CalibrateDelay, SampleInterval, MaxWait} \subseteq Nat \ {0}
  /\ {Duration, MaxBusy, MaxIds} \subseteq Nat
  /\ Jumps \subseteq Int \ {0}
  /\ Epoch \in Nat /\ \A j \in Jumps : Epoch + j >= Second

VARIABLES
  phase,    (* "poll", "asleep", "files", "walk" or "ended"                *)
  clock,    (* what gettimeofday returns                                   *)
  lastTime, (* eventLoop->lastTime                                         *)
  events,   (* the list of time events, its head first                     *)
  nextId,   (* eventLoop->timeEventNextId                                  *)
  stop,     (* eventLoop->stop                                             *)
  te,       (* where the walk stands in the list                           *)
  maxId,    (* the last id the walk may run                                *)
  sleep,    (* what is left of the timeout given to epoll_wait             *)
  start,    (* the clock at the start                                      *)
  up,       (* the time since then, whatever the clock is set to           *)
  jump,     (* by how much the clock has been set                          *)
  busy,     (* the time spent outside epoll_wait                           *)
  lastUp,   (* when the last walk began                                    *)
  gap       (* the longest time between the beginnings of two walks        *)
            (* (start, up, jump, busy, lastUp and gap are no state of the  *)
            (* code: the properties need them to tell time from the clock) *)

time  == <<clock, up, jump, busy, start>>
walk  == <<te, maxId, lastTime, lastUp, gap>>
vars  == <<phase, time, events, nextId, stop, walk, sleep>>

Kind == {"delayed_initial_connect", "calibrate", "check_timeouts", "sample_rate", "delay_request"}

Larger(a, b) == IF a > b THEN a ELSE b

-----------------------------------------------------------------------------
(* Time as the loop reads it: seconds and milliseconds.                    *)
Sec(t) == t \div Second
Ms(t)  == t % Second

(* aeAddMillisecondsToNow.                                                 *)
AddMillisecondsToNow(d) ==
  LET ms == Ms(clock) + (d % Second)
  IN  [sec |-> Sec(clock) + (d \div Second) + (IF ms >= Second THEN 1 ELSE 0),
       ms  |-> IF ms >= Second THEN ms - Second ELSE ms]

(* A time event is due when the clock has reached its second and its       *)
(* millisecond.                                                            *)
Due(e) == Sec(clock) > e.when.sec \/ (Sec(clock) = e.when.sec /\ Ms(clock) >= e.when.ms)

Before(d, e) == d.when.sec < e.when.sec \/ (d.when.sec = e.when.sec /\ d.when.ms < e.when.ms)

(* aeSearchNearestTimer.                                                   *)
Nearest ==
  events[CHOOSE i \in DOMAIN events :
           \A j \in DOMAIN events : ~Before(events[j], events[i]) /\ (j < i => Before(events[i], events[j]))]

(* Armed(e, d): event e waits d from now.  `due` is when it should run. *)
Armed(e, d) == [e EXCEPT !.when = AddMillisecondsToNow(d), !.due = up + d]

Event(kind, d) ==
  [id |-> nextId, kind |-> kind, when |-> AddMillisecondsToNow(d), due |-> up + d]

TimeEvent == [id : Nat, kind : Kind, when : [sec : Nat, ms : 0 .. Second - 1], due : Nat]

TypeOK ==
  /\ phase \in {"poll", "asleep", "files", "walk", "ended"}
  /\ {clock, lastTime, nextId, te, sleep, start, up, lastUp, gap} \subseteq Nat
  /\ te > 0 /\ maxId \in Nat \cup {-1}
  /\ busy \in 0 .. MaxBusy /\ jump \in Jumps \cup {0}
  /\ stop \in BOOLEAN
  /\ events \in Seq(TimeEvent) /\ events # <<>>
  /\ \A i \in DOMAIN events :
       /\ events[i].id < nextId
       /\ \A j \in DOMAIN events : i < j => events[i].id > events[j].id

(* thread_main: a delayed connect, the calibration and the first check.    *)
Init ==
  /\ start \in Epoch .. Epoch + Second - 1
  /\ clock = start /\ up = 0 /\ jump = 0 /\ busy = 0
  /\ lastTime = Sec(start) /\ lastUp = 0 /\ gap = 0
  /\ phase = "poll" /\ stop = FALSE /\ te = 1 /\ maxId = -1 /\ sleep = 0
  /\ nextId = 3
  /\ events = LET E(i, kind, d) == [id |-> i, kind |-> kind, when |-> AddMillisecondsToNow(d), due |-> d]
              IN  <<E(2, "check_timeouts", TimeoutInterval), E(1, "calibrate", CalibrateDelay),
                    E(0, "delayed_initial_connect", 0)>>

-----------------------------------------------------------------------------
(* Time passes in epoll_wait until the timeout, and elsewhere as long as   *)
(* handlers take.                                                          *)
Tick ==
  /\ phase # "ended"
  /\ IF phase = "asleep"
     THEN sleep > 0 /\ sleep' = sleep - 1 /\ UNCHANGED busy
     ELSE busy < MaxBusy /\ busy' = busy + 1 /\ UNCHANGED sleep
  /\ clock' = clock + 1 /\ up' = up + 1
  /\ UNCHANGED <<phase, jump, start, events, nextId, stop, walk>>

(* The clock is set, while timeouts of epoll_wait go on.                   *)
SetClock ==
  /\ jump = 0 /\ phase # "ended"
  /\ \E j \in Jumps : jump' = j /\ clock' = clock + j
  /\ UNCHANGED <<phase, up, busy, start, events, nextId, stop, walk, sleep>>

(* aeProcessEvents: the time missing for the nearest event, seconds and    *)
(* microseconds, each of them at least zero.                               *)
Timeout ==
  LET borrow == Nearest.when.ms < Ms(clock)
      sec    == Nearest.when.sec - Sec(clock) - (IF borrow THEN 1 ELSE 0)
      ms     == Nearest.when.ms - Ms(clock) + (IF borrow THEN Second ELSE 0)
  IN  Larger(sec, 0) * Second + Larger(ms, 0)

Poll ==
  /\ phase = "poll"
  /\ phase' = "asleep"
  /\ sleep' = Timeout
  /\ UNCHANGED <<time, events, nextId, stop, walk>>

(* epoll_wait returns: it is time, or a descriptor is ready.               *)
Wake ==
  /\ phase = "asleep"
  /\ phase' = "files"
  /\ sleep' = 0
  /\ UNCHANGED <<time, events, nextId, stop, walk>>

Create(kind, d) ==
  /\ nextId < MaxIds
  /\ events' = <<Event(kind, d)>> \o events
  /\ nextId' = nextId + 1

(* A handler of a file event delays a request.                             *)
socket_writeable ==
  /\ phase = "files"
  /\ \E d \in 1 .. MaxWait : Create("delay_request", d)
  /\ UNCHANGED <<phase, time, stop, walk, sleep>>

(* A response that comes after the end of the run.                         *)
response_complete ==
  /\ phase = "files" /\ clock >= start + Duration
  /\ ~stop /\ stop' = TRUE
  /\ UNCHANGED <<phase, time, events, nextId, walk, sleep>>

-----------------------------------------------------------------------------
(* Mutant of BeginWalk: the clock is not looked at.                        *)
BeginWalkBlindly ==
  /\ phase = "files"
  /\ phase' = "walk" /\ te' = 1 /\ maxId' = nextId - 1
  /\ lastTime' = Sec(clock) /\ lastUp' = up /\ gap' = Larger(gap, up - lastUp)
  /\ UNCHANGED <<time, events, nextId, stop, sleep>>

(* processTimeEvents: a clock that is behind the last walk's makes every   *)
(* event due.                                                              *)
BeginWalk ==
  /\ phase = "files"
  /\ phase' = "walk" /\ te' = 1 /\ maxId' = nextId - 1
  /\ events' = IF Sec(clock) < lastTime
               THEN [i \in DOMAIN events |-> [events[i] EXCEPT !.when.sec = 0]]
               ELSE events
  /\ lastTime' = Sec(clock) /\ lastUp' = up /\ gap' = Larger(gap, up - lastUp)
  /\ UNCHANGED <<time, nextId, stop, sleep>>

Skip ==
  /\ phase = "walk" /\ te <= Len(events)
  /\ events[te].id > maxId \/ ~Due(events[te])
  /\ te' = te + 1
  /\ UNCHANGED <<phase, time, events, nextId, stop, sleep, maxId, lastTime, lastUp, gap>>

(* The event at te runs, and the walk is back at the head.                 *)
Fire(kind) ==
  /\ phase = "walk" /\ te <= Len(events)
  /\ events[te].id <= maxId /\ Due(events[te])
  /\ events[te].kind = kind
  /\ te' = 1
  /\ UNCHANGED <<phase, time, sleep, maxId, lastTime, lastUp, gap>>

ReArm(d) == events' = [events EXCEPT ![te] = Armed(@, d)] /\ UNCHANGED nextId
NoMore   == events' = RemoveAt(events, te) /\ UNCHANGED nextId

delayed_initial_connect ==
  /\ Fire("delayed_initial_connect")
  /\ NoMore
  /\ UNCHANGED stop

(* Mutant of calibrate: with nothing recorded, it asks to come at once.    *)
CalibrateAtOnce ==
  /\ Fire("calibrate")
  /\ \/ ReArm(0)
     \/ /\ nextId < MaxIds /\ nextId' = nextId + 1
        /\ events' = <<Event("sample_rate", SampleInterval)>> \o RemoveAt(events, te)
  /\ UNCHANGED stop

(* calibrate: again if nothing has been recorded, else sampling begins.    *)
calibrate ==
  /\ Fire("calibrate")
  /\ \/ ReArm(CalibrateDelay)
     \/ /\ nextId < MaxIds /\ nextId' = nextId + 1
        /\ events' = <<Event("sample_rate", SampleInterval)>> \o RemoveAt(events, te)
  /\ UNCHANGED stop

sample_rate ==
  /\ Fire("sample_rate")
  /\ ReArm(SampleInterval)
  /\ UNCHANGED stop

(* Mutant of check_timeouts: the end is noticed one check too late.        *)
CheckNextTime ==
  /\ Fire("check_timeouts")
  /\ ReArm(TimeoutInterval)
  /\ stop' = (stop \/ clock >= start + Duration + TimeoutInterval)

(* check_timeouts ends the loop after stop_at, or when main has set stop.  *)
check_timeouts ==
  /\ Fire("check_timeouts")
  /\ ReArm(TimeoutInterval)
  /\ \E interrupted \in BOOLEAN :
       stop' = (stop \/ interrupted \/ clock >= start + Duration)

(* delay_request: the connection is made writable, or waits again, rounded *)
(* up to a millisecond.                                                    *)
delay_request ==
  /\ Fire("delay_request")
  /\ NoMore \/ \E d \in 1 .. MaxWait : ReArm(d)
  /\ UNCHANGED stop

(* aeMain: the next round, unless a handler has called aeStop.             *)
EndWalk ==
  /\ phase = "walk" /\ te > Len(events)
  /\ phase' = IF stop THEN "ended" ELSE "poll"
  /\ UNCHANGED <<time, events, nextId, stop, walk, sleep>>

-----------------------------------------------------------------------------
Run  == \/ delayed_initial_connect \/ calibrate \/ sample_rate
        \/ check_timeouts \/ delay_request

Loop == Poll \/ Wake \/ BeginWalk \/ Skip \/ Run \/ EndWalk

Next == Tick \/ SetClock \/ socket_writeable \/ response_complete \/ Loop

Spec == Init /\ [][Next]_vars

(* Time passes, and the loop does what comes next.                         *)
FairSpec == Spec /\ SF_vars(Tick) /\ WF_vars(Loop)

-----------------------------------------------------------------------------
Forward  == Larger(jump, 0)
Backward == Larger(-jump, 0)

(* A handler does not run before its time, unless the clock was set        *)
(* forward or found to be set back; and by whatever the clock is set back, *)
(* no walk passes over a time event that was due, when the walk began, for *)
(* more than a second and the longest pause between two walks.             *)
OnTime ==
  [][/\ Run  => events[te].due <= up + Forward \/ events[te].when.sec = 0
     /\ Skip => events[te].id > maxId \/ lastUp < events[te].due + gap + Second]_vars

(* The thread's loop ends at most one check and one second after stop_at,  *)
(* apart from the time its handlers take and the clock is set back by.     *)
StopsInTime ==
  phase # "ended" => up < Duration + TimeoutInterval + Second + busy + Backward

(***************************************************************************)
(* The inductive invariant, in parts.                                      *)
(***************************************************************************)

(* When an event is to run, on the clock.                                  *)
At(e) == e.when.sec * Second + e.when.ms

ClockInv ==
  /\ clock = start + up + jump /\ Epoch <= start
  /\ lastUp <= up /\ busy <= up

(* An event is armed by the clock as it was set then, or made due at once. *)
Shifted(e) == At(e) = start + e.due + jump \/ (e.when.sec = 0 /\ jump # 0)
WhenInv    == \A i \in DOMAIN events : At(events[i]) = start + events[i].due \/ Shifted(events[i])

(* A walk that is over has left no event that was due when it began, as    *)
(* long as the clock was never set, and is late with none it registered.   *)
WalkInv ==
  /\ jump = 0 => \A i \in DOMAIN events : (phase = "walk" => i < te) => lastUp <= events[i].due
  /\ phase = "walk" => \A i \in DOMAIN events : events[i].id > maxId => lastUp <= events[i].due

(* Either no walk has begun since the clock was set, and the last one      *)
(* followed the one before it after at most `gap`; or the first one since  *)
(* did not notice because it was not set back by much; or it did, and all  *)
(* events are due or armed since.                                          *)
SetBackInv ==
  \/ /\ lastTime = Sec(start + lastUp)
     /\ phase = "walk" => \A i \in DOMAIN events : lastUp <= events[i].due + gap
  \/ jump # 0 /\ -jump < gap + Second
  \/ jump # 0 /\ \A i \in DOMAIN events : Shifted(events[i])

(* The check that ends the loop is armed for a time that is not late, and  *)
(* the loop does not sleep for long beyond it.                             *)
Asleep == up - busy
Limit  == Duration + TimeoutInterval + Backward
StopInv ==
  phase # "ended" =>
    /\ Asleep + (IF phase = "asleep" THEN sleep ELSE 0) < Limit + Second
    /\ phase = "poll" => Asleep < Limit
    /\ stop => phase \in {"files", "walk"}
    /\ \E i \in DOMAIN events :
         /\ events[i].kind = "check_timeouts"
         /\ ~stop => /\ At(events[i]) <= start + Duration + TimeoutInterval
                     /\ phase = "walk" => events[i].id <= maxId /\ (te > i => Asleep < Limit)

IInv == TypeOK /\ ClockInv /\ WhenInv /\ WalkInv /\ SetBackInv /\ StopInv

(* ... and does end.                                                       *)
Ends == <>(phase = "ended")

(* The comment at ae.c:216: the sleep delays no time event.                *)
NoOversleep ==
  phase = "asleep" /\ sleep > 0 /\ jump = 0 => \A i \in DOMAIN events : ~Due(events[i])
=============================================================================
