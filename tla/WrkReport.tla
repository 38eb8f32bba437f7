------------------------------ MODULE WrkReport ------------------------------
(* wrk.c from its command line to its report: main, thread_main and the time   *)
(* events of a thread (calibrate, sample_rate, check_timeouts), the part of    *)
(* response_complete that counts and records, and what main merges and prints. *)
(* When requests are sent is the subject of WrkConnection, how a response is   *)
(* read that of HttpClient: here they come at any reading of the clock, which  *)
(* is the time of day and may be set back.                                     *)
EXTENDS HdrHistogram, Sequences, SequencesExt

CONSTANTS
    Commands,            \* the command lines: sequences of options
    Instants,            \* the readings of the clock in the course of a run, in us
    MS, S,               \* us in a millisecond, milliseconds in a second
    CALIBRATE_DELAY_MS, TIMEOUT_INTERVAL_MS, SOCKET_TIMEOUT_MS, MinInterval,
    MAXL,                \* the entries of a thread in raw_latency
    UINT64_MAX,
    MaxSends,            \* bound: requests, shared by the threads
    MaxSamples           \* bound: reports of the rate of a thread

\* what getopt reads
Option == [flag : STRING, arg : [base : Nat, unit : STRING]]

\* a rate is in the range of its histogram: in the code, some 10^8 requests of a
\* thread between two samples
ASSUME ReportAssumption ==
    /\ Commands \subseteq Seq(Option)
    /\ Instants \in Seq(Nat) /\ Instants # <<>>
    /\ \A i \in DOMAIN Instants : Instants[i] <= UINT64_MAX
    /\ {MS, S, MinInterval, MAXL} \subseteq Nat \ {0}
    /\ {CALIBRATE_DELAY_MS, TIMEOUT_INTERVAL_MS, SOCKET_TIMEOUT_MS, UINT64_MAX} \subseteq Nat
    /\ {MaxSends, MaxSamples} \subseteq Nat /\ MaxSends * S <= highest_trackable_value

-----------------------------------------------------------------------------
(* units.c: {} for an argument that cannot be read.                            *)
time_units   == [scale |-> 60,   base |-> "s", units |-> <<"m", "h">>]
metric_units == [scale |-> 1000, base |-> "",  units |-> <<"k", "m", "g", "t", "p">>]

Multiple(m, i) == FoldFunction(LAMBDA a, b : a * b, 1, [j \in 1..i |-> m.scale])

scan_units(arg, m) ==
    IF arg.unit \in {"", m.base} THEN {arg.base % (UINT64_MAX + 1)}
    ELSE {(arg.base * Multiple(m, i)) % (UINT64_MAX + 1) : i \in {i \in DOMAIN m.units : m.units[i] = arg.unit}}

(* parse_args: "usage" for what it refuses.  The flags that only select what   *)
(* is sent or how it is paced belong to the other modules.                     *)
Defaults == [threads |-> 2, connections |-> 10, duration |-> 10, timeout |-> SOCKET_TIMEOUT_MS, rate |-> 0,
             record_all_responses |-> TRUE, print_all_responses |-> FALSE, print_realtime_latency |-> FALSE,
             ok |-> TRUE]

Numeric == [t |-> "threads", c |-> "connections", R |-> "rate", d |-> "duration", T |-> "timeout"]

SetNumber(cfg, opt) ==
    LET n == scan_units(opt.arg, IF opt.flag \in {"d", "T"} THEN time_units ELSE metric_units)
    IN  IF n = {} THEN [cfg EXCEPT !.ok = FALSE]
        ELSE [cfg EXCEPT ![Numeric[opt.flag]] = (CHOOSE v \in n : TRUE) * (IF opt.flag = "T" THEN S ELSE 1)]

parse_option(cfg, opt) ==
    CASE ~cfg.ok                    -> cfg
      [] opt.flag \in DOMAIN Numeric -> SetNumber(cfg, opt)
      [] opt.flag = "P"             -> [cfg EXCEPT !.print_all_responses = TRUE]
      [] opt.flag = "p"             -> [cfg EXCEPT !.print_realtime_latency = TRUE]
      [] opt.flag = "B"             -> [cfg EXCEPT !.record_all_responses = FALSE]
      [] OTHER                      -> [cfg EXCEPT !.ok = FALSE]

parse_args(options) ==
    LET cfg == FoldLeft(parse_option, Defaults, options)
    IN  [cfg EXCEPT !.ok = /\ cfg.ok /\ cfg.threads # 0 /\ cfg.duration # 0
                           /\ cfg.connections # 0 /\ cfg.connections >= cfg.threads
                           /\ cfg.rate # 0]

-----------------------------------------------------------------------------
VARIABLES
    cfg,        \* the parsed command line
    run,        \* "usage", "running", "dead" (by a signal), "printed"
    clock,      \* the position in Instants
    stop,       \* set by the handler of SIGINT
    threads,    \* the threads' structures, with their connections
    statistics  \* the histogram of sampled rates
vars == <<cfg, run, clock, stop, threads, statistics>>

time_us == Instants[clock]
stop_at == Instants[1] + cfg.duration * S * MS

connections == cfg.connections \div cfg.threads
throughput  == cfg.rate \div cfg.threads
target      == throughput \div 10

\* uncounted \o starts is actual_latency_start from c->complete up to c->sent;
\* c->complete does not count the responses of uncounted, which came after stop_at
NewConnection == [start |-> 0, starts |-> <<>>, uncounted |-> <<>>]
\* recorded, early, late and rated are history: the latencies recorded, how many
\* of them before the calibration, how many responses came after stop_at, and how
\* many the rates account for
NewThread == [pc |-> "created", complete |-> 0, requests |-> 0, start |-> 0, interval |-> 0,
              latency |-> hdr_init, real |-> hdr_init, monitored |-> 0, timeouts |-> 0,
              due |-> <<>>, cs |-> [c \in 1..connections |-> NewConnection], raw |-> [j \in 0..MAXL - 1 |-> 0],
              printed |-> <<>>, recorded |-> <<>>, early |-> 0, late |-> 0, rated |-> 0]

\* main up to pthread_create, in which threads is what parse_args allows
Init == /\ cfg \in {parse_args(options) : options \in Commands}
        /\ run = IF cfg.ok THEN "running" ELSE "usage"
        /\ clock = 1 /\ stop = FALSE
        /\ threads = IF cfg.ok THEN [t \in 0..cfg.threads - 1 |-> NewThread] ELSE <<>>
        /\ statistics = hdr_init

Pending(thread) == SumFunction([c \in DOMAIN thread.cs |-> Len(thread.cs[c].starts)])
Becomes(t, thread) == threads' = [threads EXCEPT ![t] = thread]
Dies == run' = "dead" /\ UNCHANGED <<cfg, clock, stop, threads, statistics>>

\* thread_main up to aeMain; the interval of a connection is divided by the
\* throughput of its thread
thread_main(t) ==
    /\ run = "running" /\ threads[t].pc = "created"
    /\ IF throughput = 0 THEN Dies
       ELSE /\ Becomes(t, [threads[t] EXCEPT
                  !.pc = "running", !.start = time_us,
                  !.due = [calibrate      |-> time_us + (CALIBRATE_DELAY_MS + connections) * MS,
                           check_timeouts |-> time_us + (TIMEOUT_INTERVAL_MS + connections) * MS]])
            /\ UNCHANGED <<cfg, run, clock, stop, statistics>>

\* the loop of the thread runs; after aeStop, what is left of its last pass
Looping(t) == run = "running" /\ threads[t].pc \in {"running", "stopping"}

\* socket_writeable, when it is time to send
socket_writeable(t, c) ==
    LET conn == threads[t].cs[c] IN
    /\ Looping(t)
    /\ threads[t].complete + Pending(threads[t]) < MaxSends \div cfg.threads
    /\ Becomes(t, [threads[t] EXCEPT !.cs[c] = [conn EXCEPT !.start = time_us, !.starts = Append(@, time_us)]])
    /\ UNCHANGED <<cfg, run, clock, stop, statistics>>

\* Mutant of Windowed: the histogram of the window is not reset.
WindowedAll(t, thread) ==
    IF thread.monitored # target THEN thread
    ELSE [thread EXCEPT !.printed = IF cfg.print_realtime_latency /\ t = 0
                                    THEN Append(@, hdr_value_at_percentile(thread.real, 99000)) ELSE @,
                        !.monitored = 0]

\* the window of `target` responses over which the 99th percentile is written
Windowed(t, thread) ==
    IF thread.monitored # target THEN thread
    ELSE [thread EXCEPT !.printed = IF cfg.print_realtime_latency /\ t = 0
                                    THEN Append(@, hdr_value_at_percentile(thread.real, 99000)) ELSE @,
                        !.monitored = 0, !.real = hdr_init]

Recorded(t, thread, latency) ==
    LET filled == Windowed(t, [thread EXCEPT !.latency = hdr_record_value(@, latency),
                                             !.real = hdr_record_value(@, latency),
                                             !.monitored = @ + 1, !.recorded = Append(@, latency)])
    IN  IF cfg.print_all_responses /\ thread.complete < MAXL
        THEN [filled EXCEPT !.raw[thread.complete] = latency] ELSE filled

\* where a latency begins: the entry of c->complete
OldestStart(conn) == Head(conn.uncounted \o conn.starts)
\* c->complete moves on, except for a response after the end
Answered(conn, ended) ==
    LET noted == Append(conn.uncounted, Head(conn.starts))
    IN  [conn EXCEPT !.starts = Tail(@), !.uncounted = IF ended THEN noted ELSE Tail(noted)]

response_complete(t, c) ==
    LET conn    == threads[t].cs[c]
        latency == time_us - OldestStart(conn)
        counted == [threads[t] EXCEPT !.complete = @ + 1, !.requests = @ + 1, !.cs[c] = Answered(conn, time_us >= stop_at)]
        record  == time_us < stop_at /\ cfg.record_all_responses
    IN
    /\ Looping(t)
    /\ conn.starts # <<>>
    /\ IF record /\ ~(latency > 0 /\ Recordable(latency)) THEN Dies
       ELSE /\ Becomes(t, IF time_us >= stop_at
                          THEN [counted EXCEPT !.pc = "stopping", !.late = @ + 1]
                          ELSE IF record THEN Recorded(t, counted, latency) ELSE counted)
            /\ UNCHANGED <<cfg, run, clock, stop, statistics>>

Due(t, event) == Looping(t) /\ event \in DOMAIN threads[t].due /\ threads[t].due[event] <= time_us
At(thread, event, time) ==
    [thread EXCEPT !.due = [e \in DOMAIN @ \cup {event} |-> IF e = event THEN time ELSE @[e]]]
Without(thread, event)  == [thread EXCEPT !.due = Restrict(@, DOMAIN @ \ {event})]

\* Mutant of calibrate: the interval has no lower bound.
calibrate_unbounded(t) ==
    LET thread == threads[t] IN
    /\ Due(t, "calibrate")
    /\ \E interval \in {(2 * hdr_value_at_percentile(thread.latency, 90000)) \div MS} :
           Becomes(t, At(Without([thread EXCEPT !.latency = hdr_init, !.start = time_us, !.interval = interval,
                                                !.requests = 0, !.rated = @ + thread.requests,
                                                !.early = Len(thread.recorded)],
                                 "calibrate"), "sample_rate", time_us + interval * MS))
    /\ UNCHANGED <<cfg, run, clock, stop, statistics>>

\* the mean of an empty histogram is not a number, and not 0: it never returns
\* CALIBRATE_DELAY_MS
calibrate(t) ==
    LET thread == threads[t] IN
    /\ Due(t, "calibrate")
    /\ \E interval \in {AtLeast((2 * hdr_value_at_percentile(thread.latency, 90000)) \div MS, MinInterval)} :
           Becomes(t, At(Without([thread EXCEPT !.latency = hdr_init, !.start = time_us, !.interval = interval,
                                                !.requests = 0, !.rated = @ + thread.requests,
                                                !.early = Len(thread.recorded)],
                                 "calibrate"), "sample_rate", time_us + interval * MS))
    /\ UNCHANGED <<cfg, run, clock, stop, statistics>>

\* of unsigned readings: large when the clock is behind the start
Elapsed(thread) == ((time_us - thread.start) % (UINT64_MAX + 1)) \div MS

Sampled(t, rate) ==
    LET thread == threads[t] IN
    /\ statistics' = hdr_record_value(statistics, rate)
    /\ Becomes(t, At([thread EXCEPT !.requests = 0, !.start = time_us, !.rated = @ + thread.requests],
                     "sample_rate", time_us + thread.interval * MS))
    /\ UNCHANGED <<cfg, run, clock, stop>>

\* a quotient by zero is no number: the build makes it 0 or one beyond the range
sample_rate(t) ==
    LET elapsed == Elapsed(threads[t])
        rate    == (threads[t].requests * S) \div elapsed
    IN
    /\ Due(t, "sample_rate")
    /\ statistics.total < MaxSamples
    /\ IF elapsed = 0 THEN Dies \/ Sampled(t, 0)
       ELSE IF Recordable(rate) THEN Sampled(t, rate) ELSE Dies

\* Mutant of check_timeouts: only SIGINT ends the loop.
check_stop(t) ==
    /\ Due(t, "check_timeouts")
    /\ Becomes(t, At([threads[t] EXCEPT !.pc = IF stop THEN "stopping" ELSE @],
                     "check_timeouts", time_us + TIMEOUT_INTERVAL_MS * MS))
    /\ UNCHANGED <<cfg, run, clock, stop, statistics>>

\* a connection that has not sent yet counts, and so does one that is idle; the
\* age is unsigned
check_timeouts(t) ==
    LET thread == threads[t]
        maxAge == IF time_us >= cfg.timeout * MS THEN time_us - cfg.timeout * MS ELSE UINT64_MAX
    IN
    /\ Due(t, "check_timeouts")
    /\ Becomes(t, At([thread EXCEPT !.timeouts = @ + Cardinality({c \in DOMAIN thread.cs : maxAge > thread.cs[c].start}),
                                    !.pc = IF stop \/ time_us >= stop_at THEN "stopping" ELSE @],
                     "check_timeouts", time_us + TIMEOUT_INTERVAL_MS * MS))
    /\ UNCHANGED <<cfg, run, clock, stop, statistics>>

\* aeMain returns, and thread_main with it
Leave(t) ==
    /\ run = "running" /\ threads[t].pc = "stopping"
    /\ Becomes(t, [threads[t] EXCEPT !.pc = "gone"])
    /\ UNCHANGED <<cfg, run, clock, stop, statistics>>

\* bound: the last reading is far later; SIGINT comes before it, and only to a run
\* whose duration goes beyond it
handler == /\ run = "running" /\ ~stop
           /\ clock < Len(Instants) /\ Instants[Len(Instants)] < stop_at
           /\ stop' = TRUE
           /\ UNCHANGED <<cfg, run, clock, threads, statistics>>

\* the loop of a thread that sees the clock set back has all its events due
Noticed(thread) == [thread EXCEPT !.due = [event \in DOMAIN @ |-> 0]]

\* bound: threads begin at the first reading, and a timer whose time has come
\* fires by the next one, unless the clock is set back before its time
Tick == \E noticing \in SUBSET {t \in DOMAIN threads : Looping(t)} :
        /\ run = "running" /\ clock < Len(Instants)
        /\ \A t \in DOMAIN threads :
             /\ threads[t].pc # "created"
             /\ Looping(t) /\ clock > 1 => \A event \in DOMAIN threads[t].due :
                  threads[t].due[event] > Instants[clock - 1] \/ threads[t].due[event] > time_us
        /\ clock' = clock + 1
        /\ noticing # {} => Instants[clock + 1] < time_us
        /\ threads' = [t \in DOMAIN threads |-> IF t \in noticing THEN Noticed(threads[t]) ELSE threads[t]]
        /\ UNCHANGED <<cfg, run, stop, statistics>>

-----------------------------------------------------------------------------
(* What main does when the threads have returned.                              *)
Merged == FoldLeft(hdr_add, hdr_init, [i \in 1..cfg.threads |-> threads[i - 1].latency])

\* Mutant of RawFile: from the first entry of raw_latency on.
RawFileFromZero(t) ==
    IF cfg.print_all_responses
    THEN [j \in 1..(IF threads[t].complete < MAXL THEN threads[t].complete ELSE MAXL) |-> threads[t].raw[j - 1]]
    ELSE <<>>

\* the lines of a thread's file
RawFile(t) == IF cfg.print_all_responses
              THEN [j \in 1..(IF threads[t].complete < MAXL THEN threads[t].complete ELSE MAXL) - 1 |-> threads[t].raw[j]]
              ELSE <<>>

Percentiles == {50000, 75000, 90000, 99000, 99900, 99990, 99999, 100000}

\* what is printed once the threads are gone
Report ==
    LET h == Merged
    IN  [complete    |-> SumFunction([t \in DOMAIN threads |-> threads[t].complete]),
         timeout     |-> SumFunction([t \in DOMAIN threads |-> threads[t].timeouts]),
         min         |-> hdr_min(h),
         max         |-> hdr_max(h),
         count       |-> h.total,
         within      |-> stats_within_stdev(h),
         percentiles |-> [p \in Percentiles |-> hdr_value_at_percentile(h, p)],
         lines       |-> hdr_percentiles_print(h)]

print == /\ run = "running"
         /\ \A t \in DOMAIN threads : threads[t].pc = "gone"
         /\ run' = "printed"
         /\ UNCHANGED <<cfg, clock, stop, threads, statistics>>

Thread(t) == thread_main(t) \/ calibrate(t) \/ sample_rate(t) \/ check_timeouts(t) \/ Leave(t)
Threads   == \E t \in DOMAIN threads : Thread(t)
Traffic   == \E t \in DOMAIN threads : \E c \in DOMAIN threads[t].cs :
                 socket_writeable(t, c) \/ response_complete(t, c)
Next == Threads \/ Traffic \/ handler \/ Tick \/ print

\* threads are scheduled and the clock is read again; requests and responses may stop
Fairness == WF_vars(Tick) /\ WF_vars(print) /\ WF_vars(Threads)
Spec     == Init /\ [][Next]_vars
LiveSpec == Spec /\ Fairness

-----------------------------------------------------------------------------
(* Properties.                                                                 *)
\* the clock has been set back in this run
SetBack == \E i \in 1..clock - 1 : Instants[i + 1] < Instants[i]

\* the responses whose latencies are kept to the end: the j-th of the thread t
Kept == UNION {{<<t, j>> : j \in threads[t].early + 1 .. Len(threads[t].recorded)} : t \in DOMAIN threads}
LatencyOf(k) == threads[k[1]].recorded[k[2]]
Upto(v)  == Cardinality({k \in Kept : LatencyOf(k) <= v})
Below(v) == Cardinality({k \in Kept : LatencyOf(k) < v})
EndOf(v) == highest_equivalent_value(v)

\* The requests the report counts are those in its histogram, those recorded
\* before the calibration, those unrecorded and those after the end: none is
\* lost between the threads, the resets and the merge; and every response is in
\* one sample of the rate.
CountsReconcile ==
    run = "printed" => LET report == Report IN
        /\ ~cfg.record_all_responses => report.count = 0
        /\ cfg.record_all_responses =>
             report.complete = report.count + SumFunction([t \in DOMAIN threads |-> threads[t].early + threads[t].late])
        /\ \A t \in DOMAIN threads : threads[t].complete = threads[t].rated + threads[t].requests

\* Each printed percentile is the end of the range of the latency that has that
\* rank among the latencies of all threads, and the extremes are theirs.
ReportIsOfTheLatencies ==
    run = "printed" /\ Kept # {} =>
        LET report  == Report
            rank(p) == AtLeast((2 * p * Cardinality(Kept) + 100000) \div 200000, 1)
        IN  /\ \A p \in Percentiles : \E k \in Kept :
                 /\ Below(LatencyOf(k)) < rank(p) /\ rank(p) <= Upto(LatencyOf(k))
                 /\ report.percentiles[p] = EndOf(LatencyOf(k))
            /\ \E k \in Kept : /\ \A j \in Kept : LatencyOf(j) <= LatencyOf(k)
                               /\ report.max <= LatencyOf(k) /\ LatencyOf(k) <= EndOf(report.max)
            /\ \E k \in Kept : /\ \A j \in Kept : LatencyOf(k) <= LatencyOf(j)
                               /\ report.min <= LatencyOf(k) /\ LatencyOf(k) <= EndOf(report.min)

\* In the detailed spectrum, every line counts the latencies up to its value and
\* they make at least its percentile, a smaller latency would not, and it ends
\* at 100% with all of them.
SpectrumIsOfTheLatencies ==
    run = "printed" /\ Kept # {} =>
        LET report == Report
            n      == Cardinality(Kept)
        IN  /\ \A line \in report.lines :
                 /\ line.count = Upto(line.value)
                 /\ (Unit - line.rest) * n <= Unit * line.count
                 /\ line.rest # 0 => \A k \in Kept :
                      EndOf(LatencyOf(k)) < line.value => Unit * Upto(EndOf(LatencyOf(k))) < (Unit - line.rest) * n
            /\ \E line \in report.lines : line.rest = 0 /\ line.count = n

\* The share within a deviation of the mean is that of the latencies whose ranges
\* begin less than a unit below that interval or at most a unit above it: the
\* limits are cut to integers, and the first index that ends above is counted.
WithinIsAShare ==
    run = "printed" /\ Kept # {} =>
        LET n       == Cardinality(Kept)
            mid     == [k \in Kept |-> median_equivalent_value(LatencyOf(k))]
            total   == SumFunction(mid)
            square  == SumFunction([k \in Kept |-> (mid[k] * n - total) * (mid[k] * n - total)])
            begin(k) == lowest_equivalent_value(LatencyOf(k))
            above(d) == d > 0 /\ d * d * n > square
            below(d) == d >= 0 /\ d * d * n >= square
        IN  Report.within = Cardinality({k \in Kept : ~above((begin(k) - 1) * n - total) /\ ~below(total - (begin(k) + 1) * n)})

\* While the clock is not set back, the file of a thread has the latencies of its
\* responses in order, all of those that raw_latency holds but at most the last
\* one, and zeros only for responses after the end.
FileIsOfTheLatencies ==
    run = "printed" /\ cfg.print_all_responses /\ cfg.record_all_responses /\ ~SetBack =>
        \A t \in DOMAIN threads :
            LET file     == RawFile(t)
                recorded == threads[t].recorded
            IN  /\ \A j \in DOMAIN recorded : j < MAXL /\ j < Len(recorded) => j \in DOMAIN file
                /\ \A j \in DOMAIN file : file[j] = IF j \in DOMAIN recorded THEN recorded[j] ELSE 0
                /\ Len(file) <= AtLeast(Len(recorded) + threads[t].late - 1, 0)

\* The window of the 99th percentiles holds the latencies recorded since one was
\* last written and no other, fewer than its target.
WindowIsOfTheTarget ==
    \A t \in DOMAIN threads :
        LET thread   == threads[t]
            recorded == thread.recorded
            window   == Len(recorded) - thread.monitored + 1 .. Len(recorded)
        IN  /\ target > 0 => thread.monitored = Len(recorded) % target
            /\ thread.real.total = thread.monitored
            /\ \A j \in window :
                 thread.real.counts[counts_index_for(recorded[j])] =
                   Cardinality({i \in window : lowest_equivalent_value(recorded[i]) = lowest_equivalent_value(recorded[j])})

\* A signal ends a run only for a rate below one request a second for each
\* thread, for a response when the clock is not past the start its latency is
\* taken from (in the same microsecond, or set back), for a latency beyond the
\* histogram's range, or for a sample of the rate less than a millisecond past
\* the last one, which only a clock set back brings about: no command line that
\* parse_args accepts does otherwise, and no rate is out of the range.
DeathIsKnown ==
    run = "dead" => \/ cfg.rate < cfg.threads
                    \/ \E t \in DOMAIN threads : \E c \in DOMAIN threads[t].cs :
                         /\ threads[t].cs[c].starts # <<>>
                         /\ LET oldest == OldestStart(threads[t].cs[c])
                            IN  time_us <= oldest \/ time_us - oldest > highest_trackable_value
                    \/ SetBack /\ \E t \in DOMAIN threads :
                         "sample_rate" \in DOMAIN threads[t].due /\ Elapsed(threads[t]) = 0

\* Once SIGINT has come, or the duration is over and the clock is not set back to
\* before its end, the report is printed, with or without responses.
AlwaysReports ==
    (run = "running" /\ (stop \/ \A i \in clock..Len(Instants) : Instants[i] >= stop_at)) ~> (run # "running")
=============================================================================
