# Verification of three_tier_grpc

TLA+ modules, TLC configurations and TLAPS proofs for the three-tier gRPC benchmark
in this repository: four C++ services, a Go frontend and the load generator wrk2.
Paths below are relative to the repository's root.

## 1. The system

A load generator (`wrk2/`) sends HTTP requests to the frontend
(`frontend/frontend/main.go`). The frontend calls `rpc_0` of `service_0`, which
calls `rpc_1` of `service_1` and `rpc_2` of `service_2`; `service_1` calls `rpc_3`
of `service_3`. A service answers when all the rpcs it has sent have come back. All
processes are restarted by docker when they end (`docker-compose.yml`).

| Component | State | Operations | Talks to | What is hard |
|---|---|---|---|---|
| `service_0`, `service_1` (fan-out servers, `src/service_{0,1}/*.cpp`) | per request a heap object `Rpc_k_CallData`: `status_`, `_mtx`, `getResponse[]`, the grpc call; completion queues of the server and of each client | `Proceed(ID)` in the states CREATE, PROCESS, FINISH, DESTROY; `Forward`; the loops of `Run` and `AsyncCompleteRpc` | callers by grpc, downstream by grpc | a thread per tag and a thread per client enter one object; the object frees itself; exceptions are swallowed |
| `service_2`, `service_3` (leaf servers) | the same object without mutex and responses | `Proceed()`, the loop of `Run` | callers by grpc | the reply is published before `status_` is stored, and an object is registered before its constructor has ended |
| `protos/helloworld.proto` | - | four unary rpcs | - | the contract of the services |
| frontend | a request counter, one channel | the HTTP handler | `service_0` | concurrent handlers share the counter; errors are ignored |
| deployment | which processes run | death, restart | - | work in flight belongs to processes that are gone |
| wrk2: a connection (`wrk2/src/wrk.c`, `net.c`) | `thread_next`, `estimate`, `sent`, `complete`, `written`, the ring `actual_latency_start`, the fd, the registered handlers, pending timers | `connect_socket`, `reconnect_socket`, `usec_to_next_send`, `delay_request`, `socket_connected`, `socket_writeable`, `socket_readable`, `response_complete` | a server by HTTP, the event loop | pipelining; timers and handlers of a connection that is gone; counters that survive it; a server that stops reading |
| wrk2: a thread, the report | histograms, `start`, `interval`, `requests`, `stop_at`; the global `stop` and `statistics` | `calibrate`, `sample_rate`, `check_timeouts`, `main` | connections, main thread | calibration in mid-run, divisions by small numbers, what the report reads; a clock that is set back |
| wrk2: reading responses (`wrk.c`, `net.c`, `script.c`) | `c->parser`, the header and body buffers with their cursors, `c->state` | `socket_readable`, the parser's callbacks, `script_response`, `script_verify_request` | parser, script | a response comes in segments cut anywhere, several in one segment; buffers survive a reconnect |
| wrk2: `http_parser.c` | state, flags, `nread`, `content_length`, header matching | `http_parser_execute`, `http_parser_parse_url`, `http_should_keep_alive` | callbacks, which change the parser under its feet | marks across buffers, limits, when a message ends |
| wrk2: event loop (`ae.c` and four pollers) | registered events, time events, `maxfd`, `lastTime`, fired events | create, delete, process | handlers | handlers change what the loop iterates over; the loop, the poller and the connection each have a record of a descriptor; the numbers belong to the process, which has several loops |
| wrk2: `hdr_histogram.c` | counts | record, add, reset, iterate, percentile | thread, report | bucket arithmetic at the boundaries |
| wrk2: `stats.c`, `units.c` | histograms, samples | mean, deviation, share within it, `scan_units` | report | ranges of equal values, truncation |
| wrk2: Lua bindings (`script.c`) | - | tables in and out of Lua | script | - |

Vendored or generated and left alone: LuaJIT, `zmalloc.c`, `tinymt64.c`, `ssl.c`'s
OpenSSL, the `*.pb.*` files, the cmake modules. (`http_parser.c` and
`hdr_histogram.c` come from elsewhere too, but what wrk2 reports stands and falls
with them, so they are modelled.) `src/greeter_async_client.cpp` makes one call by
hand, and `src/tracing.h` adapts a map for opentracing: neither has control of its
own.

### What makes each part correct

* *Fan-out server.* One activation at a time is inside an object; a request is
  answered once, and after all its downstream rpcs; an rpc is not sent twice; the
  service is always listening with one object; nobody refers to an object that has
  been deleted; every request is answered.
* *Leaf server.* The same, as far as it can be had without a mutex.
* *Deployment.* What the frontend is told matches what the tiers did; a failure
  stays where it belongs; everything that was started comes to an end.
* *Connection.* Requests follow the schedule, neither ahead of it nor stopped by a
  server that is slow to answer; a live connection never loses its pacing; a latency
  is that of its own request.
* *Responses.* However they are cut into segments, they are complete at their last
  byte and the script gets what was sent; a response is not lost without being
  counted as an error, and a connection not given up without need.
* *Event loop.* Time events run neither early nor much too late, and the loop ends;
  events of a closed descriptor are not delivered to its successor; the records of
  loop, poller and connections agree.
* *Histogram, report.* A value recorded is found in its percentile within the
  precision promised; what is printed is what was recorded, of all threads, with
  nothing lost on the way; the run ends with a report.

The hazards, each at its line and with the properties that watch it, are listed in
`PROJECT.json`.

## 2. Modules

| Module | Models | Role |
|---|---|---|
| `RpcContract` | `helloworld.proto`: a unary rpc with downstream calls | abstract specification |
| `FanoutService` | `service_0.cpp`, `service_1.cpp` | the detailed server; `RefinesContract` |
| `FanoutProofs` | - | theorems about `FanoutService` |
| `LeafService` | `service_2.cpp`, `service_3.cpp` | the server without a mutex |
| `LeafProofs` | - | theorems about `LeafService` |
| `ThreeTier` | frontend, four services, crashes, restarts | composition; each tier is an instance of `RpcContract` |
| `ThreeTierProofs` | - | theorems about `ThreeTier` |
| `WrkConnection` | one connection of `wrk.c` | the load generator's pacing |
| `WrkProofs` | - | theorems about `WrkConnection` |
| `HttpUrl` | the URL part and the character classes of `http_parser.c`; the URL helpers of `script.c` | pure operators |
| `HttpMessage` | `http_parser_init`, `http_message_needs_eof`, `http_should_keep_alive` | pure operators |
| `HttpParser` | `http_parser_execute` | pure operators, one for each group of parser states |
| `HttpClient` | `socket_readable`, the callbacks, the buffers, `script_response`, `script_create`, `script_verify_request` | what is read, on `HttpParser` |
| `HdrHistogram` | `hdr_histogram.c`, `stats.c` | pure operators |
| `WrkReport` | `main`, `parse_args`, `thread_main`, `calibrate`, `sample_rate`, `check_timeouts`, `response_complete`'s records, `units.c` | what is counted and printed, on `HdrHistogram` |
| `ReportProofs` | - | theorems about `HdrHistogram` and `WrkReport` |
| `AeTimers` | the time events of `ae.c` and `wrk.c`'s handlers of them | when handlers run, when the loop ends |
| `AeFiles` | the file events of `ae.c`, `ae_epoll.c`, `ae_select.c`, `ae_kqueue.c`, `ae_evport.c`, several connections | descriptors that are closed and reused |
| `AeTimersProofs`, `AeFilesProofs` | - | theorems about the two halves of the event loop |
| `NumberLemmas` | - | division, remainders, multiples, least and greatest numbers: what several proofs need of arithmetic |
| `MCFanout`, `MCLeaf`, `MCThreeTier`, `MCWrk`, `MCHttp`, `MCReport`, `MCAeTimers`, `MCAeFiles` | - | instances for TLC |

`FanoutService` and `ThreeTier` meet in `RpcContract`: the first shows that the
threads of one process implement it, the second that four services that implement
it, call each other and may die behave as a whole. wrk2 is cut by question:
`WrkConnection` is about when requests go out, `HttpClient` about what comes back,
`WrkReport` about what is made of the times, `AeTimers` and `AeFiles` about who is
called when. Each leaves the others' part arbitrary: in `WrkReport` requests and
responses come at any reading of the clock, in `HttpClient` at any time.

### FanoutService

An object is named by its memory block, so that a reused block is a new object under
an old name. `pc[b][a]` says where `Proceed` stands for object `b` and activation
`a`; an activation is a client's response (`a = r`, `Proceed(r)`), the tag of a
request or the tag of a reply (both `Proceed(-1)`). One action is the code between
two points at which another thread can see a difference:

| Actions | Code (`service_0.cpp`) |
|---|---|
| `Dispatch` | the loop of `Run`: `Next`, `GPR_ASSERT`, a detached thread |
| `Respond` | `AsyncCompleteRpc`: one thread per client, blocked in `call_->Proceed(requestID)` until it returns |
| `Lock`, `Unlock` | `cv_lock`, its `unlock()` |
| `StartProcess`, `CtorReturn`, `Forward`, `EndProcess` | PROCESS: `new` (whose constructor runs the CREATE branch under its own mutex), the two `Forward`s, `status_ = FINISH` |
| `Record`, `AwaitMore`, `Finish`, `MarkDestroy` | FINISH |
| `Delete`, `StaleUnlock` | DESTROY: `delete this`, and the `unlock()` that follows it on the freed mutex |
| `Throw` | `catch (...)` |
| `FinishTwice` | grpc's own assertion on a second `Finish` (it is fatal) |
| `Send`, `Accept` | clients and grpc |

Left out: the spans, the random service time, the seed, `sent[]` (written and never
read), printing. `getResponse[-1]` of an activation with ID -1 in FINISH writes
outside the array, into `sent[]`; the model lets it have no effect.

### LeafService

The same scheme without mutex. `Finish` and `MarkDestroy` are two steps since the
reply's tag is in the completion queue between them. `StartProcess` registers the new
object and `CtorReturn` is the constructor's end: it seeds `gen` after the registration,
so that `maker` says who may still write into the object. After a second `Finish` grpc
aborts the process (`aborted`), as it does in `FanoutService`.

### ThreeTier

A call object is its `stage` and the responses it has recorded (`got`); a process is
`up` or not. `Die` is what a death leaves behind: the requests of the service are
lost, its callers get an error (also in place of replies still on their way), and
its own downstream calls are orphans. `AssertOk` is `GPR_ASSERT(ok)` in `Run`: the
tag of a reply to a dead caller comes back without ok. `Restart` is `restart:
always`. The frontend never dies in the model.

### WrkConnection

One action per handler of the event loop, each a whole handler; `socket_writeable` is
`Delay` or `Write`. The clock counts units of which `Interval` make the interval of
the fixed distribution. `thread_next` and `estimate` are the code's;
`actual_latency_start` holds the number of the request whose time the code stores,
which is what tells a right latency from a wrong one. `wire` holds the complete
requests the server has not answered on this connection, `timers` the pending
`delay_request` events, `wproc` and `rproc` the handlers registered.
`reconnect_socket` stands for a failure met by any handler (a read, a write or a
parser error) and, inside `response_complete`, for a response without keep-alive. A
failed connection leaves its timers, `sent`, `complete` and `written` behind, as in
the code. `full` says that the send buffer has no room: the poller does not report the
fd then, and a handler that runs all the same (`Retry`) has computed the due time and
returns; `Drain` is the server reading. Left out: responses after `stop_at` (they are
in `WrkReport` and `HttpClient`), other distributions, scripts, the other connections
of a thread.

### HttpUrl, HttpMessage, HttpParser, HttpClient

Here bytes matter: where a segment is cut decides which callbacks are made, so
messages are strings, and the parser reads them byte by byte. The parser's state `p`
is the fields that `struct http_parser` keeps between two buffers. An execution `s`
adds the buffer, the position, the marks and the caller's state. A group of parser
states that do the same thing is one operator (`LiteralByte`, `MethodByte`,
`FieldBytes`, `ValueBytes`, ...) or one table (`Literal`, `UrlRules`, `HostRules`):
the C switch has a case for each. `Callback` is a parameter, since
`response_complete` calls `http_parser_init` on the parser that is executing it: the
model has the parser continue with what the callback left, as the code does.
A byte makes at most one callback: it is recorded in `due` and `Deliver` makes it, after
which the code only moves the position and counts header bytes.
`asserts` records the parser's `assert`s. One byte is missing: the grave accent, a token
and a URL character of the code, cannot be written in a TLA+ string, so that no buffer
of the model has it.

`HttpClient` instantiates it with the callbacks of `wrk.c`. `Setup` is the way of the
URL argument: `script_parse_url`, the parts put into Lua, the request that `wrk.lua`
formats from them (external: `Format`), and `script_verify_request`. Then `Connected`,
one `socket_readable` per segment, the end of a connection in the three ways it is
noticed (`ReadEof`, `ReadError`, `WriteError`). `dialed` counts the calls of
`reconnect_socket`: `response_complete` makes one and `socket_readable` goes on with
what is left of its buffer, so that one `socket_readable` may make two (`Dials`). The
header buffer is memory with a cursor, uninitialised where nothing was written, so
that what `script_response` finds in it is what is there. The history `c.call` is the
last call of `response()`, `c.spoilt` says that a connection went down in mid-response
since.

### HdrHistogram, WrkReport

`HdrHistogram` has the bucket arithmetic, `hdr_record_value`, `hdr_add`, the
iterators that have a caller, percentiles, mean, deviation and the printed spectrum
as functions of the counts. Ratios are compared by products, percentiles are
integers (99.9 is 99900) and the distance of a percentile to 100 is counted in
`Unit`s, so that nothing is rounded where the code has doubles that matter. Three
assumptions are named: `HdrAssumption` is what `hdr_init` accepts,
`WidthAssumption` that the size of a range, which the code computes as an `int`, is
one (those of wrk go up to 2^26), and `TicksAssumption` that the ticks of the percentile
iterator are not none.

`WrkReport` starts from the command line (`parse_args`, `scan_units` with its
wrap-around; an `Option` is a flag and what sscanf finds in its argument, `Multiple`
the product of the loop over the units). A thread is a record with the fields of
`struct thread`, the connections' ring of start times from `complete` to `sent`, and
history: the latencies recorded, how many before the calibration, how many responses
after the end. `Dies` is a signal: a failed `assert` or a division by zero. `stopping`
is the rest of the last pass after `aeStop`, in which other handlers may still run.
The clock is gettimeofday: its readings `Instants` need not ascend. When it is set
back, the loop of a thread may notice (`Noticed`, the rule of `ae.c:255`: all time
events are due at once) or not, `Elapsed` is unsigned, and the run may go on after a
response that came at its end: such a response does not count in `c->complete`, so
that a connection keeps its start time in `uncounted`, where the next latency is taken
from. `print` is what `main` does when it has joined the threads, with `Report` and
`RawFile` as what it writes. `Kept` are the responses whose latencies the report is
about, named by thread and number, so that the properties compare what is printed with
the responses and not with a histogram.

### AeTimers, AeFiles

The event loop in two modules, each of which leaves the other's half arbitrary: in
`AeTimers` a file event may wake the loop at any time and its handler may create a
time event; in `AeFiles` the time events armed may run in any order between two
calls of the poller.

`AeTimers` counts milliseconds, `Second` of which make a second, since the code
computes with both fields. `phase` is where `aeProcessEvents` stands: before
`aeApiPoll`, asleep in it, in the file events, in the walk of `processTimeEvents`.
`clock` is what gettimeofday returns and may be set once; `up` is the time that has
really passed, and `due` when an event should run by it. One action is one turn of
the walk's loop: `Skip` or one handler with the re-arming (`ReArm`) or deletion
(`NoMore`) that follows it. `Timeout` is the computation of `tvp` with its two
separate cuts to zero.

`AeFiles` keeps in `loop` the loop's record (`mask`, `rproc`, `wproc`, `data`,
`maxfd`), the poller's (`open`, `interest`, for event ports `pending`) and the
connections' `fd`. The operators on it are the functions of the code
(`CreateFileEvent`, `DeleteFileEvent`, `ConnectSocket`, `Reconnect`), and a handler
is the set of its outcomes. `api` is the poller of the build, chosen at the start:
the four differ in what `ApiAdd` and `ApiDel` tell the kernel, in what they refuse
(`ApiAccepts`) and in what one call reports (`epoll_wait`, `select`, `kevent`,
`port_getn`; each may report nothing, and an event port re-associates first:
`Reassociated`). One action is the readable or the writable half of one entry of
`fired`; `rfired` and the comparison of the two handlers are the code's. `setsize`
is left out: it is 10 + 3 per connection, and `RecordsAgree` says that no descriptor
is lost. The model is one thread's loop; the other threads of the process are `Other`,
who opens numbers and closes its own (`OtherOpens`, `OtherCloses`) at any moment,
also between the `close` and the `socket` of a `reconnect_socket`. They run the same
code: when a connect of theirs fails at once, they may be left with a number they have
closed and close it again, whoever has it by then (`strays`). `crossed` is history: a
number has been used by two threads.

## 3. Runs

| Run | Instance | Question and outcome |
|---|---|---|
| `fanout` | N = 2, 4 blocks, 2 requests, 2 exceptions | safety, liveness and refinement of `service_0`; the inductive invariant `IInv`. What holds only without exceptions says so (`faults = 0`) |
| `fanout_reuse` | N = 2, 3 blocks, 3 requests, blocks reused | only the unlock after `delete this` can break the mutex |
| `fanout_twice` | 2 blocks, 3 requests, blocks reused | it does, and a request is answered twice: *violation* |
| `leaf` | 5 blocks, 3 requests | what the unlocked `status_` can cause, and cannot |
| `leaf_twice` | the same | a request is served and answered twice: *violation* |
| `tiers` | 1 request, 2 crashes | where errors and assertion failures go; everything that was started ends; a service keeps its contract while it and its caller live |
| `wrk` | interval 2, 2 writes per request, ring of 2, 10 units, 2 resets, connects that may fail, a send buffer that may be full | pacing, attribution of latencies, open loop |
| `http` | 300 URLs, every method; 9 response streams, then 2 on the next connection | from the URL to the request, from any segmentation to the script |
| `report` | 8 command lines, 5 readings of the clock of which the fourth is before the third and before the end, 3 requests, 3 samples | what is printed is what was recorded; what can kill the program; the report comes |
| `ae_timers` | second of 3 units, run of 3, checks every 3, 4 events, clock set by -5 or +2, handlers take up to 2 | handlers run neither early nor later than a second and a pause of the loop, the loop ends in time |
| `ae_late` | the same, clock not set | an overdue event waits for up to a second more: *violation* |
| `ae_files` | 4 pollers, 2 connections, 3 descriptors, 4 connects, 1 descriptor opened by another thread | stale events and stale numbers, within the thread and across threads |

`service_1` is `FanoutService` with N = 1; the theorems of section 4 hold for every
N, and the larger instance is the one that is run.

### Bounds

*Servers.* A hazard of one object needs at most its request's thread, its clients'
threads and the reply's tag; two objects matter because the client threads are
shared. There is one block per request, one for the last listener and one more for
an exception that runs PROCESS twice. With `Reuse` there are fewer blocks than
objects, so that blocks do get reused. Two exceptions are one more than any single
cause needs (the second meets an object the first has left half done). In
`LeafService` an early reply tag allocates one more listener: five blocks allow one
of them beside three requests and the last listener. In `ThreeTier` one death from
outside already causes up to two by assertion down the tiers, and a second finds the
restarted services; two requests with one death, too large for liveness, were tried
for the safety properties without a difference.

*Connection.* A ring of two is overrun by a slow server within the run, ten units
are five requests, two resets leave two generations of timers, and two chunks make a
partial write. The buffer may fill at any write and be drained or not.

*Responses.* The streams have each kind of framing (length, chunks, none, the end of
the connection), folded and empty header values, a trailer, keep-alive and close of
both versions, and what must be refused. Segments of 1, 2, 7, 30 and 200 bytes in
any order, on the first connection, cut every token in two somewhere, and leave
several responses in one segment. The limits are small so that they are met:
`RECVBUF` 200, `BUFGROW` 16, headers of at most 110 bytes, `ULLONG_MAX` 255 (an
overflow of `content_length` takes three digits). Two connections: a loss and a
successor.

*Report.* A histogram up to 500 with one significant digit has several buckets; `MS`
and `S` are 10. The readings are 1000, 1036, 1103, 1037 and 2900 us: latencies of 36
and 37 share a range; the third is beyond the end of the shorter runs (1100); the
fourth is before that end, behind requests that are under way, and within a
millisecond of a calibration at the second; the last puts a latency beyond the
histogram and makes all timers due. Three requests and three samples of the rate are
shared by the threads, `MAXL` is 4. Bounds on the behaviours: threads begin at the
first reading, a timer fires at the reading after its time at the latest, and SIGINT
comes before the last reading and only to a run whose duration goes beyond it (so
that runs are stopped in both ways). The constraint `OneThreadSetBack` follows the
clock beyond the third reading, that is where it is set back, in runs of one thread:
threads share `stop`, `statistics` and the merge, none of which reads the clock. Runs
of two threads are followed up to the third reading, by which those of a second are
over and those of a minute may have had SIGINT; that they report is checked as far as
no later reading is needed for it.

*Event loop.* A second of three units tells a borrow from a carry, a step back of
five is more than a second and the longest sleep, and a fourth event is enough for
one that is created while the walk is under way. Two connections can swap a number, and
a third descriptor allows for one that stays free or is another thread's. Four connects
leave each connection a successor, or one of them two failures, and one descriptor of
another thread is enough for every way in which a number comes to be used by two.

`MCFanout` and `MCLeaf` use interchangeable blocks and requests in the order of
their numbers (the constraint `InOrder`). It leaves out permutations only, and every
action with a fairness condition keeps a successor that satisfies it, so it is sound
for liveness, where a symmetry set is not. `MCAeFiles`, whose connections are
interchangeable and which has no liveness property, uses symmetry.

### Deadlock

`CHECK_DEADLOCK FALSE` everywhere: clients send finitely many requests, a clock
ends, and an aborted process does nothing. That the systems do not stop while there
is work is stated by the liveness properties instead.

### Fairness

*Servers*: threads that can run are run (`std::thread`, detached), the loop of `Run`
takes every tag, grpc hands requests to registered objects, and a downstream rpc
ends. The last is an assumption the code makes: it sets no deadline. `Throw` and
`Send` are not fair. *ThreeTier*: services that are up serve, processes that are
down are restarted (docker), responses are taken; crashes and drops are not fair.
*WrkConnection*: the clock goes on, and the loop runs due timers and the handlers of
registered events that the poller reports; that of a writable event it reports while
the send buffer has room (`WF` of `Write` and of `Delay` without `full`). Completing a
connect, reading what is sent, responses and failures are the server's and not fair:
it may be silent for ever, and `OpenLoop` names the two ways in which that stops the
requests. *WrkReport*: the clock goes on and the threads and
`main` are scheduled; requests and responses are not fair. *AeTimers*: time passes
(strongly, since the loop may be woken again and again without any), and the loop
takes its next step. `HttpClient` and `AeFiles` state no liveness: what they model
waits for a server, who may be silent.

## 4. Proofs

All theorems are checked by TLAPS for every value of the constants that the
assumptions named in the modules allow. A theorem that assumes more says so in its
ASSUME, and in the tables.

Each component's proof has the same shape. `IInv`, stated at the end of the
component's module in named parts, is inductive: `Init => IInv`, and every action
keeps it. The properties that the runs check follow from it, the action properties
from one step under it. Before it was proved, each `IInv` was checked by TLC on the
instance of its component's run (`fanout` still lists it, since it contains what no
other property of that run says). That of `ReportProofs` is stated there, with sets
that TLC cannot enumerate; the properties of the run `report` that follow from it
are checked.

### The fan-out server (`FanoutProofs`)

For every number of blocks, requests and exceptions, and of downstream rpcs where
the table says nothing else:

| Theorem | Statement | Assumptions |
|---|---|---|
| `TypeCorrect` | `Spec => []TypeOK` | - |
| `Invariance` | `Spec => []IInv` | blocks are not reused |
| `Exclusive` | `Spec => []MutexExclusion` | blocks are not reused |
| `AnsweredOnce` | `Spec => []NeverAborted` | blocks are not reused |
| `ForwardedOnce` | `Spec => ForwardsOnce` | blocks are not reused |
| `DeletedIsQuiet` | `Spec => []FreedIsQuiet` | blocks are not reused, N <= 2 |
| `DeletedIsQuietAnyN` | `Spec => [](faults = 0 => FreedIsQuiet)` | blocks are not reused |
| `Implements` | `Spec => RefinesContract` | blocks are not reused |

That blocks are not reused is needed, as `fanout_twice` shows: what is proved is
that the unlock after `delete this` is the one thing in the way.

* `RawInv`: nothing refers to a block that holds no object yet, so a `new` starts
  from nothing.
* `MutexInv`: whoever is inside an object owns its mutex; an unlock that is pending
  on a deleted object finds nobody inside.
* `StatusInv`: an activation inside still sees the `status_` it has tested. Without
  mutual exclusion this would be false, and the second `Finish` possible.
* `CallInv`: a request belongs to one object, and is answered exactly when the
  object's status is DESTROY or the thread that answered it is about to say so.
* `NeverAborted`: a second `Finish` would need an activation in "check", hence
  status FINISH, on an answered request, which `CallInv` allows only to a thread in
  "mark", which would be the same one.
* `OrderInv`: where each downstream call is (`FlightInv`: not sent, in flight or
  recorded), which activation fans out and how far it has come (`FanOutInv`), that
  the request's tag is before all calls (`FirstInv`), that the reply's tag is after
  them and the last (`LastInv`), and that an answered request has recorded them all
  (`RepliedInv`). `FreedIsQuiet` is its consequence for a deleted object.

`OrderInv` holds for two downstream rpcs or fewer, which is what `service_0` and
`service_1` have, with any number of exceptions; and for any number without an
exception. With three rpcs and an exception before the third `Forward` it is false,
and so is `FreedIsQuiet` (TLC finds it with N = 3 and `MaxFaults` = 1): the first
response starts the fan-out again, the second client is called twice, and its second
response can come when the object has been deleted. Hence the case distinction
(`Orderly`).

`Implements` maps `done` to the downstream calls an object has recorded; every step
of the server is a step of `RpcContract` or leaves it alone.

### The leaf server (`LeafProofs`)

For any sets of blocks and requests (not even finite ones):

| Theorem | Statement |
|---|---|
| `TypeCorrect` | `Spec => []TypeOK` |
| `AbortsByEarlyTag` | `Spec => []AbortIsEarlyTag` |
| `FreedQuietly` | `Spec => []FreedIsQuiet` |
| `OneListener` | `Spec => []ListenersMatch` |

There is no mutex to reason from; the order of an object's two activations takes its
place. The inductive invariant is `LeafInv`:

* `MakerInv`: a `new` is waited for by one activation, so that the constructor's
  return moves one thread.
* `WaitInv`: an object without a request is touched by nobody but grpc.
* `ServeInv`: before the reply there is only the request's activation, and `status_`
  is PROCESS; after it there is that of the reply's tag, and `status_` is DESTROY as
  soon as the first has left "mark". The reply's tag may run before that, which is
  what `leaf_twice` shows; it can then only be the one that finishes twice.
* `OwnerInv`: a request is accepted by one object.

`FreedIsQuiet` has an exception, `CtorIsLate`: the thread that made the object may
still be inside its constructor. `MakerInv` says that this is one activation in its
`new`, and `ServeInv` that the object it belongs to is then not freed, and that its
request is not yet answered or is being served once more.

`ListenersMatch` counts two sets of objects, those that take the next request and
those whose reply's tag is served as a request. `BalancedStep` shows that they
change together: only the allocation of an object changes either, by one, and both
for a reply's tag. That the sets are finite is part of the induction.

### The deployment (`ThreeTierProofs`)

For any number of requests and of deaths:

| Theorem | Statement |
|---|---|
| `TypeCorrect`, `Invariance` | `Spec => []TypeOK`, `Spec => []IInv` |
| `AssertsDown` | `Spec => []AssertsSpreadDown` |
| `ErrorsAreOfS0` | `Spec => []ErrorsStopAtS0` |
| `SuccessSettles` | `Spec => []SuccessIsSettled` |
| `Contracts` | `Spec => KeepsContracts` |

Neither "only a service whose caller has died dies by the assertion" nor "success
means that nothing is left to do" is inductive. A death spreads along orphans, so
one has to know who can have them: `DeathInv` (an orphan's caller has died, a
service that is down has died, and `s0` has no orphans since the frontend does not
die). That an answer that is owed still finds its caller waiting is `WaitInv`, which
needs `UnsentInv` (below a request that was not accepted nothing has started) for
the moment the calls go out. `OrphanInv` says what orphans tell of their caller's
request, and hence of the answer the frontend has got. `Contracts` follows step by
step: each action of the composition is, for each of the four services, a step of
`RpcContract` or leaves it alone, unless the service or its caller has died.

### The connection (`WrkProofs`)

For every interval, number of writes per request, ring size, length of the run and
number of resets:

| Theorem | Statement |
|---|---|
| `TypeCorrect`, `Invariance` | `Spec => []TypeOK`, `Spec => []IInv` |
| `Paced` | `Spec => []NeverAhead` |
| `OwnLatency` | `Spec => LatencyIsOwnUntilLoss` |

`PaceInv` is the reason for `NeverAhead`: `thread_next` is the due time of request
`estimate`, which is at most one beyond those sent, however often `connect_socket`
has run in between. `RingInv` says that the slots of the last `Ring` requests hold
their own times (two numbers less than `Ring` apart have different slots: lemma
`Apart`), and `WireInv` that the oldest response on the wire has the number
`complete` as long as none was lost. The two together give `OwnLatency`.

### Time events (`AeTimersProofs`)

For every length of a second, duration, delays and intervals of the handlers, every
set of amounts the clock may be set by, handlers that take any time, and any number
of events:

| Theorem | Statement |
|---|---|
| `TypeCorrect`, `Invariance` | `Spec => []TypeOK`, `Spec => []IInv` |
| `RunsOnTime` | `Spec => OnTime` |
| `EndsInTime` | `Spec => []StopsInTime` |

* `ClockInv`, `WhenInv`: what the clock says and what an event's `when` means, by
  the time that has passed and by how the clock has been set.
* `WalkInv`: a walk leaves no event behind that was due when it began. This needs
  that an event made in the walk is put where the walk does not come (the head of
  the list) or is above `maxId`.
* `SetBackInv`: three cases. The clock was not set since the last walk; it was, but
  not back by more than that walk's distance from the one before and a second, so
  that it does not notice (`ae.c:254` compares seconds); or it has noticed, and has
  made all events due.
* `StopInv`: the check that ends the loop is armed for a time that is not late, and
  the sleep in the poller, computed from the nearest event, ends within a second of
  it.

By how much an event is passed over after the clock was set back depends on the
longest pause between two walks (`gap`), for which the code has no bound. A bound
without it holds on small instances and is false as soon as handlers take longer
than a second (TLC finds it with `MaxBusy` = `Second`).

### File events (`AeFilesProofs`)

For every number of connections, descriptors, failed connects and descriptors of other
threads, and for each poller:

| Theorem | Statement |
|---|---|
| `TypeCorrect`, `Invariance` | `Spec => []TypeOK`, `Spec => []IInv` |
| `Agreement` | `Spec => []RecordsAgree` |
| `OwnSockets` | `Spec => []ActsOnOwnSocket` |
| `NoStaleEvent` | `Spec => StaleIsSkipped` |

Most of `IInv` is about the record `loop`, which the operators `CreateFileEvent`,
`DeleteFileEvent`, `ConnectSocket` and `Reconnect` take and return; so are the lemmas,
one for each operator: what it makes of a loop with `Agree` (the loop's record and the
poller's), `HighestIsKnown` (`maxfd` is a number registered and none is above it) and
`Registered` (a handler for each event, for the connection whose fd it is). Between
closing a socket and opening the next one these hold for all connections but one,
which is why `OwnedIn` and `OwnSocket` take a set of connections. What is said of the
poller holds until a number is used by two threads (`crossed`), and `crossed` needs a
connect that has failed at once, of this thread or another: without one, everybody
closes and registers only what is his. `maxfd` and the ownership of this thread's
descriptors do not depend on it. `FiredInv` is what makes stale events harmless: what
is still to be handled was open when it was reported, and a descriptor can only have
been replaced by its own readable handler, whose equality with the writable one
(`socket_connected` for both) then skips the second call.

### The histogram and the report (`ReportProofs`)

For every range and precision of the histogram, every set of command lines, every
sequence of readings of the clock (ascending or not), any number of threads,
connections and responses, any `MAXL` and any ticks of the spectrum:

| Theorem | Statement |
|---|---|
| `PrecisionKept` | the range of a value is narrower than the lowest trackable value, or than the value by `significant_figures` digits |
| `TypeCorrect`, `Invariance` | `Spec => []TypeOK`, `Spec => []IInv` |
| `DeathAlwaysKnown` | `Spec => []DeathIsKnown` |
| `CountsAlwaysReconcile` | `Spec => []CountsReconcile` |
| `ReportAlwaysOfTheLatencies` | `Spec => []ReportIsOfTheLatencies` |
| `SpectrumAlwaysOfTheLatencies` | `Spec => []SpectrumIsOfTheLatencies` |
| `WithinAlwaysAShare` | `Spec => []WithinIsAShare` |
| `WindowAlwaysOfTheTarget` | `Spec => []WindowIsOfTheTarget` |
| `FileAlwaysOfTheLatencies` | `Spec => []FileIsOfTheLatencies`, which is about runs whose clock is not set back |

The properties of the run `report` speak of the end, where nothing is left of how it
was reached; `IInv` keeps for each thread (`ThreadInv`) what they need on the way.

* `Counted`: what has been completed is in a sample of the rate or will be in the
  next one, and was recorded or came late. Every reset of a counter has to appear in
  another one.
* `Latencies`, `Window`: `Contents(h, J, I)` says of a histogram that it holds the
  elements of J at the indices I, no more and no less. The histogram of a thread
  holds the responses since the calibration, that of the window those since the
  last reset. `hdr_add` makes of the contents of two histograms those of their union
  (lemma `AddContents`), so that the merged one has the contents `Kept`, and
  everything printed is a statement on `Contents`.
* `Paced`, `Ended`, `RawIs`: what rests on the order of the clock's readings, and
  holds until it is set back (`Back`). No sample is due within less than
  `MinInterval`, so that `sample_rate` does not divide by zero: this is the half of
  `DeathIsKnown` that says what does *not* kill the program. Once a response has come
  after the end, every later one does, and the rows of `raw_latency` have no gaps.
* `Shared` bounds the requests and with them the rate, which is then in the range of
  its histogram. It rests on the bound `MaxSends`: `ReportAssumption` asks for
  `MaxSends * S <= highest_trackable_value`, which a real run meets unless a thread
  gets some 10^8 responses between two samples.

Below it are three layers of lemmas.

* *The bucket arithmetic.* `LiesIn`: a value has exactly one pair of bucket and
  sub-bucket whose range it lies in, and `counts_index`, `move_next` and
  `value_from_index` are inverse to each other and keep the order. The ranges are
  powers of two, whose laws (`PowerNext`) come from the number of subsets of a set.
* *Folds.* What `FoldLeft`, `MapThenFoldSet` and `SumFunctionOnSet` compute is proved
  without an induction scheme. The definitions of the community modules choose a
  recursive function; a table over the subsets of a domain is shown to satisfy its
  equations (`FoldTable`), by taking a smallest set on which it would not. From this
  follow the laws of sums over unions, over the fibres of a function, and of sums of
  sums, on which the merge, the mean and the deviation rest. The ticks of the
  percentile iterator are a recursive function of the same kind; they reach 100%
  within `LastTick` steps.
* *What the report reads.* A rank falls in exactly one index, and the counts up to
  it are those of the latencies up to its end. For the spectrum, a line is the first
  index that reaches its tick, and the last line has all counts. For the share
  within a deviation, the indices between the two limits, found by comparing the end
  of one range and the beginning of another, are turned into a condition on the
  beginnings alone.

The last is where the proof changed the model. `WithinIsAShare` once said that no
latency whose range is outside the interval is counted, and TLC had agreed. It is
false: of the latencies 1, 1 and 6 the mean plus the deviation is 5.02, which
`stats.c:91` cuts to 5, and the first index that ends above 5 is counted with its own
count (`stats.c:103`), so that all three are within the deviation. The property now
says exactly which are counted.

### What stays with TLC, and why

* *Liveness*: `Answered`, `AnsweredOrAborted`, `EverythingEnds`, `OpenLoop`, `Ends`,
  `AlwaysReports`. Fairness and ENABLED are outside the proof system.
* `OnlyStaleUnlockBreaksMutex`, with blocks reused, is stated for two downstream rpcs
  and no exceptions. It is not true of all constants: with three and an exception, an
  object can be deleted while a response is on its way (see `OrderInv`), which then
  enters the next object in that block.
* `HttpParser` and `HttpClient`: the parser runs over a buffer by a RECURSIVE
  operator, which puts both out of the provers' reach. This leaves five invariants
  to TLC: `AssertsHold`, `ScriptGetsWhatWasSent`, `CompleteAtTheLastByte`,
  `UrlIsUnderstood` and `EveryMethodIsKnown`.

## 5. Where code and claims part

Three runs show a disagreement; `PROJECT.json` quotes the lines. Two are of the
services (`fanout_twice`: the mutex of a deleted object is unlocked; `leaf_twice`:
`status_` is stored after the reply is out), one of wrk2 (`ae_late`: the timeout for
an overdue event is the rest of a second instead of zero).

Others are visible in the models, as an action or as the exception a property has to
make:

* `AssertOk` of `ThreeTier`: `GPR_ASSERT(ok)` fails when a caller has died.
* `LatencyIsOwnUntilLoss`: `reconnect_socket` keeps `sent` and `complete`, so that
  after a connection with unanswered requests is lost, each latency is taken from
  the slot of an earlier request (`wrk.c:348`, `wrk.c:572`), where `wrk2/README.md:20`
  speaks of the end-to-end latency of every request.
* `FreedIsQuiet` of `LeafService`, by its exception `CtorIsLate`: `Requestrpc_2` at
  `service_2.cpp:86` registers an object whose constructor has still to seed `gen`
  (87-90). A request may be accepted, served by another thread, replied and the object
  deleted (122) before the constructor's thread goes on: it then writes into
  freed memory. The model reaches this. `FanoutService` is free of it, since a
  constructor there holds the new object's mutex until it is done.
* `Answered` of `FanoutService` is stated for runs without an exception: one thrown
  before the `new` of PROCESS leaves the service without an object that listens, and one
  before a `Forward` leaves a request that is never answered (`service_0.cpp:261`).
* Fairness of `Respond`: no call has a deadline (`service_0.cpp:89`), so that a
  downstream rpc which neither ends nor fails holds its caller for ever. The liveness
  properties assume that it ends; nothing is shown about one that does not.
* `OpenLoop` and `ActsOnOwnSocket`: a connect that fails at once is never tried
  again, and the number left in `c->fd` (`wrk.c:343`) can be another connection's by
  the time a `delay_request` registers it.
* `RecordsAgree`, by `crossed`: that number can also be a socket of another thread, of
  which wrk starts two by default. This thread registers it with its own poller
  (`wrk.c:538`) or closes it (`wrk.c:351`); when the other thread closes it, the kernel
  forgets it and this loop's `mask` does not, so that epoll answers the registration of
  the number's next socket, an `EPOLL_CTL_MOD` (`ae_epoll.c:71`), with ENOENT. The new
  socket is refused, closed, and its number left in `c->fd` in turn.
* `OpenLoop`: a server that stops reading stops the requests, too, once the send
  buffer is full (`wrk.c:657`), where `wrk2/README.md:14` says that they are sent out
  according to the schedule no matter what.
* `NoNeedlessReconnect`: bytes behind a closing response in the same read are an error
  for the parser, and `socket_readable` then gives up the connection that
  `response_complete` has just opened in place of the old one (`wrk.c:594`,
  `wrk.c:700`): two connects for one response.
* `DeathIsKnown`: `time_us` is gettimeofday (`wrk.c:703`). When the clock is set back, a
  response may come before its request's start (`assert` at `wrk.c:571`), and
  `sample_rate` may run, with all time events made due, within a millisecond of the
  start it divides by (`wrk.c:413`; what the quotient becomes as an integer is the
  build's choice, and the model has both). A response after the end does not count in
  `c->complete` (`wrk.c:564`): if the clock is set back to before the end, later latencies
  of its connection are taken from the start of an earlier request.
* `StaleIsSkipped`: kqueue reports the two events of a descriptor apart, so that the
  second can meet the number's next owner, which the comment at `ae.c:377` means to
  exclude.
* `DeathIsKnown`: fewer requests per second than threads divide by zero (`wrk.c:293`);
  a latency of zero (a response within the microsecond) or beyond the histogram is an
  assertion (`counts_index` asserts before `hdr_record_value` can return the `false`
  its header documents).
* `FileIsOfTheLatencies`: the `-P` file lacks the last response unless a later one
  was counted, and has zeros for those after `stop_at`.
* `WindowIsOfTheTarget`: with `-p` the 99th percentile of every `target` responses
  is written, where the comment at `wrk.c:781` speaks of an average every 0.2 s;
  below 10 requests per second and thread the target is 0 and nothing is ever
  written.
* `check_timeouts` counts connections that are idle or have sent nothing;
  `calibrate`'s retry for a mean of 0 never happens, since the mean of no values is
  NaN; connections are divided by threads without the remainder.
* `WithinIsAShare`: latencies that share a range wider than one unit are 0 % within
  a deviation of their mean, since that is computed of the range's middle; and a
  latency up to a unit above the interval is counted (`stats.c:91`, `stats.c:103`; an
  example is in section 4).
* `ScriptGetsWhatWasSent`: the buffers and `c->state` are not reset by a reconnect;
  a response without headers gives the script a pair nobody sent.
* `ReadEof`: the end of an idle connection is not an error for `sock_read`'s caller,
  so that the handler is called for it again and again until a write fails
  (`net.c:18`).
* `EveryMethodIsKnown`: a pipeline of CONNECTs stops `script_verify_request` after
  the first.
* `UrlIsUnderstood` holds for the URLs of the run; a query without a path
  (`http://h?q`) is dropped by `RequestPath`.

## 6. Not modelled

* `greeter_async_client.cpp`: one call made by hand, without control of its own;
  `tracing.h`: adapters of a map. The tracing that throws is in `FanoutService`.
* Start-up of the services: without its config file `Run` returns before `server_`
  exists and the destructor dereferences it. Nothing interleaves with it; it is one
  path of straight-line code.
* The number of threads: a service starts one per tag, unbounded. A bound belongs to
  the machine, not to the code.
* The unlocked `lognormal_distribution` the threads of a service share: the race is
  on the length of a wait that the models leave arbitrary.
* The frontend's `request` counter, which concurrent handlers increment without a
  lock: it is never read but to be printed.
* The distributions other than the fixed one, `tinymt64.c`: random intervals.
  `WrkConnection` depends on the schedule being monotone, not on its steps.
* The Lua state and `wrk.lua` itself, the address objects and the tables of
  statistics handed to Lua: glue to a vendored interpreter. What wrk2 does with what
  it gets from a script is in `HttpClient`.
* `ssl.c`: its four operations have the results of `net.c`'s, but for RETRY while
  connecting; `zmalloc.c`, whose counter is updated without a lock and read by
  nobody.
* `hdr_record_corrected_value`, the linear and logarithmic iterators,
  `hdr_count_at_value`, `http_parser_pause`, HTTP_BOTH and the ring of samples of
  statistics without a histogram: no caller here. `format_units` and the layout of
  the report.
* In `select`, `FD_SETSIZE` is unchecked: a number beyond it is undefined. In
  `WrkReport`, opening the files of `-P` and `-p` is assumed to succeed: the code
  does not look at what `fopen` returns. `raw_latency` has 40 rows, which
  `parse_args` does not check against the threads.

## 7. Plan

Done, in order of importance: `RpcContract`, `FanoutService`, `LeafService`,
`ThreeTier`, `WrkConnection`, `AeTimers`, `AeFiles`, `HdrHistogram` and `WrkReport`,
all with their proofs; `HttpUrl` to `HttpClient`, with TLC. To follow, should it be
wanted:

1. The parser as a recursive function over the rest of a buffer, so that `HttpUrl`'s
   part at least (`UrlIsUnderstood`) could be proved about.
2. Two services and their callers in one proof: that the tiers of `ThreeTier` may be
   replaced by `FanoutService` itself, and not only by the contract it implements.
