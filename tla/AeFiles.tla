-------------------------------- MODULE AeFiles --------------------------------
(***************************************************************************)
(* The file events of a wrk2 thread: ae.c with each of its pollers         *)
(* (ae_epoll.c, ae_select.c, ae_kqueue.c, ae_evport.c) and the handlers of *)
(* the thread's connections (wrk.c), which share its descriptors.          *)
(*                                                                         *)
(* One call of a poller reports several descriptors, and their handlers    *)
(* run one after the other: a handler may close a descriptor, and the next *)
(* socket gets the lowest number that is free, which may be reported too.  *)
(* The loop keeps its own record of what is registered (mask, handlers and *)
(* client data for every number), the kernel keeps another, and each       *)
(* connection keeps its c->fd.  Time events between two calls register     *)
(* connections by that c->fd, whatever has become of it.                   *)
(*                                                                         *)
(* The numbers are the process's: the other threads of wrk, each with a    *)
(* loop of its own, open and close descriptors at any moment.  They run    *)
(* the same code, and may be left with numbers they have closed.           *)
(***************************************************************************)
EXTENDS Integers, Sequences, FiniteSets, SequencesExt

CONSTANTS
  Apis,         (* the pollers: which one is built in is config.h's choice *)
  Conn,         (* the connections of the thread                           *)
  Fd,           (* the numbers of descriptors there are in the process     *)
  None,         (* no connection                                           *)
  Other,        (* the other threads of the process                        *)
  MaxConnects,  (* bound: how often a connection is opened                 *)
  MaxOthers     (* bound: how many descriptors the other threads open      *)

ASSUME FilesAssumption ==
  /\ Apis \subseteq {"epoll", "select", "kqueue", "evport"}
  /\ Fd \subseteq Nat /\ IsFiniteSet(Fd)
  /\ None \notin Conn /\ Other \notin Conn /\ None # Other
  /\ MaxConnects \in Nat /\ MaxOthers \in Nat

VARIABLES
  api,     (* the poller of this build                                     *)
  loop,    (* what handlers change: the loop's and the kernel's records    *)
  timers,  (* how many delay_request events each connection has            *)
  begun,   (* the connections whose delayed_initial_connect has run        *)
  fired,   (* eventLoop->fired, what is left of it                         *)
  rfired,  (* whether the readable handler of its head has run             *)
  turn     (* whether the readable or the writable event is next           *)

vars == <<api, loop, timers, begun, fired, rfired, turn>>

Read    == "readable"
Write   == "writable"
Event   == {Read, Write}
Handler == {"none", "socket_connected", "socket_writeable", "socket_readable"}
NoFd    == -1

Loops ==
  [ open     : [Fd -> Conn \cup {Other, None}],   (* who opened the socket *)
    interest : [Fd -> SUBSET Event],       (* what the poller watches      *)
    pending  : [Fd -> SUBSET Event],       (* evport: to be watched again  *)
    aborted  : BOOLEAN,                    (* evport: a port call fails    *)
    mask     : [Fd -> SUBSET Event],       (* eventLoop->events            *)
    rproc    : [Fd -> Handler],
    wproc    : [Fd -> Handler],
    data     : [Fd -> Conn \cup {None}],
    maxfd    : Fd \cup {NoFd},
    fd       : [Conn -> Fd \cup {NoFd}],   (* c->fd                        *)
    fresh    : SUBSET Fd,                  (* opened since the last poll   *)
    failed   : SUBSET (Conn \cup {Other}), (* a connect failed at once     *)
    strays   : SUBSET Fd,                  (* closed numbers in c->fd of   *)
                                           (* the other threads            *)
    crossed  : BOOLEAN,                    (* history: see below           *)
    connects : 0 .. MaxConnects,
    others   : 0 .. MaxOthers ]

(* crossed: a number has been used by two threads.  This one has closed or *)
(* registered another's socket by a number left in c->fd; another one has  *)
(* closed a socket of this one; or it got a number that is still in the    *)
(* sets this one gives to select.                                          *)

TypeOK ==
  /\ api \in Apis
  /\ loop \in Loops
  /\ timers \in [Conn -> Nat]
  /\ begun \subseteq Conn
  /\ fired \in Seq(Fd \X (SUBSET Event))
  /\ rfired \in BOOLEAN /\ turn \in Event

Init ==
  /\ api \in Apis
  /\ loop = [ open |-> [f \in Fd |-> None], interest |-> [f \in Fd |-> {}],
              pending |-> [f \in Fd |-> {}], aborted |-> FALSE,
              mask |-> [f \in Fd |-> {}], rproc |-> [f \in Fd |-> "none"],
              wproc |-> [f \in Fd |-> "none"], data |-> [f \in Fd |-> None],
              maxfd |-> NoFd, fd |-> [c \in Conn |-> NoFd],
              fresh |-> {}, failed |-> {}, strays |-> {}, crossed |-> FALSE,
              connects |-> 0, others |-> 0 ]
  /\ timers = [c \in Conn |-> 0] /\ begun = {}
  /\ fired = <<>> /\ rfired = FALSE /\ turn = Read

-----------------------------------------------------------------------------
Highest(S) == CHOOSE f \in S \cup {NoFd} : \A g \in S : g <= f
Lowest(S)  == CHOOSE f \in S : \A g \in S : f <= g
Free(l)    == {f \in Fd : l.open[f] = None}

(* aeApiAddEvent.  epoll_ctl: ADD is for a descriptor that is not watched, *)
(* MOD for one that is, and ae_epoll.c chooses by the loop's record.       *)
(* FD_SET takes any number; the others refuse one that is not open.        *)
ApiAccepts(l, f) ==
  /\ f # NoFd
  /\ \/ api = "select"
     \/ l.open[f] # None /\ (api = "epoll" => (l.mask[f] = {}) = (l.interest[f] = {}))
     \/ api = "evport" /\ l.pending[f] # {}

(* ae_evport.c: what was reported last is not with the kernel but pending. *)
evport_add(l, f, events) ==
  IF l.pending[f] # {} THEN [l EXCEPT !.pending[f] = @ \cup events \cup l.mask[f]]
  ELSE [l EXCEPT !.interest[f] = events \cup l.mask[f]]

evport_del(l, f, events) ==
  IF l.pending[f] # {} THEN [l EXCEPT !.pending[f] = @ \ events]
  ELSE [l EXCEPT !.interest[f] = l.mask[f], !.aborted = @ \/ l.interest[f] = {}]

ApiAdd(l, f, events) ==
  CASE api = "evport"               -> evport_add(l, f, events)
    [] api = "epoll"                -> [l EXCEPT !.interest[f] = events \cup l.mask[f]]
    [] api \in {"select", "kqueue"} -> [l EXCEPT !.interest[f] = @ \cup events]

(* aeApiDelEvent, when the loop's mask has been lowered.  epoll_ctl does   *)
(* nothing for a descriptor that is not watched.                           *)
ApiDel(l, f, events) ==
  CASE api = "evport"               -> evport_del(l, f, events)
    [] api = "epoll"                -> [l EXCEPT !.interest[f] = IF @ = {} THEN @ ELSE l.mask[f]]
    [] api \in {"select", "kqueue"} -> [l EXCEPT !.interest[f] = @ \ events]

(* aeCreateFileEvent.                                                      *)
CreateFileEvent(l, f, events, proc, c) ==
  IF ~ApiAccepts(l, f) THEN l
  ELSE [ApiAdd(l, f, events) EXCEPT !.mask[f] = @ \cup events,
                 !.rproc[f] = IF Read \in events THEN proc ELSE @,
                 !.wproc[f] = IF Write \in events THEN proc ELSE @,
                 !.data[f]  = c,
                 !.maxfd    = IF f > @ THEN f ELSE @,
                 !.crossed  = @ \/ l.open[f] = Other]

(* Mutant of DeleteFileEvent: maxfd goes down by one.                      *)
DeleteLowersMaxfd(l, f, events) ==
  IF f = NoFd \/ l.mask[f] = {} THEN l
  ELSE LET rest == l.mask[f] \ events
       IN  ApiDel([l EXCEPT !.mask[f] = rest,
                            !.maxfd = IF f = @ /\ rest = {} THEN (IF @ - 1 \in Fd THEN @ - 1 ELSE NoFd) ELSE @],
                  f, events)

(* aeDeleteFileEvent.                                                      *)
DeleteFileEvent(l, f, events) ==
  IF f = NoFd \/ l.mask[f] = {} THEN l
  ELSE LET rest == l.mask[f] \ events
       IN  ApiDel([l EXCEPT !.mask[f] = rest,
                            !.maxfd = IF f = @ /\ rest = {}
                                      THEN Highest({g \in Fd : g < f /\ l.mask[g] # {}}) ELSE @],
                  f, events)

(* close: the kernel forgets a descriptor that is closed, the sets that    *)
(* select is given do not.                                                 *)
Closed(l, f) == [l EXCEPT !.open[f] = None, !.interest[f] = IF api = "select" THEN @ ELSE {}]

CloseFd(l, f) ==
  IF f = NoFd THEN l ELSE [Closed(l, f) EXCEPT !.crossed = @ \/ l.open[f] = Other]

(* Another thread opens a descriptor: the lowest number that is free.      *)
OpenedByOther(l) ==
  IF l.others = MaxOthers \/ Free(l) = {} THEN {}
  ELSE LET f == Lowest(Free(l))
       IN  {[l EXCEPT !.others = @ + 1, !.open[f] = Other, !.fresh = @ \cup {f},
                      !.crossed = @ \/ l.mask[f] # {}]}

(* Another thread closes f, which is its own or a number it is left with;  *)
(* when the connect that follows fails at once, it is left with f.         *)
ClosedByOther(l, f) ==
  LET shut == [Closed(l, f) EXCEPT !.crossed = @ \/ l.open[f] \in Conn]
  IN  {shut, [shut EXCEPT !.failed = @ \cup {Other}, !.strays = @ \cup {f}]}

-----------------------------------------------------------------------------
(* Mutant of ConnectSocket: c->fd is left as it was.                       *)
ConnectForgetsFd(l, c) ==
  IF l.connects = MaxConnects \/ Free(l) = {} THEN {}
  ELSE LET f    == Lowest(Free(l))
           sock == [l EXCEPT !.connects = @ + 1, !.open[f] = c, !.fresh = @ \cup {f}]
       IN  {CreateFileEvent(sock, f, Event, "socket_connected", c)}

(* The outcomes of socket(), connect() and the registration: a socket with *)
(* the lowest free number that waits for socket_connected, or a failure    *)
(* that leaves c->fd what it was.                                          *)
NewSocket(l, c) ==
  LET tried == [l EXCEPT !.connects = @ + 1]
      f     == Lowest(Free(l))
      sock  == [tried EXCEPT !.open[f] = c, !.fresh = @ \cup {f}]
  IN  {[tried EXCEPT !.failed = @ \cup {c}]}
      \cup IF Free(l) # {} /\ ApiAccepts(sock, f)
           THEN {[CreateFileEvent(sock, f, Event, "socket_connected", c) EXCEPT !.fd[c] = f]}
           ELSE {}

(* connect_socket.  Another thread may have taken the lowest number after  *)
(* reconnect_socket closed it.                                             *)
ConnectSocket(l, c) ==
  IF l.connects = MaxConnects THEN {}
  ELSE UNION {NewSocket(m, c) : m \in {l} \cup OpenedByOther(l)}

(* The outcomes of reconnect_socket.                                       *)
Reconnect(l, c) == ConnectSocket(CloseFd(DeleteFileEvent(l, l.fd[c], Event), l.fd[c]), c)

(* socket_connected: registered for good; a handshake may take more or     *)
(* fail.                                                                   *)
Connected(l, f, c) ==
  LET readable == CreateFileEvent(l, f, {Read}, "socket_readable", c)
  IN  {l, CreateFileEvent(readable, f, {Write}, "socket_writeable", c)} \cup Reconnect(l, c)

(* socket_readable: a response without keep-alive reconnects, an error on  *)
(* what has been read reconnects, and both can happen in one call.         *)
Readable(l, c) ==
  {l} \cup Reconnect(l, c) \cup UNION {Reconnect(again, c) : again \in Reconnect(l, c)}

(* socket_writeable, when it does not delay the request: the write is      *)
(* partial, completes the request, or fails.                               *)
Writeable(l, f, c) ==
  LET idle == DeleteFileEvent(l, f, {Write})
  IN  {l, CreateFileEvent(idle, l.fd[c], {Write}, "socket_writeable", c)} \cup Reconnect(l, c)

-----------------------------------------------------------------------------
(* The pollers report some of what is watched, or nothing.  Errors and     *)
(* hang-ups are reported by epoll without being watched, as writable, and  *)
(* by event ports as nothing; kqueue has an entry for each event of a      *)
(* descriptor; select goes through the numbers up to maxfd in order, and   *)
(* fails while one of them is not open.                                    *)
Watched(l) == {f \in Fd : l.interest[f] # {}}
InAnyOrder(S, Masks(_)) ==
  {[i \in DOMAIN q |-> <<q[i], m[q[i]]>>] : q \in SetToSeqs(S), m \in {n \in [S -> SUBSET Event] : \A f \in S : n[f] \in Masks(f)}}

epoll_wait(l) ==
  UNION {InAnyOrder(S, LAMBDA f : SUBSET (l.interest[f] \cup {Write}) \ {{}}) : S \in SUBSET Watched(l)}
port_getn(l) == UNION {InAnyOrder(S, LAMBDA f : SUBSET l.interest[f]) : S \in SUBSET Watched(l)}
kevent(l) == UNION {SetToSeqs(S) : S \in SUBSET {fe \in {<<f, {e}>> : f \in Fd, e \in Event} : fe[2] \subseteq l.interest[fe[1]]}}

ReadySets(l) == {m \in [Fd -> SUBSET Event] : /\ \A f \in Fd : m[f] \subseteq l.interest[f] \cap l.mask[f]
                                             /\ \E f \in Fd : m[f] # {}}
UpToMaxfd(l) == {q \in SetToSeqs({f \in Fd : l.mask[f] # {} /\ f <= l.maxfd}) :
                   \A i, j \in DOMAIN q : i < j => q[i] < q[j]}
select(l) == IF \E f \in Watched(l) : l.open[f] = None THEN {<<>>}
             ELSE {<<>>} \cup
                  {[i \in DOMAIN q |-> <<q[i], m[q[i]]>>] : q \in UpToMaxfd(l), m \in ReadySets(l)}

Reports(l) == CASE api = "epoll"  -> epoll_wait(l)
                [] api = "kqueue" -> kevent(l)
                [] api = "select" -> select(l)
                [] api = "evport" -> port_getn(l)

(* ae_evport.c first associates what it reported last, and aborts when a   *)
(* descriptor of these is no longer open.                                  *)
Reassociated(l) ==
  [l EXCEPT !.pending  = [f \in Fd |-> {}],
            !.interest = [f \in Fd |-> IF l.pending[f] # {} THEN l.pending[f] ELSE @[f]],
            !.aborted  = @ \/ \E f \in Fd : l.pending[f] # {} /\ l.open[f] = None]

(* aeApiPoll: it reports what is ready, or times out.  What an event port  *)
(* reports is dissociated.                                                 *)
Poll ==
  /\ fired = <<>>
  /\ LET again == Reassociated([loop EXCEPT !.fresh = {}])
     IN  \E q \in Reports(again) :
           LET got == IF api = "evport" THEN {q[i][1] : i \in DOMAIN q} ELSE {} IN
           /\ fired' = q
           /\ loop' = [again EXCEPT !.pending  = [f \in Fd |-> IF f \in got THEN again.interest[f] ELSE {}],
                                    !.interest = [f \in Fd |-> IF f \in got THEN {} ELSE @[f]]]
  /\ rfired' = FALSE /\ turn' = Read
  /\ UNCHANGED <<api, timers, begun>>

(* fe->mask & mask: reported, and still (or again) registered.             *)
Valid(event) == event \in loop.mask[fired[1][1]] \cap fired[1][2]

ReadRuns == fired # <<>> /\ turn = Read /\ Valid(Read)

(* aeProcessEvents: the readable event of the descriptor.                  *)
ReadEvent ==
  /\ ReadRuns
  /\ LET f == fired[1][1]  c == loop.data[f] IN
       loop' \in CASE loop.rproc[f] = "socket_connected" -> Connected(loop, f, c)
                   [] loop.rproc[f] = "socket_readable"  -> Readable(loop, c)
  /\ rfired' = TRUE /\ turn' = Write
  /\ UNCHANGED <<api, timers, begun, fired>>

NoReadEvent ==
  /\ fired # <<>> /\ turn = Read /\ ~Valid(Read)
  /\ rfired' = FALSE /\ turn' = Write
  /\ UNCHANGED <<api, loop, timers, begun, fired>>

(* Mutant of WriteRuns: the two handlers are not compared.                 *)
WriteRunsAlways == fired # <<>> /\ turn = Write /\ Valid(Write)

(* The writable event is left out when its handler is the one that has     *)
(* just run.                                                               *)
WriteRuns ==
  /\ fired # <<>> /\ turn = Write /\ Valid(Write)
  /\ ~rfired \/ loop.wproc[fired[1][1]] # loop.rproc[fired[1][1]]

Following == fired' = Tail(fired) /\ turn' = Read /\ rfired' = FALSE

WriteEvent ==
  /\ WriteRuns
  /\ LET f == fired[1][1]  c == loop.data[f] IN
       loop' \in CASE loop.wproc[f] = "socket_connected" -> Connected(loop, f, c)
                   [] loop.wproc[f] = "socket_writeable" -> Writeable(loop, f, c)
  /\ Following
  /\ UNCHANGED <<api, timers, begun>>

(* socket_writeable before the next request is due: a time event instead.  *)
Delay ==
  /\ WriteRuns
  /\ LET f == fired[1][1]  c == loop.data[f] IN
       /\ loop.wproc[f] = "socket_writeable"
       /\ loop'   = DeleteFileEvent(loop, f, {Write})
       /\ timers' = [timers EXCEPT ![c] = @ + 1]
  /\ Following
  /\ UNCHANGED <<api, begun>>

NoWriteEvent ==
  /\ fired # <<>> /\ turn = Write /\ ~WriteRuns
  /\ Following
  /\ UNCHANGED <<api, loop, timers, begun>>

-----------------------------------------------------------------------------
(* Time events run when all that was reported has been handled.            *)
delayed_initial_connect(c) ==
  /\ fired = <<>> /\ c \notin begun
  /\ begun' = begun \cup {c}
  /\ loop' \in ConnectSocket(loop, c)
  /\ UNCHANGED <<api, timers, fired, rfired, turn>>

(* delay_request, when the next request is due.                            *)
delay_request(c) ==
  /\ fired = <<>> /\ timers[c] > 0
  /\ timers' = [timers EXCEPT ![c] = @ - 1]
  /\ loop' = CreateFileEvent(loop, loop.fd[c], {Write}, "socket_writeable", c)
  /\ UNCHANGED <<api, begun, fired, rfired, turn>>

-----------------------------------------------------------------------------
(* The other threads, at any moment.                                       *)
OtherOpens ==
  /\ loop' \in OpenedByOther(loop)
  /\ UNCHANGED <<api, timers, begun, fired, rfired, turn>>

OtherCloses(f) ==
  /\ loop.open[f] = Other \/ (f \in loop.strays /\ loop.open[f] # None)
  /\ loop' \in ClosedByOther(loop, f)
  /\ UNCHANGED <<api, timers, begun, fired, rfired, turn>>

Own == \/ Poll \/ ReadEvent \/ NoReadEvent \/ WriteEvent \/ Delay \/ NoWriteEvent
       \/ \E c \in Conn : delayed_initial_connect(c) \/ delay_request(c)

Next == /\ ~loop.aborted
        /\ Own \/ OtherOpens \/ \E f \in Fd : OtherCloses(f)

Spec == Init /\ [][Next]_vars

-----------------------------------------------------------------------------
(* maxfd is the highest number registered, and an open descriptor of this  *)
(* thread is some connection's: none is lost, whatever fails.  Until a     *)
(* number is used by two threads, the loop's record and the poller's       *)
(* agree, through closed and reused numbers, so that no poller refuses a   *)
(* new socket and event ports never abort; and that needs a connect, of    *)
(* some thread, that failed at once and left a closed number in c->fd.     *)
RecordsAgree ==
  /\ loop.maxfd = Highest({f \in Fd : loop.mask[f] # {}})
  /\ \A f \in Fd : loop.open[f] \in Conn => \E c \in Conn : loop.fd[c] = f
  /\ ~loop.crossed =>
       /\ ~loop.aborted
       /\ \A f \in Fd : /\ loop.mask[f] = loop.interest[f] \cup loop.pending[f]
                        /\ loop.interest[f] = {} \/ loop.pending[f] = {}
  /\ loop.crossed => loop.failed # {}

(* An event that was reported before a descriptor was closed and its       *)
(* number taken again, by this thread or another, is not delivered to the  *)
(* new socket.  (kqueue reports the events of a descriptor apart, and      *)
(* there it is.)                                                           *)
StaleIsSkipped ==
  [][ReadRuns \/ WriteRuns =>
       fired[1][1] \notin loop.fresh \/ api = "kqueue" \/ loop.crossed]_vars

(* As long as no connect of the process has failed at once, a connection's *)
(* handlers and its time events act on the socket it has opened, never on  *)
(* that of another connection or thread.                                   *)
ActsOnOwnSocket ==
  loop.failed = {} =>
    /\ \A c \in begun : loop.fd[c] # NoFd /\ loop.open[loop.fd[c]] = c
    /\ \A f \in Fd : loop.mask[f] # {} => loop.fd[loop.data[f]] = f

(***************************************************************************)
(* The inductive invariant, in parts.  Most are about the loop's records,  *)
(* which the operations above take and return.                             *)
(***************************************************************************)

(* Until numbers cross, the two records of a number agree, and what is     *)
(* registered is a socket of this thread; only select's record goes on     *)
(* when the descriptor is closed, by a number left in c->fd.               *)
Agree(l) ==
  \/ l.crossed
  \/ /\ ~l.aborted
     /\ \A f \in Fd : /\ l.mask[f] = l.interest[f] \cup l.pending[f]
                      /\ l.interest[f] = {} \/ l.pending[f] = {}
                      /\ api # "evport" => l.pending[f] = {}
                      /\ l.open[f] = Other => l.mask[f] = {}
                      /\ l.open[f] = None /\ (api # "select" \/ l.failed = {}) => l.mask[f] = {}

HighestIsKnown(l) ==
  /\ l.maxfd = NoFd \/ l.mask[l.maxfd] # {}
  /\ \A f \in Fd : l.mask[f] # {} => f <= l.maxfd

(* What is registered has a handler for it, and is registered for the      *)
(* connection whose c->fd it is.                                           *)
Registered(l) ==
  \A f \in Fd : /\ Read \in l.mask[f]  => l.rproc[f] \in {"socket_connected", "socket_readable"}
                /\ Write \in l.mask[f] => l.wproc[f] \in {"socket_connected", "socket_writeable"}
                /\ l.mask[f] # {} => l.data[f] \in Conn /\ l.fd[l.data[f]] = f

(* An open descriptor of this thread is that of a connection of C.         *)
OwnedIn(l, C) == \A f \in Fd : l.open[f] \in Conn => \E c \in C : l.fd[c] = f

(* The connections of C have the socket they opened, and no numbers have   *)
(* crossed, if no connect failed.                                          *)
OwnSocket(l, C) ==
  l.failed = {} => /\ ~l.crossed /\ l.strays = {}
                   /\ \A c \in C : l.fd[c] # NoFd /\ l.open[l.fd[c]] = c

(* A connection that is not begun has no descriptor and no time event.     *)
BegunInv == \A c \in Conn \ begun : loop.fd[c] = NoFd /\ timers[c] = 0

(* What was reported and is not handled yet is open since before it was    *)
(* reported, each descriptor once; the one that is being handled may have  *)
(* been closed by its own readable handler, and its number taken again.    *)
FiredInv ==
  api # "kqueue" /\ ~loop.crossed =>
    /\ \A i \in 1 .. Len(fired) :
         /\ (i > 1 \/ turn = Read) => loop.open[fired[i][1]] \in Conn /\ fired[i][1] \notin loop.fresh
         /\ \A j \in 1 .. Len(fired) : i # j => fired[i][1] # fired[j][1]
    /\ (fired # <<>> /\ turn = Write /\ fired[1][1] \in loop.fresh) =>
         \/ loop.mask[fired[1][1]] = {}
         \/ rfired /\ loop.wproc[fired[1][1]] = loop.rproc[fired[1][1]]

LoopInv(l) == l \in Loops /\ Agree(l) /\ HighestIsKnown(l) /\ Registered(l)

IInv == TypeOK /\ LoopInv(loop) /\ OwnedIn(loop, Conn) /\ OwnSocket(loop, begun) /\ BegunInv /\ FiredInv

=============================================================================
