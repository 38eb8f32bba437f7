----------------------------- MODULE HttpClient -----------------------------
(* wrk's use of http_parser on one connection.  Setup: the URL argument is     *)
(* parsed (parse_args), cut into the parts of the Lua table wrk (script_create)*)
(* and the request the script builds is parsed back (script_verify_request).   *)
(* Then the run: what the server sends arrives in segments of any size, the    *)
(* callbacks collect header lines and body in buffers and hand them to the     *)
(* script's response(), the connection is lost and opened again.  Pacing and   *)
(* latency are WrkConnection's; wrk.lua and the server are external.           *)
EXTENDS HttpMessage

CONSTANTS Arguments,              \* command lines: [url, scheme, host, port, path, valid, method, requests]
          Streams,                \* what servers send: sequences of responses, see Wire
          Later,                  \* those of the connections after the first
          Segments,               \* how many bytes a read may return, on the first connection
          RECVBUF, BUFGROW,       \* 8192 and 1024 in the code
          HTTP_MAX_HEADER_SIZE,
          MaxConnections          \* bound: connections opened

VARIABLES phase,                  \* setup, usage, verified, exited; connecting, open, stopped
          args, verified,         \* the command line and what script_verify_request returned
          parser, c,              \* c->parser, and the rest of the connection
          stream, pos, closed,    \* the server: its responses, bytes read so far, hung up
          conn, dialed,           \* connections established, calls of connect_socket
          errors                  \* errors.read and errors.write

vars == <<phase, args, verified, parser, c, stream, pos, closed, conn, dialed, errors>>

NUL == "~"                        \* the byte 0
Uninitialised == "?"

-----------------------------------------------------------------------------
(* script.c: the buffers.  mem is the memory of a buffer, used its cursor.     *)
NoBuffer == [mem |-> "", used |-> 0, ok |-> TRUE]

Bytes(n) == LET f[i \in 0..n] == IF i = 0 THEN "" ELSE f[i - 1] \o Uninitialised IN f[n]
Write(b, data) ==
    [b EXCEPT !.mem = SubSeq(@, 1, b.used) \o data \o SubSeq(@, b.used + Len(data) + 1, Len(@)),
              !.used = @ + Len(data),
              !.ok = @ /\ b.used + Len(data) <= Len(b.mem)]

\* Mutant of buffer_append: no room for the NUL.
buffer_append_short(b, data) ==
    LET short == b.used + Len(data) - Len(b.mem)
        grow  == IF short <= 0 THEN 0 ELSE (short + BUFGROW - 1) \div BUFGROW
    IN  Write([b EXCEPT !.mem = @ \o Bytes(grow * BUFGROW)], data)

buffer_append(b, data) ==
    LET short == b.used + Len(data) + 2 - Len(b.mem)
        grow  == IF short <= 0 THEN 0 ELSE (short + BUFGROW - 1) \div BUFGROW
    IN  Write([b EXCEPT !.mem = @ \o Bytes(grow * BUFGROW)], data)

buffer_reset(b) == [b EXCEPT !.used = 0]

\* the string at `at`, up to its NUL (or, if there is none, the end of the memory)
StringAt(mem, at) ==
    LET nul == {i \in at..Len(mem) : Ch(mem, i) = NUL}
        end == IF nul = {} THEN Len(mem) + 1 ELSE CHOOSE i \in nul : \A j \in nul : i <= j
    IN  SubSeq(mem, at, end - 1)

\* the header table of script_response: pairs of strings until the cursor
HeaderTable(b) ==
    LET pairs[at \in 1..Len(b.mem) + 3] ==
            IF at > b.used THEN <<>>
            ELSE LET k == StringAt(b.mem, at)
                     v == StringAt(b.mem, at + Len(k) + 1)
                 IN  pairs[at + Len(k) + Len(v) + 2] @@ (k :> v)
    IN  pairs[1]

-----------------------------------------------------------------------------
(* wrk.c: the callbacks, on the connection c of an execution s.                *)
NoCall == [conn |-> 0]

NewConnection == [ headers |-> NoBuffer, body |-> "", state |-> "FIELD", complete |-> 0, status |-> 0,
                   stopped |-> FALSE, reconnect |-> FALSE, conn |-> 0, now |-> "running",
                   call |-> NoCall, spoilt |-> FALSE, asserts |-> TRUE ]

header_string(k, bytes, from, to) ==
    [k EXCEPT !.headers = buffer_append(IF k.state = from THEN Write(@, NUL) ELSE @, bytes),
              !.state = IF @ = from THEN to ELSE @]

header_field(k, bytes)  == header_string(k, bytes, "VALUE", "FIELD")
header_value(k, bytes)  == header_string(k, bytes, "FIELD", "VALUE")
response_body(k, bytes) == [k EXCEPT !.body = @ \o bytes]

\* c.call records the call of the script for the properties, c.spoilt why it may be wrong
script_response(k, status) ==
    IF k.headers.mem = "" THEN [k EXCEPT !.spoilt = TRUE]
    ELSE LET b == Write(k.headers, NUL)
         IN  [k EXCEPT !.call = [conn |-> k.conn, index |-> k.complete + 1, spoilt |-> k.spoilt,
                                 status |-> status, headers |-> HeaderTable(b), body |-> k.body],
                       !.headers = buffer_reset(b), !.body = "", !.state = "FIELD", !.spoilt = FALSE]

response_complete(s) ==
    LET k == [script_response(s.c, s.p.status) EXCEPT
                 !.complete = @ + 1, !.status = @ + IF s.p.status > 399 THEN 1 ELSE 0]
    IN  IF k.now = "stop_at" THEN [s EXCEPT !.c = [k EXCEPT !.stopped = TRUE]]
        ELSE IF ~http_should_keep_alive(s.p) THEN [s EXCEPT !.c = [k EXCEPT !.reconnect = TRUE]]
        ELSE [s EXCEPT !.c = k, !.p = http_parser_init("HTTP_RESPONSE")]

\* script_verify_request only counts; parser_settings are those of a script with response()
Settings(name, bytes, s) ==
    IF s.p.type = "HTTP_REQUEST"
    THEN IF name = "message_complete" THEN [s EXCEPT !.c = @ + 1] ELSE s
    ELSE CASE name = "header_field"     -> [s EXCEPT !.c = header_field(@, bytes)]
           [] name = "header_value"     -> [s EXCEPT !.c = header_value(@, bytes)]
           [] name = "body"             -> [s EXCEPT !.c = response_body(@, bytes)]
           [] name = "message_complete" -> response_complete(s)
           [] OTHER -> s

Parser == INSTANCE HttpParser WITH Callback <- Settings

-----------------------------------------------------------------------------
(* External: the request wrk.format builds, and what a server writes.          *)
Format(a, parts) ==
    LET host == IF Len(parts.port) = 0 THEN parts.host ELSE parts.host \o ":" \o parts.port
        one  == a.method \o " " \o parts.path \o " HTTP/1.1\r\nHost: " \o host \o "\r\n\r\n"
        many[i \in 0..a.requests] == IF i = 0 THEN "" ELSE many[i - 1] \o one
    IN  many[a.requests]

Wire(responses) ==
    LET w[i \in 0..Len(responses)] == IF i = 0 THEN "" ELSE w[i - 1] \o responses[i].wire IN w[Len(responses)]
End(responses, i) == Len(Wire(SubSeq(responses, 1, i)))

-----------------------------------------------------------------------------
(* Setup: main, parse_args, script_create, script_verify_request.              *)
NotVerified == [parsed |-> 0, count |-> 0]

push_url_part(url, u, f) == IF f \in DOMAIN u THEN copy_url_part(url, u, f) ELSE ""
PartsOf(url, u) ==
    [scheme |-> push_url_part(url, u, "SCHEMA"), host |-> push_url_part(url, u, "HOST"),
     port |-> push_url_part(url, u, "PORT"), path |-> RequestPath(url, u)]
Parts(url) == PartsOf(url, http_parser_parse_url(url, FALSE).u)

VerifiedBy(r, request) ==
    [parsed |-> r.at, count |-> r.c, all |-> r.at = Len(request) /\ r.c > 0, asserts |-> r.asserts]
script_verify_request(request) ==
    VerifiedBy(Parser!http_parser_execute(http_parser_init("HTTP_REQUEST"), 0, request), request)

Setup ==
    /\ phase = "setup"
    /\ IF ~script_parse_url(args.url) THEN phase' = "usage" /\ UNCHANGED verified
       ELSE /\ verified' = script_verify_request(Format(args, Parts(args.url)))
            /\ phase' = IF verified'.all THEN "verified" ELSE "exited"
    /\ UNCHANGED <<args, parser, c, stream, pos, closed, conn, dialed, errors>>

Init ==
    /\ phase = "setup" /\ args \in Arguments /\ verified = NotVerified
    /\ parser = http_parser_init("HTTP_RESPONSE") /\ c = NewConnection
    /\ stream = <<>> /\ pos = 0 /\ closed = FALSE /\ conn = 0 /\ dialed = 0
    /\ errors = [read |-> 0, write |-> 0]

-----------------------------------------------------------------------------
(* The run.  socket_connected initialises the parser; what the connection's    *)
(* buffers hold from before stays.  args is no longer needed.                  *)
RunBegins ==
    /\ phase = "verified" /\ phase' = "connecting" /\ args' = {} /\ dialed' = 1
    /\ verified' = NotVerified
    /\ UNCHANGED <<parser, c, stream, pos, closed, conn, errors>>

Connected ==
    /\ phase = "connecting" /\ conn < MaxConnections
    /\ stream' \in IF conn = 0 THEN Streams ELSE Later
    /\ phase' = "open" /\ pos' = 0 /\ closed' = FALSE /\ conn' = conn + 1
    /\ parser' = http_parser_init("HTTP_RESPONSE")
    /\ c' = [c EXCEPT !.conn = conn + 1, !.complete = 0, !.reconnect = FALSE]
    /\ UNCHANGED <<args, verified, dialed, errors>>

\* a response is on its way: some of its bytes have been read
MidResponse == \E i \in 1..Len(stream) : End(stream, i - 1) < pos /\ pos < End(stream, i)

\* reconnect_socket, called n times; the call after a lost response is marked
Reconnect(k, n, mid) ==
    /\ phase' = (IF k.stopped THEN "stopped" ELSE "connecting")
    /\ c' = [k EXCEPT !.spoilt = @ \/ mid]
    /\ dialed' = dialed + n

\* response_complete has called reconnect_socket: what follows is of the new fd
Dials(k) == IF k.reconnect THEN 1 ELSE 0

\* the handler goes on with the connection, or the loop has been stopped
GoOn(k) ==
    /\ phase' = (IF k.stopped THEN "stopped" ELSE phase)
    /\ c' = k
    /\ UNCHANGED dialed

\* Mutant of Parsed: an error of the parser is not counted.
ParsedUncounted(r, n) ==
    LET k == [r.c EXCEPT !.now = "running", !.asserts = @ /\ r.asserts]
    IN  /\ parser' = r.p /\ UNCHANGED errors
        /\ IF r.at # n THEN Reconnect(k, Dials(k) + 1, TRUE)
           ELSE IF k.reconnect THEN Reconnect(k, 1, FALSE) ELSE GoOn(k)

\* what socket_readable does with the result of the parser for n bytes: on an
\* error it reconnects, also when response_complete has just done so
Parsed(r, n) ==
    LET k == [r.c EXCEPT !.now = "running", !.asserts = @ /\ r.asserts]
    IN  /\ parser' = r.p
        /\ IF r.at # n
           THEN Reconnect(k, Dials(k) + 1, TRUE) /\ errors' = [errors EXCEPT !.read = @ + 1]
           ELSE UNCHANGED errors /\ IF k.reconnect THEN Reconnect(k, 1, FALSE) ELSE GoOn(k)

socket_readable(n, now) ==
    LET wire == Wire(stream)
        left == Len(wire) - pos
        m    == IF n <= left THEN n ELSE left
    IN  /\ phase = "open" /\ ~closed /\ left > 0
        /\ \E r \in {Parser!http_parser_execute(parser, [c EXCEPT !.now = now], SubSeq(wire, pos + 1, pos + m))} :
               Parsed(r, m)
        /\ pos' = pos + m
        /\ UNCHANGED <<args, verified, stream, closed, conn>>

\* the server has hung up: read returns 0, which goes to the parser too
ReadEof ==
    /\ phase = "open" /\ closed
    /\ \E r \in {Parser!http_parser_execute(parser, c, "")} : Parsed(r, 0)
    /\ UNCHANGED <<args, verified, stream, pos, closed, conn>>

ReadError ==
    /\ phase = "open" /\ closed
    /\ Reconnect(c, 1, MidResponse) /\ errors' = [errors EXCEPT !.read = @ + 1]
    /\ UNCHANGED <<args, verified, parser, stream, pos, closed, conn>>

\* socket_writeable finds the connection gone when the next request is due
WriteError ==
    /\ phase = "open" /\ closed
    /\ Reconnect(c, 1, MidResponse) /\ errors' = [errors EXCEPT !.write = @ + 1]
    /\ UNCHANGED <<args, verified, parser, stream, pos, closed, conn>>

\* external: the server goes away, in the middle of a response or between two
HangUp ==
    /\ phase = "open" /\ ~closed /\ closed' = TRUE
    /\ UNCHANGED <<phase, args, verified, parser, c, stream, pos, conn, dialed, errors>>

Next == \/ Setup \/ RunBegins \/ Connected \/ ReadEof \/ ReadError \/ WriteError \/ HangUp
        \/ \E n \in (IF conn = 1 THEN Segments ELSE {RECVBUF}), now \in {"running", "stop_at"} :
               socket_readable(n, now)

Spec == Init /\ [][Next]_vars

-----------------------------------------------------------------------------
(* The asserts of http_parser.c hold (at most one string is open at the end of *)
(* a segment, a chunk size is the first byte after a reset count, ...), and no *)
(* byte is written behind the header buffer, for every segmentation.           *)
AssertsHold == c.asserts /\ c.headers.ok /\ c.headers.used <= Len(c.headers.mem)

(* script_response: what response() gets is the status, the headers and the    *)
(* body of a response as the server sent it, however it was segmented, unless  *)
(* the connection was lost in the middle of a response since the last call, or *)
(* there are no headers (wrk.c reset neither buffers nor c->state; an empty    *)
(* header buffer still yields a pair).                                         *)
ScriptGetsWhatWasSent ==
    LET k == c.call IN
    (conn > 0 /\ k.conn = conn) =>
        /\ k.index <= Len(stream)
        /\ (~k.spoilt /\ stream[k.index].headers # <<>>) =>
               LET r == stream[k.index]
               IN  /\ k.status = r.status /\ k.headers = r.headers
                   /\ \/ k.body = r.body
                      \/ r.framing = "eof" /\ k.body = SubSeq(r.body, 1, Len(k.body))

(* http_parser_execute: a response is complete at its last byte, neither       *)
(* earlier nor later, in every segmentation; one the parser must refuse (a     *)
(* Content-Length over the limit, headers over HTTP_MAX_HEADER_SIZE, a broken  *)
(* chunk) never completes and does not leave the connection open.              *)
CompleteAtTheLastByte ==
    /\ phase = "open" =>
           /\ c.complete = Cardinality({i \in 1..Len(stream) : /\ End(stream, i) <= pos
                                                              /\ stream[i].framing # "eof"})
           /\ \A i \in 1..Len(stream) : stream[i].framing = "bad" => pos < End(stream, i)
    /\ \A i \in 1..Len(stream) : stream[i].framing = "bad" => c.complete < i

(* socket_readable: a connection that is given up in the middle of a response  *)
(* counts as an error, unless that response was to end with the connection.    *)
NoSilentLoss ==
    [][(phase = "open" /\ phase' = "connecting" /\ MidResponse')
          => errors' # errors \/ stream[c.complete + 1].framing = "eof"]_vars

(* A connection that the server keeps open is given up only after a response   *)
(* that ends it or that must be refused, and the one that replaces it is kept  *)
(* until it is used.  Only bytes behind a closing response, in the same read,  *)
(* cost it: the parser refuses them, and socket_readable then reconnects on    *)
(* top of response_complete.                                                   *)
NoNeedlessReconnect ==
    [][(phase = "open" /\ dialed' # dialed /\ ~closed)
          => /\ \E i \in 1..Len(stream) : stream[i].last /\ pos' > End(stream, i - 1)
             /\ \/ dialed' = dialed + 1
                \/ /\ dialed' = dialed + 2
                   /\ \E i \in 1..Len(stream) : /\ stream[i].last /\ stream[i].framing # "bad"
                                               /\ pos' > End(stream, i)]_vars

(* parse_args, script_create: a good URL is cut into the parts it was made of, *)
(* and a bad one is refused.                                                   *)
UrlIsUnderstood ==
    /\ phase = "usage" => ~args.valid
    /\ phase \in {"verified", "exited"} =>
           /\ args.valid
           /\ Parts(args.url) = [scheme |-> args.scheme, host |-> args.host, port |-> args.port,
                                 path |-> args.path]

(* script_verify_request: it counts the requests of the script's string, for   *)
(* every method http_parser knows, and exits on a word that is none, and on a  *)
(* pipeline of CONNECTs (parsing stops after the first).                       *)
EveryMethodIsKnown ==
    /\ phase = "verified" => verified.count = args.requests /\ args.method \in Parser!Methods
    /\ phase = "exited" => \/ args.method \notin Parser!Methods
                           \/ args.method = "CONNECT" /\ args.requests > 1
=============================================================================
