----------------------------- MODULE HttpParser -----------------------------
(* http_parser.c: http_parser_execute on one buffer, as wrk uses it: responses *)
(* (socket_readable) and its own request (script_verify_request).  The parser  *)
(* p is what struct http_parser keeps between two buffers.  An execution s     *)
(* adds the buffer, the position, the marks of the strings being read and the  *)
(* caller's state c, which the callbacks change; they may also change the      *)
(* parser under the execution's feet, as wrk's response_complete does.         *)
(* on_headers_complete, on_url and on_status are never set by wrk.             *)
EXTENDS HttpMessage

CONSTANTS Callback(_, _, _),      \* the caller's callbacks: name, bytes, execution
          HTTP_MAX_HEADER_SIZE    \* 80 K in the code

start_state(p) == IF p.type = "HTTP_REQUEST" THEN "s_start_req" ELSE "s_start_res"
NEW_MESSAGE(p) == IF http_should_keep_alive(p) THEN start_state(p) ELSE "s_dead"

BodyStates == {"s_chunk_data", "s_chunk_data_almost_done", "s_chunk_data_done",
               "s_body_identity", "s_body_identity_eof", "s_message_done"}
PARSING_HEADER(state) == state \notin BodyStates

-----------------------------------------------------------------------------
Fail(s, e)   == [s EXCEPT !.p.errno = e]                     \* goto error
Goto(s, st)  == [s EXCEPT !.p.state = st, !.at = @ + 1]      \* UPDATE_STATE, next byte
Again(s, st) == [s EXCEPT !.p.state = st]                    \* UPDATE_STATE, REEXECUTE
Stay(s)      == [s EXCEPT !.at = @ + 1]
Check(s, b)  == [s EXCEPT !.asserts = @ /\ b]                \* assert(b)

COUNT_HEADER_SIZE(s, n) ==
    LET t == [s EXCEPT !.p.nread = @ + n]
    IN  IF t.p.nread > HTTP_MAX_HEADER_SIZE THEN Fail(t, "HEADER_OVERFLOW") ELSE t

SetMark(s, for) == IF s.mk[for] = 0 THEN [s EXCEPT !.mk[for] = s.at] ELSE s

\* CALLBACK_NOTIFY, and CALLBACK_DATA with the bytes from the mark up to `upto`.
\* A byte makes at most one call; Deliver is the call.  What the code still does
\* for the byte after it touches only the position and nread.
NoCall == [for |-> "", bytes |-> ""]
CALLBACK_NOTIFY(s, for) == [s EXCEPT !.due = [for |-> for, bytes |-> ""]]
CALLBACK_DATA(s, for, upto) ==
    IF s.mk[for] = 0 THEN s
    ELSE [s EXCEPT !.mk[for] = 0, !.due = [for |-> for, bytes |-> SubSeq(s.data, s.mk[for], upto)]]
Deliver(s) == IF s.due = NoCall THEN s
              ELSE Callback(s.due.for, s.due.bytes, [s EXCEPT !.due = NoCall])

\* the message is complete: the byte is consumed after the callback
Complete(s) == Stay(CALLBACK_NOTIFY([s EXCEPT !.p.state = NEW_MESSAGE(s.p)], "message_complete"))

-----------------------------------------------------------------------------
(* Fixed characters (STRICT_CHECK), and numbers: version and status code.      *)
Literal ==
  [ s_res_H |-> <<"T", "s_res_HT">>,         s_req_http_H |-> <<"T", "s_req_http_HT">>,
    s_res_HT |-> <<"T", "s_res_HTT">>,       s_req_http_HT |-> <<"T", "s_req_http_HTT">>,
    s_res_HTT |-> <<"P", "s_res_HTTP">>,     s_req_http_HTT |-> <<"P", "s_req_http_HTTP">>,
    s_res_HTTP |-> <<"/", "s_res_first_http_major">>,
    s_req_http_HTTP |-> <<"/", "s_req_first_http_major">>,
    s_res_line_almost_done |-> <<LF, "s_header_field_start">>,
    s_req_line_almost_done |-> <<LF, "s_header_field_start">>,
    s_header_almost_done |-> <<LF, "s_header_value_lws">>,
    s_header_value_discard_ws_almost_done |-> <<LF, "s_header_value_discard_lws">> ]

LiteralByte(s, ch) ==
    IF ch = Literal[s.p.state][1] THEN Goto(s, Literal[s.p.state][2])
    ELSE Fail(s, IF s.p.state = "s_req_line_almost_done" THEN "LF_EXPECTED" ELSE "STRICT")

FirstDigit ==
  [ s_res_first_http_major  |-> <<"major", NUM, "s_res_http_major">>,
    s_req_first_http_major  |-> <<"major", NUM \ {"0"}, "s_req_http_major">>,
    s_res_first_http_minor  |-> <<"minor", NUM, "s_res_http_minor">>,
    s_req_first_http_minor  |-> <<"minor", NUM, "s_req_http_minor">>,
    s_res_first_status_code |-> <<"status", NUM, "s_res_status_code">> ]

EndOfLine == CR :> "s_req_line_almost_done" @@ LF :> "s_header_field_start"

MoreDigits ==
  [ s_res_http_major  |-> <<"major", "." :> "s_res_first_http_minor">>,
    s_req_http_major  |-> <<"major", "." :> "s_req_first_http_minor">>,
    s_res_http_minor  |-> <<"minor", " " :> "s_res_first_status_code">>,
    s_req_http_minor  |-> <<"minor", EndOfLine>>,
    s_res_status_code |-> <<"status", " " :> "s_res_status_start"
                                      @@ CR :> "s_res_line_almost_done" @@ EndOfLine>> ]

DigitError(f) == IF f = "status" THEN "INVALID_STATUS" ELSE "INVALID_VERSION"

FirstDigitByte(s, ch) ==
    LET d == FirstDigit[s.p.state]
    IN  IF ch \in d[2] THEN Goto([s EXCEPT !.p[d[1]] = Unhex[ch]], d[3])
        ELSE IF ch = " " /\ s.p.state = "s_res_first_status_code" THEN Stay(s)
        ELSE Fail(s, DigitError(d[1]))

MoreDigitsByte(s, ch) ==
    LET d == MoreDigits[s.p.state]
        n == s.p[d[1]] * 10 + Unhex[ch]
    IN  IF ch \in DOMAIN d[2] THEN Goto(s, d[2][ch])
        ELSE IF ch \notin NUM THEN Fail(s, DigitError(d[1]))
        ELSE IF n > 999 THEN Fail([s EXCEPT !.p[d[1]] = n], DigitError(d[1]))
        ELSE Stay([s EXCEPT !.p[d[1]] = n])

-----------------------------------------------------------------------------
(* The status line, around its literals and numbers.                           *)
Fresh(s) == [s EXCEPT !.p.flags = {}, !.p.clen = ULLONG_MAX]

s_start_res(s, ch) ==
    IF ch \notin {"H", CR, LF} THEN Fail(Fresh(s), "INVALID_CONSTANT")
    ELSE IF ch = "H" THEN Goto(Fresh(s), "s_res_H") ELSE Stay(Fresh(s))

\* the reason, which may be empty, up to the end of the line
s_res_status(s, ch) ==
    LET next == IF ch = CR THEN "s_res_line_almost_done"
                ELSE IF ch = LF THEN "s_header_field_start" ELSE "s_res_status"
    IN  IF next # "s_res_status" THEN Goto(CALLBACK_DATA(s, "status", s.at - 1), next)
        ELSE IF s.p.state = "s_res_status" THEN Stay(s)
        ELSE Goto(SetMark([s EXCEPT !.p.index = 0], "status"), next)

(* The request line.  The method is guessed from its first letter and changed  *)
(* where a later letter shows another one.                                     *)
Methods == {"DELETE", "GET", "HEAD", "POST", "PUT", "CONNECT", "OPTIONS", "TRACE", "COPY", "LOCK",
            "MKCOL", "MOVE", "PROPFIND", "PROPPATCH", "SEARCH", "UNLOCK", "REPORT", "MKACTIVITY",
            "CHECKOUT", "MERGE", "M-SEARCH", "NOTIFY", "SUBSCRIBE", "UNSUBSCRIBE", "PATCH", "PURGE",
            "MKCALENDAR"}

FirstGuess == "C" :> "CONNECT" @@ "D" :> "DELETE" @@ "G" :> "GET" @@ "H" :> "HEAD" @@ "L" :> "LOCK"
           @@ "M" :> "MKCOL" @@ "N" :> "NOTIFY" @@ "O" :> "OPTIONS" @@ "P" :> "POST" @@ "R" :> "REPORT"
           @@ "S" :> "SUBSCRIBE" @@ "T" :> "TRACE" @@ "U" :> "UNLOCK"

\* <<method so far, index, letter that does not match it>> -> the method it must be
OtherMethod ==
     <<"CONNECT", 1, "H">> :> "CHECKOUT"  @@ <<"CONNECT", 2, "P">> :> "COPY"
  @@ <<"MKCOL", 1, "O">> :> "MOVE"        @@ <<"MKCOL", 1, "E">> :> "MERGE"
  @@ <<"MKCOL", 1, "-">> :> "M-SEARCH"    @@ <<"MKCOL", 2, "A">> :> "MKACTIVITY"
  @@ <<"MKCOL", 3, "A">> :> "MKCALENDAR"  @@ <<"SUBSCRIBE", 1, "E">> :> "SEARCH"
  @@ <<"POST", 1, "R">> :> "PROPFIND"     @@ <<"POST", 1, "U">> :> "PUT"
  @@ <<"POST", 1, "A">> :> "PATCH"        @@ <<"PUT", 2, "R">> :> "PURGE"
  @@ <<"UNLOCK", 2, "S">> :> "UNSUBSCRIBE" @@ <<"PROPFIND", 4, "P">> :> "PROPPATCH"

\* Mutant of MethodByte: a space ends the method wherever it is.
MethodByteEarly(s, ch) ==
    LET t == Stay([s EXCEPT !.p.index = @ + 1])
    IN  IF ch = " " THEN Goto(s, "s_req_spaces_before_url")
        ELSE IF s.p.index < Len(s.p.method) /\ ch = Ch(s.p.method, s.p.index + 1) THEN t
        ELSE IF <<s.p.method, s.p.index, ch>> \in DOMAIN OtherMethod
        THEN [t EXCEPT !.p.method = OtherMethod[<<s.p.method, s.p.index, ch>>]]
        ELSE Fail(s, "INVALID_METHOD")

MethodByte(s, ch) ==
    LET p    == s.p
        next == <<p.method, p.index, ch>>
        t    == Stay([s EXCEPT !.p.index = @ + 1])
    IN  CASE ch = " " /\ p.index = Len(p.method) -> Goto([s EXCEPT !.p.index = @ + 1], "s_req_spaces_before_url")
          [] ~(ch = " " /\ p.index = Len(p.method)) ->
               IF p.index < Len(p.method) /\ ch = Ch(p.method, p.index + 1) THEN t
               ELSE IF next \in DOMAIN OtherMethod THEN [t EXCEPT !.p.method = OtherMethod[next]]
               ELSE Fail(s, "INVALID_METHOD")

UrlByte(s, ch) ==
    LET ends == s.p.state \notin {"s_req_schema", "s_req_schema_slash", "s_req_schema_slash_slash",
                                  "s_req_server_start"}
        next == parse_url_char(s.p.state, ch)
    IN  IF ends /\ ch = " " THEN Goto(CALLBACK_DATA(s, "url", s.at - 1), "s_req_http_start")
        ELSE IF ends /\ ch \in {CR, LF}
        THEN Goto(CALLBACK_DATA([s EXCEPT !.p.major = 0, !.p.minor = 9], "url", s.at - 1), EndOfLine[ch])
        ELSE IF next = "s_dead" THEN Fail(Again(s, next), "INVALID_URL") ELSE Goto(s, next)

s_start_req(s, ch) ==
    IF ch \in {CR, LF} THEN Stay(s)
    ELSE IF ch \notin DOMAIN FirstGuess THEN Fail(Fresh(s), "INVALID_METHOD")
    ELSE Goto([Fresh(s) EXCEPT !.p.method = FirstGuess[ch], !.p.index = 1], "s_req_method")

s_req_spaces_before_url(s, ch) ==
    LET from == IF s.p.method = "CONNECT" THEN "s_req_server_start" ELSE s.p.state
        next == parse_url_char(from, ch)
    IN  IF ch = " " THEN Stay(s)
        ELSE IF next = "s_dead" THEN Fail(Again(SetMark(s, "url"), next), "INVALID_URL")
        ELSE Goto(SetMark(s, "url"), next)

s_req_http_start(s, ch) ==
    IF ch = "H" THEN Goto(s, "s_req_http_H")
    ELSE IF ch = " " THEN Stay(s) ELSE Fail(s, "INVALID_CONSTANT")

-----------------------------------------------------------------------------
(* Header names and values: the words the parser looks for, one letter after   *)
(* the other, and what it becomes when the word is complete or broken.         *)
\* without the grave accent: see HttpUrl
TOKEN == ALPHA \cup NUM \cup Chars("!#$%&'*+-.^_|~")

FirstOfName == "c" :> "h_C" @@ "p" :> "h_matching_proxy_connection"
            @@ "t" :> "h_matching_transfer_encoding" @@ "u" :> "h_matching_upgrade"
Prefix == <<"h_C", "o">> :> "h_CO" @@ <<"h_CO", "n">> :> "h_CON"
       @@ <<"h_CON", "n">> :> "h_matching_connection" @@ <<"h_CON", "t">> :> "h_matching_content_length"

Words ==
  [ h_matching_connection        |-> <<"connection", "h_connection", "h_general">>,
    h_matching_proxy_connection  |-> <<"proxy-connection", "h_connection", "h_general">>,
    h_matching_content_length    |-> <<"content-length", "h_content_length", "h_general">>,
    h_matching_transfer_encoding |-> <<"transfer-encoding", "h_transfer_encoding", "h_general">>,
    h_matching_upgrade           |-> <<"upgrade", "h_upgrade", "h_general">>,
    h_matching_transfer_encoding_chunked |->
        <<"chunked", "h_transfer_encoding_chunked", "h_general">>,
    h_matching_connection_keep_alive |->
        <<"keep-alive", "h_connection_keep_alive", "h_matching_connection_token">>,
    h_matching_connection_close   |-> <<"close", "h_connection_close", "h_matching_connection_token">>,
    h_matching_connection_upgrade |-> <<"upgrade", "h_connection_upgrade", "h_matching_connection_token">> ]

MatchWord(p, c) ==
    LET w == Words[p.hstate]
        i == p.index + 1
    IN  [p EXCEPT !.index = i,
                  !.hstate = IF i >= Len(w[1]) \/ c # Ch(w[1], i + 1) THEN w[3]
                             ELSE IF i = Len(w[1]) - 1 THEN w[2] ELSE @]

NameStep(p, c) ==
    CASE p.hstate = "h_general" -> p
      [] p.hstate \in {"h_C", "h_CO", "h_CON"} ->
           [p EXCEPT !.index = @ + 1, !.hstate = IF <<@, c>> \in DOMAIN Prefix THEN Prefix[<<@, c>>]
                                                 ELSE "h_general"]
      [] p.hstate \in DOMAIN Words -> MatchWord(p, c)
      [] OTHER -> [p EXCEPT !.hstate = "h_general"]

\* the first position from `from` on whose byte satisfies stop, or the end
FirstAt(data, from, stop(_)) ==
    LET hit == {i \in from..Len(data) : stop(Ch(data, i))}
    IN  IF hit = {} THEN Len(data) + 1 ELSE CHOOSE i \in hit : \A j \in hit : i <= j

FieldStart(s, ch) ==
    IF ch = CR THEN Goto(s, "s_headers_almost_done")
    ELSE IF ch = LF THEN Again(s, "s_headers_almost_done")
    ELSE IF ch \notin TOKEN THEN Fail(s, "INVALID_HEADER_TOKEN")
    ELSE Goto([SetMark(s, "header_field") EXCEPT
                 !.p.index = 0,
                 !.p.hstate = IF Lower(ch) \in DOMAIN FirstOfName THEN FirstOfName[Lower(ch)]
                              ELSE "h_general"], "s_header_field")

FieldBytes(s) ==
    LET stop == FirstAt(s.data, s.at, LAMBDA b : b \notin TOKEN)
        walk[i \in s.at - 1..stop - 1] == IF i < s.at THEN s.p ELSE NameStep(walk[i - 1], Lower(Ch(s.data, i)))
        t == COUNT_HEADER_SIZE([s EXCEPT !.p = walk[stop - 1], !.at = stop], stop - s.at)
    IN  IF t.p.errno # "OK" \/ stop > Len(s.data) THEN t
        ELSE IF Ch(s.data, stop) # ":" THEN Fail(t, "INVALID_HEADER_TOKEN")
        ELSE Goto(CALLBACK_DATA(t, "header_field", stop - 1), "s_header_value_discard_ws")

-----------------------------------------------------------------------------
ConnectionFirst == "k" :> "h_matching_connection_keep_alive" @@ "c" :> "h_matching_connection_close"
                @@ "u" :> "h_matching_connection_upgrade"

ValueStart(s, ch) ==
    LET t == Goto(SetMark([s EXCEPT !.p.index = 0], "header_value"), "s_header_value")
        c == Lower(ch)
        to(h) == [t EXCEPT !.p.hstate = h]
    IN  CASE s.p.hstate = "h_upgrade" -> [to("h_general") EXCEPT !.p.flags = @ \cup {"F_UPGRADE"}]
          [] s.p.hstate = "h_transfer_encoding" ->
               to(IF c = "c" THEN "h_matching_transfer_encoding_chunked" ELSE "h_general")
          [] s.p.hstate = "h_content_length" ->
               IF ch \in NUM THEN [t EXCEPT !.p.clen = Unhex[ch]]
               ELSE [Fail(t, "INVALID_CONTENT_LENGTH") EXCEPT !.at = s.at]
          [] s.p.hstate = "h_connection" ->
               to(IF c \in DOMAIN ConnectionFirst THEN ConnectionFirst[c] ELSE "h_matching_connection_token")
          [] s.p.hstate = "h_matching_connection_token_start" -> t
          [] OTHER -> to("h_general")

\* the bytes whose LOWER (ch | 0x20) is a token; the tab's is a parenthesis
LOWER_TOKEN == (TOKEN \ {"_"}) \cup {"@", "\\"}

FlagOf == [ h_connection_keep_alive |-> "F_CONNECTION_KEEP_ALIVE",
            h_connection_close |-> "F_CONNECTION_CLOSE",
            h_connection_upgrade |-> "F_CONNECTION_UPGRADE",
            h_transfer_encoding_chunked |-> "F_CHUNKED" ]
SetFlag(p) == IF p.hstate \in DOMAIN FlagOf THEN [p EXCEPT !.flags = @ \cup {FlagOf[p.hstate]}] ELSE p

\* Mutant of Overflows: numbers wrap.
OverflowsNever(n, base) == FALSE

Overflows(n, base) == (ULLONG_MAX - base) \div base < n

ContentLengthStep(p, ch) ==
    IF ch = " " THEN p
    ELSE IF ch \notin NUM \/ Overflows(p.clen, 10) THEN [p EXCEPT !.errno = "INVALID_CONTENT_LENGTH"]
    ELSE [p EXCEPT !.clen = UINT(@ * 10 + Unhex[ch])]

ValueStep(p, ch) ==
    LET to(h)    == [p EXCEPT !.hstate = h]
        next(q)  == [q EXCEPT !.hstate = "h_matching_connection_token_start", !.index = 0]
        c        == Lower(ch)
    IN  CASE p.hstate = "h_content_length" -> ContentLengthStep(p, ch)
          [] p.hstate \in DOMAIN Words -> MatchWord(p, c)
          [] p.hstate = "h_matching_connection_token_start" ->
               IF c \in DOMAIN ConnectionFirst THEN to(ConnectionFirst[c])
               ELSE IF ch \in LOWER_TOKEN THEN to("h_matching_connection_token")
               ELSE IF ch = " " THEN p ELSE to("h_general")
          [] p.hstate = "h_matching_connection_token" -> IF ch = "," THEN next(p) ELSE p
          [] p.hstate = "h_transfer_encoding_chunked" -> IF ch = " " THEN p ELSE to("h_general")
          [] p.hstate \in DOMAIN FlagOf \ {"h_transfer_encoding_chunked"} ->
               IF ch = "," THEN next(SetFlag(p))
               ELSE IF ch = " " THEN p ELSE to("h_matching_connection_token")
          [] OTHER -> to("h_general")

\* CR consumes itself; LF is seen again, and the bytes before it are counted twice
ValueBytes(s) ==
    LET stop == FirstAt(s.data, s.at, LAMBDA b : b \in {CR, LF})
        walk[i \in s.at - 1..stop - 1] ==
            IF i < s.at THEN [p |-> s.p, at |-> stop]
            ELSE LET last == walk[i - 1]
                     q    == ValueStep(last.p, Ch(s.data, i))
                 IN  IF last.p.errno # "OK" THEN last
                     ELSE [p |-> q, at |-> IF q.errno = "OK" THEN stop ELSE i]
        end  == walk[stop - 1]
        t    == Check([s EXCEPT !.p = end.p, !.at = end.at],
                      stop > s.at => s.p.hstate \notin {"h_connection", "h_transfer_encoding"})
        n    == stop - s.at
        once == COUNT_HEADER_SIZE(t, n)
        done(u) == Again(CALLBACK_DATA(u, "header_value", stop - 1), "s_header_almost_done")
    IN  IF t.p.errno # "OK" THEN t
        ELSE IF stop > Len(s.data) THEN once
        ELSE IF Ch(s.data, stop) = LF
        THEN IF once.p.errno # "OK" THEN Again(once, "s_header_almost_done")
             ELSE COUNT_HEADER_SIZE(done(once), n - 1)
        ELSE LET u == COUNT_HEADER_SIZE(done(t), n) IN IF u.p.errno = "OK" THEN Stay(u) ELSE u

\* between the value of one header and the next header
ValueEdge(s, ch) ==
    LET ws == ch \in {" ", "\t"}
        st == s.p.state
    IN  CASE st = "s_header_value_discard_ws" ->
               IF ws THEN Stay(s)
               ELSE IF ch = CR THEN Goto(s, "s_header_value_discard_ws_almost_done")
               ELSE IF ch = LF THEN Goto(s, "s_header_value_discard_lws")
               ELSE ValueStart(s, ch)
          [] st = "s_header_value_start" -> ValueStart(s, ch)
          [] st = "s_header_value_lws" ->
               IF ws THEN Again(s, "s_header_value_start")
               ELSE Again([s EXCEPT !.p = SetFlag(@)], "s_header_field_start")
          [] st = "s_header_value_discard_lws" ->
               IF ws THEN Goto(s, "s_header_value_discard_ws")
               ELSE Again(CALLBACK_DATA(SetMark([s EXCEPT !.p = SetFlag(@)], "header_value"),
                                        "header_value", s.at - 1), "s_header_field_start")

-----------------------------------------------------------------------------
(* The end of the headers, and the body.                                       *)
HeadersAlmostDone(s, ch) ==
    IF ch # LF THEN Fail(s, "STRICT")
    ELSE IF "F_TRAILING" \in s.p.flags THEN Complete(s)
    ELSE Again([s EXCEPT !.p.upgrade = \/ {"F_UPGRADE", "F_CONNECTION_UPGRADE"} \subseteq s.p.flags
                                       \/ s.p.method = "CONNECT"], "s_headers_done")

HeadersDone(s, ch) ==
    LET t == [s EXCEPT !.p.nread = 0]
    IN  IF ch # LF THEN Fail(s, "STRICT")
        ELSE IF t.p.upgrade THEN [Complete(t) EXCEPT !.done = TRUE]
        ELSE IF "F_CHUNKED" \in t.p.flags THEN Goto(t, "s_chunk_size_start")
        ELSE IF t.p.clen \notin {0, ULLONG_MAX} THEN Goto(t, "s_body_identity")
        ELSE IF t.p.clen = ULLONG_MAX /\ http_message_needs_eof(t.p) THEN Goto(t, "s_body_identity_eof")
        ELSE Complete(t)

\* as much of the body as there is: at the last of its bytes
TakeBody(s) ==
    LET left    == Len(s.data) - s.at + 1
        to_read == IF s.p.clen <= left THEN s.p.clen ELSE left
    IN  [Check(SetMark(s, "body"), s.p.clen \notin {0, ULLONG_MAX})
           EXCEPT !.p.clen = @ - to_read, !.at = @ + to_read - 1]

ChunkSize(s, ch) ==
    IF ch = CR THEN Goto(s, "s_chunk_size_almost_done")
    ELSE IF ch \in {";", " "} THEN Goto(s, "s_chunk_parameters")
    ELSE IF ch \notin HEX THEN Fail(s, "INVALID_CHUNK_SIZE")
    ELSE IF Overflows(s.p.clen, 16) THEN Fail(s, "INVALID_CONTENT_LENGTH")
    ELSE Stay([s EXCEPT !.p.clen = UINT(@ * 16 + Unhex[ch])])

ChunkStates == {"s_chunk_size_start", "s_chunk_size", "s_chunk_parameters", "s_chunk_size_almost_done",
                "s_chunk_data", "s_chunk_data_almost_done", "s_chunk_data_done"}

ChunkByte(s0, ch) ==
    LET s  == Check(s0, "F_CHUNKED" \in s0.p.flags)
        st == s.p.state
        zero == [s EXCEPT !.p.nread = 0]
    IN  CASE st = "s_chunk_size_start" ->
               IF ch \notin HEX THEN Fail(Check(s, s.p.nread = 1), "INVALID_CHUNK_SIZE")
               ELSE Goto([Check(s, s.p.nread = 1) EXCEPT !.p.clen = Unhex[ch]], "s_chunk_size")
          [] st = "s_chunk_size" -> ChunkSize(s, ch)
          [] st = "s_chunk_parameters" -> IF ch = CR THEN Goto(s, "s_chunk_size_almost_done") ELSE Stay(s)
          [] st = "s_chunk_size_almost_done" ->
               IF ch # LF THEN Fail(s, "STRICT")
               ELSE IF s.p.clen # 0 THEN Goto(zero, "s_chunk_data")
               ELSE Goto([zero EXCEPT !.p.flags = @ \cup {"F_TRAILING"}], "s_header_field_start")
          [] st = "s_chunk_data" ->
               LET t == TakeBody(s)
               IN  IF t.p.clen = 0 THEN Goto(t, "s_chunk_data_almost_done") ELSE Stay(t)
          [] st = "s_chunk_data_almost_done" ->
               IF ch # CR THEN Fail(Check(s, s.p.clen = 0), "STRICT")
               ELSE Goto(CALLBACK_DATA(Check(s, s.p.clen = 0), "body", s.at - 1), "s_chunk_data_done")
          [] st = "s_chunk_data_done" ->
               IF ch # LF THEN Fail(s, "STRICT") ELSE Goto(zero, "s_chunk_size_start")

BodyByte(s, ch) ==
    CASE s.p.state = "s_body_identity" ->
           LET t == TakeBody(s)
           IN  IF t.p.clen # 0 THEN Stay(t)
               ELSE CALLBACK_DATA(Again(t, "s_message_done"), "body", t.at)
      [] s.p.state = "s_body_identity_eof" -> [SetMark(s, "body") EXCEPT !.at = Len(s.data) + 1]
      [] s.p.state = "s_message_done" -> Complete(s)

-----------------------------------------------------------------------------
UrlStates == {"s_req_path", "s_req_schema", "s_req_schema_slash", "s_req_schema_slash_slash",
              "s_req_server_start", "s_req_server", "s_req_server_with_at", "s_req_query_string_start",
              "s_req_query_string", "s_req_fragment_start", "s_req_fragment"}

Byte(s, ch) ==
    LET st == s.p.state
    IN  CASE st = "s_dead" -> IF ch \in {CR, LF} THEN Stay(s) ELSE Fail(s, "CLOSED_CONNECTION")
          [] st = "s_start_res" -> s_start_res(s, ch)
          [] st \in {"s_res_status_start", "s_res_status"} -> s_res_status(s, ch)
          [] st = "s_start_req"  -> s_start_req(s, ch)
          [] st = "s_req_method" -> MethodByte(s, ch)
          [] st = "s_req_spaces_before_url" -> s_req_spaces_before_url(s, ch)
          [] st = "s_req_http_start"   -> s_req_http_start(s, ch)
          [] st \in UrlStates         -> UrlByte(s, ch)
          [] st \in DOMAIN Literal     -> LiteralByte(s, ch)
          [] st \in DOMAIN FirstDigit  -> FirstDigitByte(s, ch)
          [] st \in DOMAIN MoreDigits  -> MoreDigitsByte(s, ch)
          [] st = "s_header_field_start"  -> FieldStart(s, ch)
          [] st = "s_header_field"        -> FieldBytes(s)
          [] st = "s_header_value"        -> ValueBytes(s)
          [] st = "s_headers_almost_done" -> HeadersAlmostDone(s, ch)
          [] st = "s_headers_done"        -> HeadersDone(s, ch)
          [] st \in ChunkStates          -> ChunkByte(s, ch)
          [] st \in BodyStates \ ChunkStates -> BodyByte(s, ch)
          [] OTHER -> ValueEdge(s, ch)

RECURSIVE Run(_)
Run(s) ==
    IF s.at > Len(s.data) \/ s.p.errno # "OK" \/ s.done THEN s
    ELSE LET t == IF PARSING_HEADER(s.p.state) THEN COUNT_HEADER_SIZE(s, 1) ELSE s
         IN  IF t.p.errno # "OK" THEN t ELSE Run(Deliver(Byte(t, Ch(t.data, t.at))))

Marks == {"header_field", "header_value", "url", "body", "status"}
\* Mutant of MarkAtStart: a value cut by the end of a buffer is not taken up again.
MarkAtStartNoValue(st) ==
    IF st \in UrlStates THEN {"url"} ELSE IF st = "s_header_field" THEN {"header_field"} ELSE {}

MarkAtStart(st) ==
    IF st \in UrlStates THEN {"url"}
    ELSE CASE st = "s_header_field" -> {"header_field"} [] st = "s_header_value" -> {"header_value"}
           [] st = "s_res_status" -> {"status"} [] OTHER -> {}

\* the strings that the end of the buffer cuts are handed over in part
Flush(s) ==
    LET open == {m \in Marks : s.mk[m] # 0}
        t    == Check(s, Cardinality(open) <= 1)
    IN  IF s.p.errno # "OK" THEN s
        ELSE IF open = {} \/ s.done THEN t ELSE CALLBACK_DATA(t, CHOOSE m \in open : TRUE, Len(s.data))

Started(p, c, data) ==
    [p |-> p, data |-> data, at |-> 1, c |-> c, asserts |-> TRUE, done |-> FALSE, due |-> NoCall,
     mk |-> [m \in Marks |-> IF m \in MarkAtStart(p.state) THEN 1 ELSE 0]]

\* an end of the connection: it ends a message, comes between two, or in one
Eof(s) ==
    CASE s.p.state = "s_body_identity_eof" -> CALLBACK_NOTIFY(s, "message_complete")
      [] s.p.state \in {"s_dead", "s_start_res", "s_start_req"} -> s
      [] OTHER -> [Fail(s, "INVALID_EOF_STATE") EXCEPT !.at = 2]

Result(s) == [s EXCEPT !.at = @ - 1]

(* The result: the parser, the caller's state, the number of bytes parsed and  *)
(* whether every assert held.                                                  *)
http_parser_execute(p, c, data) ==
    IF p.errno # "OK" THEN Result(Started(p, c, data))
    ELSE Result(Deliver(IF data = "" THEN Eof(Started(p, c, data)) ELSE Flush(Run(Started(p, c, data)))))
=============================================================================
