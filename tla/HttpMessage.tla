---------------------------- MODULE HttpMessage ----------------------------
(* http_parser.c: what struct http_parser keeps between two buffers, and what  *)
(* its users ask of it (wrk's response_complete re-initialises the parser and  *)
(* asks whether the connection may be used again).                             *)
EXTENDS HttpUrl

CONSTANT ULLONG_MAX               \* 2^64 - 1 in the code

UINT(n) == n % (ULLONG_MAX + 1)

http_parser_init(t) ==
    [ type |-> t, state |-> IF t = "HTTP_REQUEST" THEN "s_start_req" ELSE "s_start_res",
      hstate |-> "h_general", index |-> 0, nread |-> 0, clen |-> 0, flags |-> {}, errno |-> "OK",
      major |-> 0, minor |-> 0, status |-> 0, method |-> "DELETE", upgrade |-> FALSE ]

http_message_needs_eof(p) ==
    /\ p.type # "HTTP_REQUEST"
    /\ p.status \div 100 # 1 /\ p.status \notin {204, 304}
    /\ "F_CHUNKED" \notin p.flags /\ p.clen = ULLONG_MAX

\* Mutant of http_should_keep_alive: only what asks for it is kept.
KeepAliveIfAsked(p) == "F_CONNECTION_KEEP_ALIVE" \in p.flags /\ ~http_message_needs_eof(p)

http_should_keep_alive(p) ==
    /\ IF p.major > 0 /\ p.minor > 0 THEN "F_CONNECTION_CLOSE" \notin p.flags
                                     ELSE "F_CONNECTION_KEEP_ALIVE" \in p.flags
    /\ ~http_message_needs_eof(p)
=============================================================================
