------------------------------ MODULE HttpUrl ------------------------------
(* http_parser.c's character classes and its URL parser: parse_url_char, one   *)
(* character of the URL automaton (which the request parser shares),           *)
(* http_parse_host, the second pass over the host part, and                    *)
(* http_parser_parse_url, which wrk calls for its argument (parse_args,        *)
(* script_create).  A byte is a string of length one, a buffer a string.       *)
(* Compiled as the Makefile does: HTTP_PARSER_STRICT is 1.                     *)
EXTENDS Integers, Sequences, FiniteSets, TLC

Ch(s, i) == SubSeq(s, i, i)
Chars(s) == {Ch(s, i) : i \in 1..Len(s)}

CR == "\r"
LF == "\n"
Lowercase == "abcdefghijklmnopqrstuvwxyz"
Uppercase == "ABCDEFGHIJKLMNOPQRSTUVWXYZ"
ALPHA     == Chars(Lowercase \o Uppercase)
NUM       == Chars("0123456789")
HEX       == NUM \cup Chars("abcdefABCDEF")
MARK      == {"-", "_", ".", "!", "~", "*", "'", "(", ")"}
\* the grave accent, which the code has in URL_CHAR and in the parser's TOKEN, is the
\* one byte of both that no string of the language can hold: no buffer here has it
USERINFO_CHAR == ALPHA \cup NUM \cup MARK \cup Chars("%;:&=+$,")
HOST_CHAR     == ALPHA \cup NUM \cup {".", "-"}
URL_CHAR      == USERINFO_CHAR \cup {"\"", "\\", "/", "<", ">", "@", "[", "]", "^", "{", "|", "}"}

\* LOWER on the letters, and the value of a digit
LowerOf == [c \in ALPHA |-> LET both == Lowercase \o Uppercase
                                i == CHOOSE j \in 1..52 : Ch(both, j) = c
                            IN  Ch(Lowercase, ((i - 1) % 26) + 1)]
Lower(c) == IF c \in ALPHA THEN LowerOf[c] ELSE c
Unhex == [c \in HEX |-> (CHOOSE i \in 1..16 : Ch("0123456789abcdef", i) = Lower(c)) - 1]

-----------------------------------------------------------------------------
(* An automaton is a table: for each state the cases in the order the code     *)
(* tries them, <<characters, next state>>; no case is the dead state.          *)
NextOf(rules, s, ch, dead) ==
    LET hit == {i \in DOMAIN rules[s] : ch \in rules[s][i][1]}
    IN  IF hit = {} THEN dead
        ELSE rules[s][CHOOSE i \in hit : \A j \in hit : i <= j][2]

ServerRules ==
    << <<{"/"}, "s_req_path">>, <<{"?"}, "s_req_query_string_start">>,
       <<{"@"}, "s_req_server_with_at">>,
       <<USERINFO_CHAR \cup {"[", "]"}, "s_req_server">> >>

QueryRules == << <<URL_CHAR \cup {"?"}, "s_req_query_string">>,
                 <<{"#"}, "s_req_fragment_start">> >>

UrlRules ==
  [ s_req_spaces_before_url  |-> << <<{"/", "*"}, "s_req_path">>, <<ALPHA, "s_req_schema">> >>,
    s_req_schema             |-> << <<ALPHA, "s_req_schema">>, <<{":"}, "s_req_schema_slash">> >>,
    s_req_schema_slash       |-> << <<{"/"}, "s_req_schema_slash_slash">> >>,
    s_req_schema_slash_slash |-> << <<{"/"}, "s_req_server_start">> >>,
    s_req_server_start       |-> ServerRules,
    s_req_server             |-> ServerRules,
    s_req_server_with_at     |-> << <<{"@"}, "s_dead">> >> \o ServerRules,
    s_req_path               |-> << <<URL_CHAR, "s_req_path">>,
                                    <<{"?"}, "s_req_query_string_start">>,
                                    <<{"#"}, "s_req_fragment_start">> >>,
    s_req_query_string_start |-> QueryRules,
    s_req_query_string       |-> QueryRules,
    s_req_fragment_start     |-> << <<URL_CHAR \cup {"?"}, "s_req_fragment">>,
                                    <<{"#"}, "s_req_fragment_start">> >>,
    s_req_fragment           |-> << <<URL_CHAR \cup {"?", "#"}, "s_req_fragment">> >> ]

parse_url_char(s, ch) ==
    IF ch \in {" ", CR, LF, "\t", "\f"} THEN "s_dead" ELSE NextOf(UrlRules, s, ch, "s_dead")

-----------------------------------------------------------------------------
UserinfoRules == << <<{"@"}, "s_http_host_start">>, <<USERINFO_CHAR, "s_http_userinfo">> >>
PortRules     == << <<NUM, "s_http_host_port">> >>

HostRules ==
  [ s_http_userinfo_start  |-> UserinfoRules,
    s_http_userinfo        |-> UserinfoRules,
    s_http_host_start      |-> << <<{"["}, "s_http_host_v6_start">>, <<HOST_CHAR, "s_http_host">> >>,
    s_http_host            |-> << <<HOST_CHAR, "s_http_host">>, <<{":"}, "s_http_host_port_start">> >>,
    s_http_host_v6_end     |-> << <<{":"}, "s_http_host_port_start">> >>,
    s_http_host_v6         |-> << <<{"]"}, "s_http_host_v6_end">>,
                                  <<HEX \cup {":", "."}, "s_http_host_v6">> >>,
    s_http_host_v6_start   |-> << <<HEX \cup {":", "."}, "s_http_host_v6">> >>,
    s_http_host_port_start |-> PortRules,
    s_http_host_port       |-> PortRules ]

http_parse_host_char(s, ch) == NextOf(HostRules, s, ch, "s_http_host_dead")

(* A parsed URL maps each field that is set to its <<offset, length>>.         *)
ExtendField(u, f, i) == [u EXCEPT ![f] = <<@[1], @[2] + 1>>]
StartField(u, f, i)  == (f :> <<i, 1>>) @@ u

HostField == [ s_http_host |-> "HOST", s_http_host_v6 |-> "HOST",
               s_http_host_port |-> "PORT", s_http_userinfo |-> "USERINFO" ]

\* the second pass: the host part again, into USERINFO, HOST and PORT
HostStep(r, n, i) ==
    IF r.s = "s_http_host_dead" \/ n = "s_http_host_dead" THEN [r EXCEPT !.s = "s_http_host_dead"]
    ELSE IF n \notin DOMAIN HostField THEN [r EXCEPT !.s = n]
    ELSE [s |-> n, u |-> IF n = r.s THEN ExtendField(r.u, HostField[n], i)
                         ELSE StartField(r.u, HostField[n], i)]

HostStepAt(r, ch, i) == HostStep(r, http_parse_host_char(r.s, ch), i)

ScanHost(buf, start, first, last) ==
    LET run[i \in first - 1..last] ==
            IF i = first - 1 THEN start
            ELSE HostStepAt(run[i - 1], Ch(buf, i), i)
    IN  run[last]

HostPassed(r) ==
    [ok |-> r.s \notin {"s_http_host_dead", "s_http_host_start", "s_http_host_v6_start", "s_http_host_v6",
                        "s_http_host_port_start", "s_http_userinfo", "s_http_userinfo_start"},
     u |-> r.u]

http_parse_host(buf, u, found_at) ==
    LET start == IF found_at THEN "s_http_userinfo_start" ELSE "s_http_host_start"
    IN  IF "HOST" \notin DOMAIN u THEN HostPassed([s |-> start, u |-> u])
        ELSE HostPassed(ScanHost(buf, [s |-> start, u |-> [u EXCEPT !["HOST"] = <<@[1], 0>>]],
                                 u["HOST"][1], u["HOST"][1] + u["HOST"][2] - 1))

UrlField == [ s_req_schema |-> "SCHEMA", s_req_server_with_at |-> "HOST", s_req_server |-> "HOST",
              s_req_path |-> "PATH", s_req_query_string |-> "QUERY", s_req_fragment |-> "FRAGMENT" ]

\* Mutant of Number: the sum in 16 bits.
Number16(buf, off, len) ==
    LET n[i \in 0..len] == IF i = 0 THEN 0 ELSE (n[i - 1] * 10 + Unhex[Ch(buf, off + i - 1)]) % 65536 IN n[len]

Number(buf, off, len) ==
    LET n[i \in 0..len] == IF i = 0 THEN 0 ELSE n[i - 1] * 10 + Unhex[Ch(buf, off + i - 1)] IN n[len]

MaxPort == 65535

UrlStep(r, n, i) ==
    IF r.s = "s_dead" THEN r
    ELSE IF n \notin DOMAIN UrlField THEN [r EXCEPT !.s = n]
    ELSE [s |-> n, old |-> UrlField[n], at |-> r.at \/ n = "s_req_server_with_at",
          u |-> IF UrlField[n] = r.old THEN ExtendField(r.u, UrlField[n], i)
                ELSE StartField(r.u, UrlField[n], i)]

UrlStepAt(r, ch, i) == UrlStep(r, parse_url_char(r.s, ch), i)

ScanUrl(buf, state) ==
    LET run[i \in 0..Len(buf)] ==
            IF i = 0 THEN [s |-> state, old |-> "MAX", at |-> FALSE, u |-> <<>>]
            ELSE UrlStepAt(run[i - 1], Ch(buf, i), i)
    IN  run[Len(buf)]

HostOf(buf, end) ==
    IF {"SCHEMA", "HOST"} \cap DOMAIN end.u = {} THEN [ok |-> TRUE, u |-> end.u]
    ELSE http_parse_host(buf, end.u, end.at)

PortOf(buf, u) == IF "PORT" \in DOMAIN u THEN Number(buf, u["PORT"][1], u["PORT"][2]) ELSE 0

UrlParsed(alive, is_connect, host, port) ==
    [ok |-> /\ alive /\ host.ok
            /\ is_connect => DOMAIN host.u = {"HOST", "PORT"}
            /\ port <= MaxPort,
     u |-> host.u, port |-> port]

WithPort(buf, alive, is_connect, host) == UrlParsed(alive, is_connect, host, PortOf(buf, host.u))

WithHost(buf, is_connect, end) == WithPort(buf, end.s # "s_dead", is_connect, HostOf(buf, end))

http_parser_parse_url(buf, is_connect) ==
    WithHost(buf, is_connect, ScanUrl(buf, IF is_connect THEN "s_req_server_start" ELSE "s_req_spaces_before_url"))

(* wrk: script_parse_url asks for a scheme and a host; copy_url_part and        *)
(* push_url_part cut the fields out of the URL; script_create takes the path    *)
(* to be everything from the PATH field to the end of the URL.                  *)
HasServer(r) == r.ok /\ {"SCHEMA", "HOST"} \subseteq DOMAIN r.u
script_parse_url(url) == HasServer(http_parser_parse_url(url, FALSE))

copy_url_part(url, u, f) ==
    IF f \in DOMAIN u THEN SubSeq(url, u[f][1], u[f][1] + u[f][2] - 1) ELSE "NULL"

RequestPath(url, u) == IF "PATH" \in DOMAIN u THEN SubSeq(url, u["PATH"][1], Len(url)) ELSE "/"
=============================================================================
