------------------------------- MODULE MCHttp -------------------------------
EXTENDS HttpClient

\* command lines: every combination of the parts, and every method
Url(s, u, h, p, t) == s \o "://" \o u \o h \o (IF p = "" THEN "" ELSE ":" \o p) \o t
Argument(s, u, h, p, t, m, n) ==
    [ url |-> Url(s, u, h, p, t), scheme |-> s, port |-> p,
      host |-> IF h = "[::1]" THEN "::1" ELSE h, path |-> IF t = "" THEN "/" ELSE t,
      valid |-> h \notin {"", "a_b"} /\ p \notin {"65536", "8x"}, method |-> m, requests |-> n ]

Words == Parser!Methods \cup {"GOT", "MKCALENDAS", "GE", "PUTT"}
MCArguments ==
    {Argument(s, u, h, p, t, "GET", 1) :
        s \in {"http", "https"}, u \in {"", "u:p@"}, h \in {"h", "[::1]", "a.b-c", "", "a_b"},
        p \in {"", "80", "65535", "65536", "8x"}, t \in {"", "/", "/x?y=/#z"}}
    \cup {Argument("http", "", "h", "", "/", m, n) : m \in Words, n \in 1..2}

\* responses: wire, and what it means
R(wire, status, headers, body, framing, last) ==
    [ wire |-> wire, status |-> status, headers |-> headers, body |-> body, framing |-> framing, last |-> last ]

Length  == R("HTTP/1.1 200 OK\r\nContent-Length: 4\r\nA: b\r\n\r\na\r\nb", 200,
             "Content-Length" :> "4" @@ "A" :> "b", "a\r\nb", "length", FALSE)
Chunked == R("HTTP/1.1 404 No\r\nTransfer-Encoding: chunked\r\n\r\n3\r\nabc\r\n11;x\r\n0123456789abcdefg\r\n0\r\nT: v\r\n\r\n",
             404, "Transfer-Encoding" :> "chunked" @@ "T" :> "v", "abc0123456789abcdefg", "chunked", FALSE)
Bare    == R("HTTP/1.1 204 No\r\n\r\n", 204, <<>>, "", "length", FALSE)
Folded  == R("HTTP/1.1 200\nA:\nB: c\r\n d\nContent-Length:0\n\n", 200,
             "A" :> "" @@ "B" :> "c d" @@ "Content-Length" :> "0", "", "length", FALSE)
Close   == R("HTTP/1.1 500 E\r\nConnection: x, close\r\ncontent-length: 1\r\n\r\nx", 500,
             "Connection" :> "x, close" @@ "content-length" :> "1", "x", "length", TRUE)
Old     == R("HTTP/1.0 200 OK\r\nA: b\r\n\r\nab", 200, "A" :> "b", "ab", "eof", TRUE)
KeptOld == R("HTTP/1.0 200 OK\r\nConnection: Keep-Alive\r\nContent-Length: 1\r\n\r\na", 200,
             "Connection" :> "Keep-Alive" @@ "Content-Length" :> "1", "a", "length", FALSE)
Refused(wire) == R(wire, 200, <<>>, "", "bad", TRUE)
TooLong == Refused("HTTP/1.1 200 OK\r\nContent-Length: 300\r\n\r\n")
TooBig  == Refused("HTTP/1.1 200 OK\r\nTransfer-Encoding: chunked\r\n\r\n12c\r\n")
Broken  == Refused("HTTP/1.1 200 OK\r\nTransfer-Encoding: chunked\r\n\r\n1\r\nab")
Huge    == Refused("HTTP/1.1 200 OK\r\nContent-Length: 1\r\nA0123456789abcdefghijklmnopqrstuvwxyz: A0123456789abcdefghijklmnopqrstuvwxyz\r\n\r\nx")

MCStreams == {<<Length, Chunked>>, <<Chunked, Length>>, <<Bare, Length, Bare>>, <<Folded, Close, Length>>,
              <<KeptOld, Old>>, <<Length, TooLong>>, <<TooBig>>, <<Broken>>, <<Huge>>}
MCLater == {<<Length, Bare>>, <<Bare, Length>>}
=============================================================================
