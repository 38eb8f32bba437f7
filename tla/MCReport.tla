------------------------------ MODULE MCReport -------------------------------
(* WrkReport on short command lines and a clock that goes beyond the end of    *)
(* the shorter runs and is set back to before it: latencies that share a range *)
(* of the histogram, one beyond it, requests younger than the reading, and     *)
(* samples less than a millisecond apart.                                      *)
EXTENDS WrkReport

Opt(f, n, u) == [flag |-> f, arg |-> [base |-> n, unit |-> u]]
Flag(f) == Opt(f, 0, "")

MCCommands == {
    <<Opt("t", 2, ""), Opt("c", 3, ""), Opt("R", 66, "k"), Opt("d", 1, "s"), Flag("P")>>,
    <<Opt("t", 2, ""), Opt("c", 2, ""), Opt("R", 20, ""), Opt("d", 1, "m")>>,
    <<Opt("t", 1, ""), Opt("c", 1, ""), Opt("R", 20, ""), Opt("d", 1, ""), Opt("T", 1, ""), Flag("P"), Flag("p")>>,
    <<Opt("t", 1, ""), Opt("c", 1, ""), Opt("R", 7, ""), Opt("d", 1, "m"), Flag("B")>>,
    <<Opt("t", 2, ""), Opt("c", 2, ""), Opt("R", 1, ""), Opt("d", 1, "")>>,
    <<Opt("t", 2, ""), Opt("c", 1, ""), Opt("R", 9, "")>>,
    <<Opt("R", 1, "x")>>, <<Opt("d", 1, "m")>>}

MCInstants == <<1000, 1036, 1103, 1037, 2900>>

\* bound: the clock is set back in runs of one thread
OneThreadSetBack == cfg.threads = 1 \/ clock <= 3
=============================================================================
