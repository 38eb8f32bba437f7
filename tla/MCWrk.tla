-------------------------------- MODULE MCWrk --------------------------------
(* WrkConnection with an interval of two units, requests that go out in up  *)
(* to two writes, and a ring that a slow server overruns within the run.    *)
EXTENDS WrkConnection
=============================================================================
