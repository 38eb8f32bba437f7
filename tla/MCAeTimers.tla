------------------------------ MODULE MCAeTimers ------------------------------
(* AeTimers with a clock that is set by a few units once.                  *)
EXTENDS AeTimers

ClockSet  == {-5, 2}
ClockKept == {}
=============================================================================
