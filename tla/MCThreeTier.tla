------------------------------ MODULE MCThreeTier ------------------------------
(* ThreeTier with one request and two deaths from outside, which may cause   *)
(* others down the tiers.                                                    *)
EXTENDS ThreeTier
=============================================================================
