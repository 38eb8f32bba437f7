------------------------------- MODULE MCAeFiles -------------------------------
(* AeFiles with two connections, which are symmetric.                      *)
EXTENDS AeFiles, TLC

Symmetry == Permutations(Conn)
=============================================================================
