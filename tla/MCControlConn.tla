--------------------------- MODULE MCControlConn ---------------------------
(* Small instances of ControlConn for TLC. *)
EXTENDS ControlConn, TLC

CONSTANTS p1, p2, w1, w2, c1, c2, unrec

MCSymmetry == Permutations(Waits) \cup Permutations(Callers)
=============================================================================
