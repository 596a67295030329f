---------------------------- MODULE MCControlAuth ----------------------------
(* Two goroutines that call Authenticate twice each, and two cookies. *)
EXTENDS ControlAuth, TLC

Symmetry == Permutations(Goroutines)
=============================================================================
