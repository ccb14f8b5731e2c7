-------------------------- MODULE MCCalcephPlugin --------------------------
(* Instances of CalcephPlugin for TLC. *)
EXTENDS CalcephPlugin, TLC

CONSTANTS e1, e2, e3

Threads == Permutations(Proc)

=============================================================================
