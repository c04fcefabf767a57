---------------------------- MODULE MCStatements ----------------------------
(* Instances of Statements for TLC: the cfg gives the constants.  Nothing    *)
(* distinguishes one address from another.                                   *)
EXTENDS Statements, TLC

Symmetry == Permutations(Handles)

=============================================================================
