------------------------------ MODULE MCScoring ------------------------------
(* Sets of up to three games of four players.                              *)
EXTENDS Scoring, TLC

Symmetry == Permutations(Players)
=============================================================================
