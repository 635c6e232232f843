------------------------------- MODULE MCGame -------------------------------
(* Games of three or four players with a handful of cards.                 *)
EXTENDS Game, TLC

\* All cards but the one that leads are alike.
Symmetry == Permutations(Cards \ {FirstCard})
=============================================================================
