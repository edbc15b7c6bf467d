------------------------------- MODULE ChessView -------------------------------
(***************************************************************************)
(* Positions of ChessEngine as ChessRules sees them: coordinates for square *)
(* numbers, names for piece codes.                                          *)
(***************************************************************************)
EXTENDS ChessEngine

Rules == INSTANCE ChessRules

Coord(sq) == <<FileOf(sq) + 1, RankOf(sq) + 1>>
ColorName(c) == IF c = 0 THEN "white" ELSE "black"
KindName(k) == <<"none", "pawn", "knight", "bishop", "rook", "queen", "king">>[k + 1]
BoardOf(s) ==
  [x \in Rules!Coords |-> LET p == s.squares[Sq(x[1] - 1, x[2] - 1)] IN
     IF p = EMPTY THEN Rules!Nothing
     ELSE [kind |-> KindName(Kind(p)), color |-> ColorName(Color(p))]]

=============================================================================
