------------------------------ MODULE ChessRules ------------------------------
(***************************************************************************)
(* The laws of chess as a reference for ChessEngine: stated over files and  *)
(* ranks 1..8, lines of sight and the squares no piece has left or entered  *)
(* since the start, with none of the engine's tables, rays or rights.       *)
(* A board maps every <<file, rank>> to a piece or to Nothing.              *)
(***************************************************************************)
EXTENDS Integers

Coords == (1..8) \X (1..8)
Colors == {"white", "black"}
Nothing == [kind |-> "none", color |-> "none"]
Kinds == {"pawn", "knight", "bishop", "rook", "queen", "king"}
Boards == [Coords -> [kind : Kinds, color : Colors] \cup {Nothing}]

Opponent(color) == IF color = "white" THEN "black" ELSE "white"
Forward(color) == IF color = "white" THEN 1 ELSE -1
\* The n-th rank as a player counts it from its own side.
Rank(color, n) == IF color = "white" THEN n ELSE 9 - n

Abs(n) == IF n < 0 THEN -n ELSE n
Sign(n) == IF n < 0 THEN -1 ELSE IF n = 0 THEN 0 ELSE 1
DX(x, y) == y[1] - x[1]
DY(x, y) == y[2] - x[2]
Longest(x, y) == IF Abs(DX(x, y)) > Abs(DY(x, y)) THEN Abs(DX(x, y)) ELSE Abs(DY(x, y))

Straight(x, y) == DX(x, y) = 0 \/ DY(x, y) = 0
Diagonal(x, y) == Abs(DX(x, y)) = Abs(DY(x, y))

\* The squares strictly between two squares of a line.
Between(x, y) ==
  {<<x[1] + n * Sign(DX(x, y)), x[2] + n * Sign(DY(x, y))>> : n \in 1..(Longest(x, y) - 1)}
Sees(b, x, y) == /\ Straight(x, y) \/ Diagonal(x, y)
                 /\ \A z \in Between(x, y) : b[z] = Nothing

\* The piece on x attacks the square y.
Attacks(b, x, y) ==
  LET p == b[x] IN
  /\ x # y
  /\ \/ p.kind = "pawn" /\ Abs(DX(x, y)) = 1 /\ DY(x, y) = Forward(p.color)
     \/ p.kind = "knight" /\ Abs(DX(x, y)) * Abs(DY(x, y)) = 2
     \/ p.kind = "bishop" /\ Diagonal(x, y) /\ Sees(b, x, y)
     \/ p.kind = "rook" /\ Straight(x, y) /\ Sees(b, x, y)
     \/ p.kind = "queen" /\ Sees(b, x, y)
     \/ p.kind = "king" /\ Longest(x, y) = 1

Attacked(b, y, color) == \E x \in Coords : b[x].color = color /\ Attacks(b, x, y)

Checked(b, color) ==
  \E x \in Coords : /\ b[x] = [kind |-> "king", color |-> color]
                    /\ Attacked(b, x, Opponent(color))

-----------------------------------------------------------------------------
(* ep is the square a pawn just passed over, or Nowhere; still is the set   *)
(* of squares no piece has left or entered.                                 *)

Nowhere == <<0, 0>>

PawnMove(b, ep, x, y) ==
  LET color == b[x].color f == Forward(color) IN
  \/ DX(x, y) = 0 /\ DY(x, y) = f /\ b[y] = Nothing
  \/ /\ DX(x, y) = 0 /\ DY(x, y) = 2 * f /\ x[2] = Rank(color, 2)
     /\ b[y] = Nothing /\ \A z \in Between(x, y) : b[z] = Nothing
  \/ Attacks(b, x, y) /\ b[y].color = Opponent(color)
  \/ Attacks(b, x, y) /\ y = ep

\* The rook a king castles with when it goes to y.
Corner(x, y) == <<IF DX(x, y) > 0 THEN 8 ELSE 1, x[2]>>

Castling(b, still, x, y) ==
  LET color == b[x].color IN
  /\ b[x].kind = "king" /\ Abs(DX(x, y)) = 2 /\ DY(x, y) = 0
  /\ x = <<5, Rank(color, 1)>>
  /\ b[Corner(x, y)] = [kind |-> "rook", color |-> color]
  /\ {x, Corner(x, y)} \subseteq still
  /\ \A z \in Between(x, Corner(x, y)) : b[z] = Nothing
  /\ \A z \in {x, y} \cup Between(x, y) : ~Attacked(b, z, Opponent(color))

\* The board after a move; promotion names the kind of the new piece.
Play(b, ep, x, y, promotion) ==
  LET p == b[x]
      passing == p.kind = "pawn" /\ y = ep /\ DX(x, y) # 0
      castling == p.kind = "king" /\ Abs(DX(x, y)) = 2
      hop == <<(x[1] + y[1]) \div 2, x[2]>>
  IN [z \in Coords |->
        IF z = y THEN IF promotion = "none" THEN p ELSE [p EXCEPT !.kind = promotion]
        ELSE IF z = x THEN Nothing
        ELSE IF passing /\ z = <<y[1], x[2]>> THEN Nothing
        ELSE IF castling /\ z = Corner(x, y) THEN Nothing
        ELSE IF castling /\ z = hop THEN b[Corner(x, y)]
        ELSE b[z]]

LegalMove(b, color, ep, still, x, y, promotion) ==
  /\ b[x].color = color /\ b[y].color # color
  /\ IF b[x].kind = "pawn" /\ y[2] = Rank(color, 8)
     THEN promotion \in {"queen", "rook", "bishop", "knight"}
     ELSE promotion = "none"
  /\ \/ b[x].kind = "pawn" /\ PawnMove(b, ep, x, y)
     \/ b[x].kind # "pawn" /\ Attacks(b, x, y)
     \/ Castling(b, still, x, y)
  /\ ~Checked(Play(b, ep, x, y, promotion), color)

\* Where the piece on x may go when it is promoted like this.
Reach(b, color, ep, still, x, promotion) ==
  {y \in IF b[x].color = color THEN Coords ELSE {} :
     LegalMove(b, color, ep, still, x, y, promotion)}

\* The side whose turn it is cannot move.
Stuck(b, color, ep, still) ==
  ~ \E x, y \in Coords, promotion \in {"none", "queen", "rook", "bishop", "knight"} :
      LegalMove(b, color, ep, still, x, y, promotion)

Checkmate(b, color, ep, still) == Checked(b, color) /\ Stuck(b, color, ep, still)
Stalemate(b, color, ep, still) == ~Checked(b, color) /\ Stuck(b, color, ep, still)

=============================================================================
