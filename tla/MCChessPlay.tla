------------------------------ MODULE MCChessPlay ------------------------------
(***************************************************************************)
(* Start positions for ChessPlay: the opening, and positions games come to,  *)
(* each one chosen for the rules its next moves exercise.                   *)
(***************************************************************************)
EXTENDS ChessPlay

Position(pieces, side, rights, ep, clock) ==
  [squares |-> [i \in Square |->
     IF \E p \in pieces : p[1] = i THEN (CHOOSE p \in pieces : p[1] = i)[2] ELSE EMPTY],
   side_to_move |-> side, castling_rights |-> rights, en_passant |-> ep,
   halfmove_clock |-> clock, fullmove_number |-> 1]

W(kind, sq) == <<sq, Make(kind, 0)>>
B(kind, sq) == <<sq, Make(kind, 1)>>

\* The promotions clients send, and three that name no piece to promote to.
AllPromotions == 0..7

\* Both sides may castle both ways; rooks can take rooks, give check and cover
\* the squares the kings cross.
CastlingLab ==
  {Position({W(Rook, 0), W(King, 4), W(Rook, 7), B(Rook, 56), B(King, 60), B(Rook, 63)},
            side, Rights, None, 0) : side \in {0, 1}}

\* White king and pawn stand on a rank with a black rook and a pawn that may
\* double push: the capture en passant would expose the king.  Black's pawn may
\* capture en passant on both sides.
EnPassantLab ==
  {Position({W(King, 32), W(Pawn, 33), B(Rook, 39), W(Rook, 1), B(King, 31),
             B(Pawn, 29), W(Pawn, 12), W(Pawn, 14), B(Pawn, 50), B(Pawn, 43)},
            side, {}, None, 0) : side \in {0, 1}}

\* Pawns one step from promotion, with knights to capture on the last rank.
PromotionLab ==
  {Position({B(Knight, 56), B(Knight, 58), W(Pawn, 48), W(Pawn, 49), B(King, 51),
             W(King, 12), B(Pawn, 14), B(Pawn, 15), W(Knight, 5), W(Knight, 7)},
            side, {}, None, 0) : side \in {0, 1}}

\* Verdicts within two plies: mate and stalemate by a queen, mate by a rook on
\* the ply that completes the fifty moves, bishops of one colour once a pawn falls.
MatingLab ==
  {Position({W(King, 45), W(Queen, 46), B(King, 63)}, 0, {}, None, 0),
   Position({W(King, 20), W(Bishop, 3), B(King, 36), B(Bishop, 44),
             B(Pawn, 30)}, 0, {}, None, 0)}
  \cup {Position({W(King, 42), W(Rook, 8), B(King, 58)}, 0, {}, None, clock) :
          clock \in {98, 99}}

\* A cornered king: the knight mates when a bishop takes the king's last square,
\* and without that bishop neither knight nor bishop does.
MinorLab ==
  {Position({W(King, 47), W(Knight, 36), B(King, 63), B(Bishop, 62)}, 0, {}, None, 0),
   Position({W(King, 47), W(Knight, 36), B(King, 63)}, 0, {}, None, 0),
   Position({W(King, 47), W(Bishop, 2), B(King, 63), B(Bishop, 54)}, 0, {}, None, 0)}

\* All of them, and the first moves of the real game.
EngineLab ==
  CastlingLab \cup EnPassantLab \cup PromotionLab \cup MatingLab \cup MinorLab
  \cup {Initial}

=============================================================================
