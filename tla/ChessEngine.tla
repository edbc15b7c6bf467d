----------------------------- MODULE ChessEngine -----------------------------
(***************************************************************************)
(* The rules engine of the program (src/chess): a mailbox board and the    *)
(* function apply_move that validates a move, plays it and reports what it *)
(* leads to.  Squares are numbered as in the code, a1 = 0, h1 = 7, a8 = 56, *)
(* h8 = 63; pieces 1..6 are white P N B R Q K and 7..12 the black ones.     *)
(* Bit sets (castling rights, move flags) are sets of names.  Every sum the *)
(* code forms in i8 stays between -9 and 72, so plain integers do.          *)
(*                                                                         *)
(* The code finds out whether a position has a legal move by calling        *)
(* apply_move again; AnyLegal is the answer that search gives when it gives *)
(* one.  MateProbe is about the search itself.                              *)
(***************************************************************************)
EXTENDS Integers

Square == 0..63
None == -1                     \* Option::None for en_passant

EMPTY == 0
Pawn == 1
Knight == 2
Bishop == 3
Rook == 4
Queen == 5
King == 6

Color(p) == IF p \in 1..6 THEN 0 ELSE 1
Kind(p) == IF p > 6 THEN p - 6 ELSE p
Make(kind, color) == IF color = 0 THEN kind ELSE kind + 6

RankOf(sq) == sq \div 8
FileOf(sq) == sq % 8
Sq(file, rank) == rank * 8 + file

Dist(a, b) == IF a < b THEN b - a ELSE a - b

Rights == {"W_KING_SIDE", "W_QUEEN_SIDE", "B_KING_SIDE", "B_QUEEN_SIDE"}
MAX_U8 == 255
MAX_U16 == 65535
SaturatingInc(n, max) == IF n < max THEN n + 1 ELSE max

Initial ==
  LET back == <<Rook, Knight, Bishop, Queen, King, Bishop, Knight, Rook>> IN
  [squares |-> [i \in Square |->
     IF RankOf(i) = 0 THEN back[FileOf(i) + 1]
     ELSE IF RankOf(i) = 1 THEN Pawn
     ELSE IF RankOf(i) = 6 THEN Make(Pawn, 1)
     ELSE IF RankOf(i) = 7 THEN Make(back[FileOf(i) + 1], 1)
     ELSE EMPTY],
   side_to_move |-> 0, castling_rights |-> Rights, en_passant |-> None,
   halfmove_clock |-> 0, fullmove_number |-> 1]

-----------------------------------------------------------------------------
(* Rays and attacks.                                                       *)

Diagonals == {7, 9, -7, -9}
Orthogonals == {1, -1, 8, -8}

\* File-wrap detector between two successive squares of a ray.
CrossesEdge(prev, cur) == Dist(FileOf(prev), FileOf(cur)) > 1

\* The numbers of steps a ray from a square can take before the edge.
Walk(from, d) ==
  {k \in 1..7 : \A j \in 1..k :
     /\ from + j * d \in Square
     /\ ~CrossesEdge(from + (j - 1) * d, from + j * d)}

Ray == [from \in Square |-> [d \in Diagonals \cup Orthogonals |-> Walk(from, d)]]

\* The ray's squares before step k are empty.
Clear(squares, from, d, k) ==
  \A j \in 1..(k - 1) : squares[from + j * d] = EMPTY

\* scan_ray_for: the first piece met in one of the directions is one of these.
ScanRayFor(squares, from, dirs, pieces) ==
  \E d \in dirs : \E k \in Ray[from][d] :
    /\ squares[from + k * d] \in pieces
    /\ Clear(squares, from, d, k)

KnightShape(from, to) ==
  {Dist(FileOf(from), FileOf(to)), Dist(RankOf(from), RankOf(to))} = {1, 2}
KnightSquares == [from \in Square |-> {to \in Square : KnightShape(from, to)}]

OneStep(from, to) == /\ Dist(FileOf(from), FileOf(to)) =< 1
                     /\ Dist(RankOf(from), RankOf(to)) =< 1
Neighbours == [from \in Square |-> {to \in Square \ {from} : OneStep(from, to)}]

\* The squares a pawn of a colour can attack a target from.
PawnSquares ==
  [color \in {0, 1} |-> [target \in Square |->
     {s \in Square : /\ s - target \in IF color = 0 THEN {-7, -9} ELSE {7, 9}
                     /\ ~CrossesEdge(target, s)}]]

IsSquareAttacked(squares, target, by) ==
  \/ \E s \in PawnSquares[by][target] : squares[s] = Make(Pawn, by)
  \/ \E s \in KnightSquares[target] : squares[s] = Make(Knight, by)
  \/ ScanRayFor(squares, target, Diagonals, {Make(Bishop, by), Make(Queen, by)})
  \/ ScanRayFor(squares, target, Orthogonals, {Make(Rook, by), Make(Queen, by)})
  \/ \E s \in Neighbours[target] : squares[s] = Make(King, by)

Kings(squares, color) == {i \in Square : squares[i] = Make(King, color)}

\* king_square: the first one; the callers fail when there is none.
KingSquare(squares, color) ==
  CHOOSE i \in Kings(squares, color) : \A j \in Kings(squares, color) : i =< j

InCheck(squares, color) ==
  IsSquareAttacked(squares, KingSquare(squares, color), 1 - color)

-----------------------------------------------------------------------------
(* Validators, one per kind of piece.                                      *)

Dir(color) == IF color = 0 THEN 8 ELSE -8
StartRank(color) == IF color = 0 THEN 1 ELSE 6
LastRank(color) == IF color = 0 THEN 7 ELSE 0
HomeRank(color) == IF color = 0 THEN 0 ELSE 7

DoublePush(s, from, to) ==
  LET dir == Dir(s.side_to_move) IN
  /\ to - from = 2 * dir /\ RankOf(from) = StartRank(s.side_to_move)
  /\ s.squares[from + dir] = EMPTY /\ s.squares[to] = EMPTY

PawnCaptures(s, from, to) ==
  /\ to - from - Dir(s.side_to_move) \in {1, -1}
  /\ Dist(FileOf(from), FileOf(to)) = 1

\* The pawn captured en passant stands behind the square the mover goes to.
EnPassantVictim(s, to) == to - Dir(s.side_to_move)

EnPassant(s, from, to) ==
  LET victim == s.squares[EnPassantVictim(s, to)] IN
  /\ PawnCaptures(s, from, to) /\ s.squares[to] = EMPTY
  /\ s.en_passant = to
  /\ victim # EMPTY /\ Color(victim) # s.side_to_move

ValidatePawn(s, from, to) ==
  \/ to - from = Dir(s.side_to_move) /\ s.squares[to] = EMPTY
  \/ DoublePush(s, from, to)
  \/ PawnCaptures(s, from, to) /\ s.squares[to] # EMPTY
  \/ EnPassant(s, from, to)

ValidateSlider(s, from, to, dirs) ==
  \E d \in dirs : \E k \in Ray[from][d] :
    from + k * d = to /\ Clear(s.squares, from, d, k)

CastlingRight(color, kingSide) ==
  IF color = 0 THEN IF kingSide THEN "W_KING_SIDE" ELSE "W_QUEEN_SIDE"
               ELSE IF kingSide THEN "B_KING_SIDE" ELSE "B_QUEEN_SIDE"

\* Files of the rook's hop, of the squares that must be empty and of the
\* squares the king may not be attacked on.
CastlingFiles(kingSide) ==
  IF kingSide THEN [rook |-> 7, hop |-> 5, empty |-> {5, 6}, safe |-> {4, 5, 6}]
              ELSE [rook |-> 0, hop |-> 3, empty |-> {1, 2, 3}, safe |-> {4, 3, 2}]

KingSide(to) == FileOf(to) = 6

Castles(s, from, to) ==
  LET c == s.side_to_move
      home == HomeRank(c)
      files == CastlingFiles(KingSide(to))
  IN /\ RankOf(from) = RankOf(to) /\ Dist(FileOf(from), FileOf(to)) = 2
     /\ RankOf(from) = home
     /\ CastlingRight(c, KingSide(to)) \in s.castling_rights
     /\ \A f \in files.empty : s.squares[Sq(f, home)] = EMPTY
     /\ s.squares[Sq(files.rook, home)] = Make(Rook, c)
     /\ \A f \in files.safe : ~IsSquareAttacked(s.squares, Sq(f, home), 1 - c)

ValidateKing(s, from, to) == OneStep(from, to) \/ Castles(s, from, to)

\* The match on the kind of the piece that moves.
Shape(s, from, to) ==
  LET kind == Kind(s.squares[from]) IN
  \/ kind = Pawn /\ ValidatePawn(s, from, to)
  \/ kind = Knight /\ KnightShape(from, to)
  \/ kind = Bishop /\ ValidateSlider(s, from, to, Diagonals)
  \/ kind = Rook /\ ValidateSlider(s, from, to, Orthogonals)
  \/ kind = Queen /\ ValidateSlider(s, from, to, Orthogonals \cup Diagonals)
  \/ kind = King /\ ValidateKing(s, from, to)

Promotes(s, from, to) ==
  Kind(s.squares[from]) = Pawn /\ RankOf(to) = LastRank(s.side_to_move)

\* Seeded fault: the promotion byte is taken as it comes.
PromotionUnchecked(s, from, to, promotion) ==
  IF Promotes(s, from, to) THEN promotion # 0 ELSE promotion = 0

PromotionOk(s, from, to, promotion) ==
  IF Promotes(s, from, to) THEN promotion \in {Knight, Bishop, Rook, Queen}
                           ELSE promotion = 0

-----------------------------------------------------------------------------
(* Playing a move.                                                         *)

IsEnPassant(s, from, to) == Kind(s.squares[from]) = Pawn /\ EnPassant(s, from, to)
IsCastle(s, from, to) ==
  Kind(s.squares[from]) = King /\ ~OneStep(from, to) /\ Castles(s, from, to)

\* Seeded fault: a capture en passant is not counted as one.
IsPlainCapture(s, from, to) == s.squares[to] # EMPTY

\* Seeded fault: only a capture en passant is counted as one.
IsOddCapture(s, from, to) == IsEnPassant(s, from, to)

IsCapture(s, from, to) == s.squares[to] # EMPTY \/ IsEnPassant(s, from, to)

\* Seeded fault: the pawn stays a pawn on the last rank.
MovedUnpromoted(s, from, to, promotion) ==
  LET plain == [s.squares EXCEPT ![from] = EMPTY, ![to] = s.squares[from]] IN
  IF IsEnPassant(s, from, to) THEN [plain EXCEPT ![EnPassantVictim(s, to)] = EMPTY]
  ELSE plain

\* The board after the piece, the pawn taken en passant and the rook moved.
Moved(s, from, to, promotion) ==
  LET c == s.side_to_move
      placed == IF Promotes(s, from, to) THEN Make(promotion, c) ELSE s.squares[from]
      plain == [s.squares EXCEPT ![from] = EMPTY, ![to] = placed]
      files == CastlingFiles(KingSide(to))
  IN IF IsEnPassant(s, from, to) THEN [plain EXCEPT ![EnPassantVictim(s, to)] = EMPTY]
     ELSE IF IsCastle(s, from, to)
     THEN [plain EXCEPT ![Sq(files.rook, HomeRank(c))] = EMPTY,
                        ![Sq(files.hop, HomeRank(c))] = Make(Rook, c)]
     ELSE plain

\* Seeded fault: a rook captured at home leaves its right behind.
RevokedByLeaving(from, to) ==
  (IF from \in {4, 0} THEN {"W_QUEEN_SIDE"} ELSE {})
  \cup (IF from \in {4, 7} THEN {"W_KING_SIDE"} ELSE {})
  \cup (IF from \in {60, 56} THEN {"B_QUEEN_SIDE"} ELSE {})
  \cup (IF from \in {60, 63} THEN {"B_KING_SIDE"} ELSE {})

\* update_castling_rights: a king leaves home, a rook leaves or is taken there.
Revoked(from, to) ==
  (IF from = 4 THEN {"W_KING_SIDE", "W_QUEEN_SIDE"} ELSE {})
  \cup (IF from = 60 THEN {"B_KING_SIDE", "B_QUEEN_SIDE"} ELSE {})
  \cup (IF 0 \in {from, to} THEN {"W_QUEEN_SIDE"} ELSE {})
  \cup (IF 7 \in {from, to} THEN {"W_KING_SIDE"} ELSE {})
  \cup (IF 56 \in {from, to} THEN {"B_QUEEN_SIDE"} ELSE {})
  \cup (IF 63 \in {from, to} THEN {"B_KING_SIDE"} ELSE {})

\* Seeded fault: the check is made before the pawn taken en passant is removed.
KingSafeTooEarly(s, from, to, promotion) ==
  ~InCheck([s.squares EXCEPT ![from] = EMPTY, ![to] = s.squares[from]], s.side_to_move)

\* Seeded fault: the king only has to be on the board.
KingPresent(s, from, to, promotion) ==
  Kings(Moved(s, from, to, promotion), s.side_to_move) # {}

\* The mover's king is on the board and not attacked after the move.
KingSafe(s, from, to, promotion) ==
  LET after == Moved(s, from, to, promotion) IN
  Kings(after, s.side_to_move) # {} /\ ~InCheck(after, s.side_to_move)

\* The checks of apply_move, all of which a move has to pass; the last one looks
\* for the responder's king.
Legal(s, from, to, promotion) ==
  /\ from # to
  /\ s.squares[from] # EMPTY /\ Color(s.squares[from]) = s.side_to_move
  /\ s.squares[to] # EMPTY => Color(s.squares[to]) # s.side_to_move
  /\ PromotionOk(s, from, to, promotion)
  /\ Shape(s, from, to)
  /\ KingSafe(s, from, to, promotion)
  /\ Kings(Moved(s, from, to, promotion), 1 - s.side_to_move) # {}

\* Seeded fault: the en-passant target is never reset.
ApplyKeepsTarget(s, from, to, promotion) ==
  [s EXCEPT !.squares = Moved(s, from, to, promotion),
            !.side_to_move = 1 - @,
            !.castling_rights = @ \ Revoked(from, to),
            !.en_passant = IF Kind(s.squares[from]) = Pawn /\ DoublePush(s, from, to)
                           THEN from + Dir(s.side_to_move) ELSE @]

\* The state apply_move leaves.
Apply(s, from, to, promotion) ==
  LET c == s.side_to_move
      resets == Kind(s.squares[from]) = Pawn \/ IsCapture(s, from, to)
  IN [squares |-> Moved(s, from, to, promotion),
      side_to_move |-> 1 - c,
      castling_rights |-> s.castling_rights \ Revoked(from, to),
      en_passant |-> IF Kind(s.squares[from]) = Pawn /\ DoublePush(s, from, to)
                     THEN from + Dir(c) ELSE None,
      halfmove_clock |-> IF resets THEN 0 ELSE SaturatingInc(s.halfmove_clock, MAX_U8),
      fullmove_number |-> IF c = 1 THEN SaturatingInc(s.fullmove_number, MAX_U16)
                          ELSE s.fullmove_number]

\* The candidates side_to_move_has_any_legal_move goes through.
Promos(s, from, to) ==
  IF Promotes(s, from, to) THEN {Queen, Rook, Bishop, Knight} ELSE {0}

\* Seeded fault: only the king's moves are tried.
AnyLegalKing(s) ==
  \E from \in Kings(s.squares, s.side_to_move) : \E to \in Square : Legal(s, from, to, 0)

AnyLegal(s) ==
  \E from \in Square : s.squares[from] # EMPTY /\ Color(s.squares[from]) = s.side_to_move
    /\ \E to \in Square : \E p \in Promos(s, from, to) : Legal(s, from, to, p)

\* Seeded fault: the promotion is shifted by 11 bits.
PackShifted(from, to, promotion) ==
  (promotion * 2048 + to * 64 + from) % (MAX_U16 + 1)

\* An entry of move_history: 4 bits of promotion, 6 of to, 6 of from in a u16.
Pack(from, to, promotion) == (promotion * 4096 + to * 64 + from) % (MAX_U16 + 1)
Unpack(packed) == [from |-> packed % 64, to |-> (packed \div 64) % 64,
                   promotion |-> (packed \div 4096) % 16]

-----------------------------------------------------------------------------
(* Verdicts.                                                               *)

Squares(s, pieces) == {i \in Square : s.squares[i] \in pieces}
SquareColor(sq) == (FileOf(sq) + RankOf(sq)) % 2

\* Seeded fault: any minor piece against any other is a draw.
IsInsufficientMinors(s) ==
  LET minors(c) == Squares(s, {Make(Knight, c), Make(Bishop, c)})
      heavy == Squares(s, {Make(k, c) : k \in {Pawn, Rook, Queen}, c \in {0, 1}})
      OneAtMost(set) == \E i \in Square : set \subseteq {i}
  IN heavy = {} /\ OneAtMost(minors(0)) /\ OneAtMost(minors(1))

\* K v K, K and minor v K, K and B v K and B on squares of one colour.
IsInsufficientMaterial(s) ==
  LET minors(c) == Squares(s, {Make(Knight, c), Make(Bishop, c)})
      bishops(c) == Squares(s, {Make(Bishop, c)})
      heavy == Squares(s, {Make(k, c) : k \in {Pawn, Rook, Queen}, c \in {0, 1}})
      One(set) == \E i \in set : set = {i}
  IN /\ heavy = {}
     /\ \/ minors(0) = {} /\ (minors(1) = {} \/ One(minors(1)))
        \/ minors(1) = {} /\ One(minors(0))
        \/ \E i, j \in Square : /\ minors(0) = {i} /\ bishops(0) = {i}
                                /\ minors(1) = {j} /\ bishops(1) = {j}
                                /\ SquareColor(i) = SquareColor(j)

\* What apply_move reports of the move it played from s to t.
Outcome(s, from, to, t) ==
  LET check == InCheck(t.squares, t.side_to_move)
      any == AnyLegal(t)
  IN [piece |-> s.squares[from],
      captured |-> IF IsEnPassant(s, from, to) THEN s.squares[EnPassantVictim(s, to)]
                   ELSE s.squares[to],
      flags |-> {f \in {"CAPTURE", "CASTLE", "EN_PASSANT", "DOUBLE_PUSH", "PROMOTION",
                        "CHECK", "MATE"} :
                   \/ f = "CAPTURE" /\ IsCapture(s, from, to)
                   \/ f = "CASTLE" /\ IsCastle(s, from, to)
                   \/ f = "EN_PASSANT" /\ IsEnPassant(s, from, to)
                   \/ f = "DOUBLE_PUSH" /\ t.en_passant # None
                   \/ f = "PROMOTION" /\ Promotes(s, from, to)
                   \/ f = "CHECK" /\ check
                   \/ f = "MATE" /\ check /\ ~any},
      is_check |-> check, is_mate |-> check /\ ~any, is_stalemate |-> ~check /\ ~any,
      draw_50_move |-> t.halfmove_clock >= 100,
      draw_insufficient |-> IsInsufficientMaterial(t)]

\* Seeded fault: the fifty-move rule comes before mate.
ComputeStatusFiftyFirst(s) ==
  IF s.halfmove_clock >= 100 THEN "FiftyMove"
  ELSE IF ~AnyLegal(s)
       THEN IF InCheck(s.squares, s.side_to_move) THEN "Checkmate" ELSE "Stalemate"
  ELSE IF IsInsufficientMaterial(s) THEN "InsufficientMaterial"
  ELSE "Ongoing"

\* compute_status: the verdict recomputed from the position alone.
ComputeStatus(s) ==
  IF Kings(s.squares, s.side_to_move) = {} THEN "Ongoing"
  ELSE IF ~AnyLegal(s)
       THEN IF InCheck(s.squares, s.side_to_move) THEN "Checkmate" ELSE "Stalemate"
  ELSE IF s.halfmove_clock >= 100 THEN "FiftyMove"
  ELSE IF IsInsufficientMaterial(s) THEN "InsufficientMaterial"
  ELSE "Ongoing"

-----------------------------------------------------------------------------
(* What the engine relies on and never checks: positions of a running game. *)

\* Each side has one king, and the side that has just moved is not in check.
KingsInOrder(s) == /\ \A c \in {0, 1} : \E k \in Square : Kings(s.squares, c) = {k}
                   /\ ~InCheck(s.squares, 1 - s.side_to_move)

\* An en-passant target is the empty square an opposing pawn has just passed.
TargetInOrder(s) ==
  LET ep == s.en_passant c == 1 - s.side_to_move IN
  ep # None => /\ RankOf(ep) = IF c = 0 THEN 2 ELSE 5
               /\ s.squares[ep] = EMPTY /\ s.squares[ep - Dir(c)] = EMPTY
               /\ s.squares[ep + Dir(c)] = Make(Pawn, c)

\* The king and the rook a right is about, on their home squares.
Home(right) ==
  CASE right = "W_KING_SIDE" -> [color |-> 0, king |-> 4, rook |-> 7]
    [] right = "W_QUEEN_SIDE" -> [color |-> 0, king |-> 4, rook |-> 0]
    [] right = "B_KING_SIDE" -> [color |-> 1, king |-> 60, rook |-> 63]
    [] right = "B_QUEEN_SIDE" -> [color |-> 1, king |-> 60, rook |-> 56]

\* The home squares of king and rook a right needs.
HomeSquares(right) == {Home(right).king, Home(right).rook}

\* A side that may still castle has its king and that rook at home.
RightsInOrder(s) ==
  \A right \in s.castling_rights : LET home == Home(right) IN
    /\ s.squares[home.king] = Make(King, home.color)
    /\ s.squares[home.rook] = Make(Rook, home.color)

InOrder(s) == KingsInOrder(s) /\ TargetInOrder(s) /\ RightsInOrder(s)

=============================================================================
