-------------------------- MODULE ChessEngine_proofs --------------------------
(***************************************************************************)
(* Proofs about the rules engine.  apply_move never checks that a position  *)
(* is one a game can come to, and it need not, since a legal move leads     *)
(* from such a position to such a position (OrderKept).  In such positions   *)
(* its rays, attacks, validators and boards are those of the laws of chess   *)
(* (LegalAgrees, from "The engine's numbers" on).                           *)
(***************************************************************************)
EXTENDS ChessView, TLAPS

\* The parts of a ChessState these proofs read.
Typed(s) ==
  /\ s.squares \in [Square -> 0..12] /\ s.side_to_move \in {0, 1}
  /\ s.castling_rights \subseteq Rights /\ s.en_passant \in Square \cup {None}

-----------------------------------------------------------------------------
(* Numbers of pieces and squares.                                          *)

\* A piece is what its kind and its colour make it.
LEMMA PieceOf ==
  ASSUME NEW p \in 0..12, p # EMPTY
  PROVE  /\ p = Make(Kind(p), Color(p)) /\ Color(p) \in {0, 1}
         /\ Kind(p) \in {Pawn, Knight, Bishop, Rook, Queen, King}
BY DEF Make, Kind, Color, EMPTY, Pawn, Knight, Bishop, Rook, Queen, King

\* Colour, kind and number of the piece made of a kind and a colour.
LEMMA MakeOf ==
  ASSUME NEW kind \in {Pawn, Knight, Bishop, Rook, Queen, King}, NEW c \in {0, 1}
  PROVE  /\ Make(kind, c) \in 1..12 /\ Make(kind, c) # EMPTY
         /\ Kind(Make(kind, c)) = kind /\ Color(Make(kind, c)) = c
BY DEF Make, Kind, Color, EMPTY, Pawn, Knight, Bishop, Rook, Queen, King

\* A square is told by its file and rank.
LEMMA SquareOf ==
  ASSUME NEW i \in Square
  PROVE  /\ FileOf(i) \in 0..7 /\ RankOf(i) \in 0..7
         /\ i = Sq(FileOf(i), RankOf(i))
BY DEF Square, FileOf, RankOf, Sq

\* ... and tells them.
LEMMA FileAndRank ==
  ASSUME NEW f \in 0..7, NEW r \in 0..7
  PROVE  Sq(f, r) \in Square /\ FileOf(Sq(f, r)) = f /\ RankOf(Sq(f, r)) = r
BY DEF Square, FileOf, RankOf, Sq

\* The distance of two files or ranks is symmetric.
LEMMA DistSymmetric ==
  ASSUME NEW a \in Int, NEW b \in Int
  PROVE  Dist(a, b) = Dist(b, a)
BY DEF Dist

-----------------------------------------------------------------------------
(* A piece that can take on a square attacks it: validate_* look from the   *)
(* mover to the target, is_square_attacked from the target to the mover.    *)

\* A ray can be walked back.
LEMMA RayBack ==
  ASSUME NEW squares, NEW from \in Square, NEW to \in Square,
         NEW d \in Diagonals \cup Orthogonals, NEW k \in Ray[from][d],
         from + k * d = to, Clear(squares, from, d, k)
  PROVE  /\ -d \in Diagonals \cup Orthogonals
         /\ k \in Ray[to][-d] /\ to + k * (-d) = from
         /\ Clear(squares, to, -d, k)
<1>1. d \in Int /\ -d \in Diagonals \cup Orthogonals /\ d # 0
  BY DEF Diagonals, Orthogonals
<1>2. Ray[from][d] = Walk(from, d) /\ Ray[to][-d] = Walk(to, -d)
  BY <1>1 DEF Ray
<1>3. k \in 1..7 /\ \A j \in 1..k : /\ from + j * d \in Square
                                    /\ ~CrossesEdge(from + (j - 1) * d, from + j * d)
  BY <1>2 DEF Walk
<1>4. from \in Int /\ to \in Int /\ to + k * (-d) = from
  BY <1>1, <1>3 DEF Square
<1>5. ASSUME NEW j \in 1..k
      PROVE  /\ to + j * (-d) = from + (k - j) * d
             /\ to + (j - 1) * (-d) = from + (k - j + 1) * d
  <2>. DEFINE whole == k * d
              part == j * d
  <2>1. whole \in Int /\ part \in Int
    BY <1>1, <1>3
  <2>2. j * (-d) = 0 - part /\ (j - 1) * (-d) = d - part
    BY <1>1, <1>3 DEF Diagonals, Orthogonals
  <2>3. (k - j) * d = whole - part /\ (k - j + 1) * d = whole - part + d
    BY <1>1, <1>3 DEF Diagonals, Orthogonals
  <2>4. to = from + whole
    OBVIOUS
  <2>. HIDE DEF whole, part
  <2>. QED
    BY <1>1, <1>4, <2>1, <2>2, <2>3, <2>4
<1>6. ASSUME NEW j \in 1..k
      PROVE  /\ to + j * (-d) \in Square
             /\ ~CrossesEdge(to + (j - 1) * (-d), to + j * (-d))
  <2>1. k - j + 1 \in 1..k /\ (k - j + 1) - 1 = k - j
    BY <1>3
  <2>2. ~CrossesEdge(from + (k - j) * d, from + (k - j + 1) * d)
    BY <1>3, <2>1
  <2>3. from + (k - j) * d \in Square /\ from + (k - j + 1) * d \in Square
    <3>1. CASE j = k
      BY <1>1, <1>3, <1>4, <2>1, <3>1
    <3>2. CASE j # k
      <4>1. k - j \in 1..k
        BY <1>3, <3>2
      <4>. QED
        BY <1>3, <2>1, <4>1
    <3>. QED
      BY <3>1, <3>2
  <2>4. \A a, b \in Square : CrossesEdge(a, b) => CrossesEdge(b, a)
    BY SquareOf, DistSymmetric DEF CrossesEdge
  <2>. QED
    BY <1>5, <2>2, <2>3, <2>4
<1>7. k \in Walk(to, -d)
  BY <1>3, <1>6 DEF Walk
<1>8. ASSUME NEW j \in 1..(k - 1) PROVE squares[to + j * (-d)] = EMPTY
  <2>1. k - j \in 1..(k - 1) /\ j \in 1..k
    BY <1>3
  <2>. QED
    BY <1>5, <2>1 DEF Clear
<1>. QED
  BY <1>1, <1>2, <1>4, <1>7, <1>8 DEF Clear

\* The piece of the side to move that may go to an occupied square, castling
\* aside, attacks it.
LEMMA TakerAttacks ==
  ASSUME NEW s, Typed(s), NEW from \in Square, NEW to \in Square, from # to,
         s.squares[from] # EMPTY, Color(s.squares[from]) = s.side_to_move,
         s.squares[to] # EMPTY, Shape(s, from, to),
         Kind(s.squares[from]) = King => OneStep(from, to)
  PROVE  IsSquareAttacked(s.squares, to, s.side_to_move)
<1>. DEFINE c == s.side_to_move
            p == s.squares[from]
<1>1. c \in {0, 1} /\ p \in 0..12 /\ p = Make(Kind(p), c)
  BY PieceOf DEF Typed
<1>2. ASSUME NEW dirs, dirs \in {Diagonals, Orthogonals, Orthogonals \cup Diagonals},
             ValidateSlider(s, from, to, dirs)
      PROVE  \E d \in dirs : -d \in dirs /\ \E k \in Ray[to][-d] :
               to + k * (-d) = from /\ Clear(s.squares, to, -d, k)
  <2>1. PICK d \in dirs : \E k \in Ray[from][d] :
          from + k * d = to /\ Clear(s.squares, from, d, k)
    BY <1>2 DEF ValidateSlider
  <2>2. PICK k \in Ray[from][d] : from + k * d = to /\ Clear(s.squares, from, d, k)
    BY <2>1
  <2>3. d \in Diagonals \cup Orthogonals
    BY <1>2, <2>1
  <2>4. -d \in dirs
    BY <1>2, <2>1 DEF Diagonals, Orthogonals
  <2>. QED
    BY <2>2, <2>3, <2>4, RayBack
<1>3. ASSUME NEW dirs \in {Diagonals, Orthogonals}, NEW d \in dirs, NEW k \in Ray[to][d],
             to + k * d = from, Clear(s.squares, to, d, k), NEW pieces, p \in pieces
      PROVE  ScanRayFor(s.squares, to, dirs, pieces)
  BY <1>3 DEF ScanRayFor
<1>4. CASE Kind(p) = Pawn /\ ValidatePawn(s, from, to)
  <2>1. PawnCaptures(s, from, to)
    BY <1>1, <1>4 DEF ValidatePawn, DoublePush, EnPassant
  <2>2. from - to \in (IF c = 0 THEN {-7, -9} ELSE {7, 9})
    BY <1>1, <2>1 DEF PawnCaptures, Dir, Square
  <2>3. ~CrossesEdge(to, from)
    BY <2>1, SquareOf, DistSymmetric DEF PawnCaptures, CrossesEdge
  <2>4. from \in PawnSquares[c][to]
    BY <1>1, <2>2, <2>3 DEF PawnSquares
  <2>. QED
    BY <1>1, <1>4, <2>4 DEF IsSquareAttacked
<1>5. CASE Kind(p) = Knight /\ KnightShape(from, to)
  <2>1. KnightShape(to, from)
    BY <1>5, SquareOf, DistSymmetric DEF KnightShape
  <2>2. from \in KnightSquares[to]
    BY <2>1 DEF KnightSquares
  <2>. QED
    BY <1>1, <1>5, <2>2 DEF IsSquareAttacked
<1>6. CASE Kind(p) = Bishop /\ ValidateSlider(s, from, to, Diagonals)
  <2>1. ScanRayFor(s.squares, to, Diagonals, {Make(Bishop, c), Make(Queen, c)})
    BY <1>1, <1>2, <1>3, <1>6
  <2>. QED
    BY <2>1 DEF IsSquareAttacked
<1>7. CASE Kind(p) = Rook /\ ValidateSlider(s, from, to, Orthogonals)
  <2>1. ScanRayFor(s.squares, to, Orthogonals, {Make(Rook, c), Make(Queen, c)})
    BY <1>1, <1>2, <1>3, <1>7
  <2>. QED
    BY <2>1 DEF IsSquareAttacked
<1>8. CASE Kind(p) = Queen /\ ValidateSlider(s, from, to, Orthogonals \cup Diagonals)
  <2>1. PICK d \in Orthogonals \cup Diagonals : \E k \in Ray[to][d] :
          to + k * d = from /\ Clear(s.squares, to, d, k)
    BY <1>2, <1>8
  <2>2. \/ ScanRayFor(s.squares, to, Diagonals, {Make(Bishop, c), Make(Queen, c)})
        \/ ScanRayFor(s.squares, to, Orthogonals, {Make(Rook, c), Make(Queen, c)})
    BY <1>1, <1>3, <1>8, <2>1
  <2>. QED
    BY <2>2 DEF IsSquareAttacked
<1>9. CASE Kind(p) = King
  <2>1. OneStep(to, from)
    BY <1>9, SquareOf, DistSymmetric DEF OneStep
  <2>2. from \in Neighbours[to]
    BY <2>1 DEF Neighbours
  <2>. QED
    BY <1>1, <1>9, <2>2 DEF IsSquareAttacked
<1>. QED
  BY <1>4, <1>5, <1>6, <1>7, <1>8, <1>9 DEF Shape

-----------------------------------------------------------------------------
(* What a legal move finds on the board.                                   *)

\* Castling starts at home: the side still has a right, so its king is there.
LEMMA CastlingFromHome ==
  ASSUME NEW s, Typed(s), InOrder(s), NEW from \in Square, NEW to \in Square,
         s.squares[from] = Make(King, s.side_to_move), Castles(s, from, to)
  PROVE  LET c == s.side_to_move
             files == CastlingFiles(KingSide(to))
         IN /\ from = Sq(4, HomeRank(c))
            /\ to = Sq(IF KingSide(to) THEN 6 ELSE 2, HomeRank(c))
            /\ s.squares[to] = EMPTY
            /\ s.squares[Sq(files.hop, HomeRank(c))] = EMPTY
            /\ s.squares[Sq(files.rook, HomeRank(c))] = Make(Rook, c)
<1>. DEFINE c == s.side_to_move
            right == CastlingRight(c, KingSide(to))
            files == CastlingFiles(KingSide(to))
            home == HomeRank(c)
<1>1. c \in {0, 1} /\ KingSide(to) \in BOOLEAN /\ home \in 0..7
  BY DEF Typed, KingSide, HomeRank
<1>2. right \in s.castling_rights
  BY DEF Castles
<1>3. Home(right).king = Sq(4, home) /\ Home(right).color = c
  BY <1>1 DEF CastlingRight, Home, HomeRank, Sq
<1>4. s.squares[Sq(4, home)] = Make(King, c)
  BY <1>2, <1>3 DEF InOrder, RightsInOrder
<1>5. from = Sq(4, home)
  <2>1. PICK k \in Square : Kings(s.squares, c) = {k}
    BY <1>1 DEF InOrder, KingsInOrder
  <2>2. Sq(4, home) \in Square
    BY <1>1, FileAndRank
  <2>. QED
    BY <1>4, <2>1, <2>2 DEF Kings
<1>6. FileOf(from) = 4 /\ RankOf(from) = home
  BY <1>1, <1>5, FileAndRank
<1>7. Dist(4, FileOf(to)) = 2 /\ RankOf(to) = home
  BY <1>6 DEF Castles
<1>8. FileOf(to) = IF KingSide(to) THEN 6 ELSE 2
  BY <1>7, SquareOf DEF Dist, KingSide
<1>9. to = Sq(IF KingSide(to) THEN 6 ELSE 2, home)
  BY <1>7, <1>8, SquareOf
<1>10. /\ files.hop \in files.empty
       /\ (IF KingSide(to) THEN 6 ELSE 2) \in files.empty
  BY DEF CastlingFiles
<1>11. /\ \A f \in files.empty : s.squares[Sq(f, home)] = EMPTY
       /\ s.squares[Sq(files.rook, home)] = Make(Rook, c)
  BY DEF Castles
<1>. QED
  BY <1>5, <1>9, <1>10, <1>11

\* Nobody can take a king: the side that has moved would be in check.
LEMMA KingNotTaken ==
  ASSUME NEW s, Typed(s), InOrder(s), NEW from \in Square, NEW to \in Square,
         from # to, s.squares[from] # EMPTY, Color(s.squares[from]) = s.side_to_move,
         Shape(s, from, to)
  PROVE  s.squares[to] # Make(King, 1 - s.side_to_move)
<1>. DEFINE c == s.side_to_move
<1>. SUFFICES ASSUME s.squares[to] = Make(King, 1 - c) PROVE FALSE
  OBVIOUS
<1>1. c \in {0, 1} /\ 1 - c \in {0, 1} /\ 1 - (1 - c) = c
  BY DEF Typed
<1>2. s.squares[to] # EMPTY
  BY <1>1, MakeOf
<1>3. /\ from # to /\ s.squares[from] # EMPTY /\ Color(s.squares[from]) = c
      /\ Shape(s, from, to)
  OBVIOUS
<1>4. Kind(s.squares[from]) = King => OneStep(from, to)
  <2>1. ASSUME Kind(s.squares[from]) = King, Castles(s, from, to) PROVE FALSE
    <3>1. s.squares[from] \in 0..12
      BY DEF Typed
    <3>2. s.squares[from] = Make(King, c)
      BY <1>3, <2>1, <3>1, PieceOf
    <3>. QED
      BY <1>2, <2>1, <3>2, CastlingFromHome
  <2>2. Kind(s.squares[from]) = King => ValidateKing(s, from, to)
    BY <1>3 DEF Shape, Pawn, Knight, Bishop, Rook, Queen, King
  <2>. QED
    BY <2>1, <2>2 DEF ValidateKing
<1>5. IsSquareAttacked(s.squares, to, c)
  BY <1>2, <1>3, <1>4, TakerAttacks
<1>6. PICK k \in Square : Kings(s.squares, 1 - c) = {k}
  BY <1>1 DEF InOrder, KingsInOrder
<1>7. k = to
  BY <1>6 DEF Kings
<1>8. KingSquare(s.squares, 1 - c) = to
  BY <1>6, <1>7 DEF KingSquare, Square
<1>9. InCheck(s.squares, 1 - c)
  BY <1>1, <1>5, <1>8 DEF InCheck
<1>. QED
  BY <1>9 DEF InOrder, KingsInOrder

-----------------------------------------------------------------------------
(* What a legal move does to the board.                                    *)

\* What stands on the target square afterwards.
Placed(s, from, to, promotion) ==
  IF Promotes(s, from, to) THEN Make(promotion, s.side_to_move) ELSE s.squares[from]

\* The pawn taken en passant is a pawn: the target was set by a double push.
LEMMA VictimIsPawn ==
  ASSUME NEW s, Typed(s), InOrder(s), NEW from \in Square, NEW to \in Square,
         EnPassant(s, from, to)
  PROVE  LET c == s.side_to_move v == EnPassantVictim(s, to) IN
         v \in Square \ {from, to} /\ s.squares[v] = Make(Pawn, 1 - c)
<1>. DEFINE c == s.side_to_move
            v == EnPassantVictim(s, to)
<1>1. c \in {0, 1} /\ s.en_passant = to /\ to # None
  BY DEF Typed, EnPassant, Square, None
<1>2. /\ RankOf(to) = IF 1 - c = 0 THEN 2 ELSE 5
      /\ s.squares[to + Dir(1 - c)] = Make(Pawn, 1 - c)
  BY <1>1 DEF InOrder, TargetInOrder
<1>3. v = to + Dir(1 - c) /\ v \in Square /\ v # to
  BY <1>1, <1>2 DEF EnPassantVictim, Dir, Square, RankOf
<1>4. v # from
  BY <1>1 DEF EnPassant, PawnCaptures, EnPassantVictim, Dir, Square
<1>. QED
  BY <1>2, <1>3, <1>4

\* A legal move leaves its square, puts a piece on the target, and changes no
\* other square but for the pawn taken en passant and the castling rook's two.
LEMMA BoardAfter ==
  ASSUME NEW s, Typed(s), InOrder(s), NEW from \in Square, NEW to \in Square,
         NEW promotion, Legal(s, from, to, promotion)
  PROVE  LET c == s.side_to_move after == Moved(s, from, to, promotion) IN
         /\ after[from] = EMPTY /\ after[to] = Placed(s, from, to, promotion)
         /\ \A i \in Square \ {from, to} :
              \/ after[i] = s.squares[i]
              \/ s.squares[i] = Make(Pawn, 1 - c) /\ after[i] = EMPTY
              \/ /\ s.squares[from] = Make(King, c) /\ from = Sq(4, HomeRank(c))
                 /\ RankOf(i) = HomeRank(c)
                 /\ {s.squares[i], after[i]} \subseteq {EMPTY, Make(Rook, c)}
<1>. DEFINE c == s.side_to_move
            placed == Placed(s, from, to, promotion)
            plain == [s.squares EXCEPT ![from] = EMPTY, ![to] = placed]
            files == CastlingFiles(KingSide(to))
            v == EnPassantVictim(s, to)
            r == Sq(files.rook, HomeRank(c))
            h == Sq(files.hop, HomeRank(c))
            after == Moved(s, from, to, promotion)
<1>1. /\ c \in {0, 1} /\ s.squares \in [Square -> 0..12] /\ from # to
      /\ s.squares[from] # EMPTY /\ Color(s.squares[from]) = c
  BY DEF Typed, Legal
<1>2. after = IF IsEnPassant(s, from, to) THEN [plain EXCEPT ![v] = EMPTY]
              ELSE IF IsCastle(s, from, to)
              THEN [plain EXCEPT ![r] = EMPTY, ![h] = Make(Rook, c)]
              ELSE plain
  BY DEF Moved, Placed
<1>3. /\ plain[from] = EMPTY /\ plain[to] = placed
      /\ \A i \in Square \ {from, to} : plain[i] = s.squares[i]
      /\ DOMAIN plain = Square
  BY <1>1
<1>. HIDE DEF plain, placed
<1>4. CASE IsEnPassant(s, from, to)
  <2>1. v \in Square \ {from, to} /\ s.squares[v] = Make(Pawn, 1 - c)
    BY <1>4, VictimIsPawn DEF IsEnPassant
  <2>2. after = [plain EXCEPT ![v] = EMPTY]
    BY <1>2, <1>4
  <2>. HIDE DEF v, after
  <2>3. /\ after[from] = EMPTY /\ after[to] = placed /\ after[v] = EMPTY
        /\ \A i \in Square \ {from, to, v} : after[i] = s.squares[i]
    BY <1>3, <2>1, <2>2
  <2>. QED
    BY <2>1, <2>3 DEF placed, after
<1>5. CASE ~IsEnPassant(s, from, to) /\ IsCastle(s, from, to)
  <2>1. s.squares[from] = Make(King, c) /\ Castles(s, from, to)
    <3>1. s.squares[from] \in 0..12
      BY <1>1
    <3>. QED
      BY <1>1, <1>5, <3>1, PieceOf DEF IsCastle
  <2>2. /\ from = Sq(4, HomeRank(c))
        /\ to = Sq(IF KingSide(to) THEN 6 ELSE 2, HomeRank(c))
        /\ s.squares[h] = EMPTY /\ s.squares[r] = Make(Rook, c)
    BY <2>1, CastlingFromHome
  <2>3. /\ r \in Square \ {from, to, h} /\ h \in Square \ {from, to}
        /\ RankOf(r) = HomeRank(c) /\ RankOf(h) = HomeRank(c)
    BY <1>1, <2>2 DEF CastlingFiles, HomeRank, Sq, RankOf, Square
  <2>4. after = [plain EXCEPT ![r] = EMPTY, ![h] = Make(Rook, c)]
    BY <1>2, <1>5
  <2>. HIDE DEF r, h, after
  <2>5. after[r] = EMPTY /\ after[h] = Make(Rook, c)
        /\ \A i \in Square \ {r, h} : after[i] = plain[i]
    BY <1>3, <2>3, <2>4
  <2>6. after[from] = EMPTY /\ after[to] = placed
    BY <1>3, <2>3, <2>5
  <2>7. ASSUME NEW i \in Square \ {from, to}, i # r, i # h
        PROVE  after[i] = s.squares[i]
    BY <1>3, <2>5, <2>7
  <2>8. ASSUME NEW i \in {r, h}
        PROVE  /\ RankOf(i) = HomeRank(c)
               /\ {s.squares[i], after[i]} \subseteq {EMPTY, Make(Rook, c)}
    BY <2>2, <2>3, <2>5
  <2>. QED
    BY <2>1, <2>2, <2>6, <2>7, <2>8 DEF placed, after
<1>6. CASE ~IsEnPassant(s, from, to) /\ ~IsCastle(s, from, to)
  BY <1>2, <1>3, <1>6 DEF placed
<1>. QED
  BY <1>4, <1>5, <1>6

\* What is placed belongs to the mover, and is a king exactly if the mover's is.
LEMMA PlacedPiece ==
  ASSUME NEW s, Typed(s), NEW from \in Square, NEW to \in Square, NEW promotion,
         Legal(s, from, to, promotion)
  PROVE  LET c == s.side_to_move placed == Placed(s, from, to, promotion) IN
         /\ placed \in 1..12 /\ placed # EMPTY /\ Color(placed) = c
         /\ placed = Make(King, c) <=> s.squares[from] = Make(King, c)
<1>. DEFINE c == s.side_to_move
            p == s.squares[from]
            placed == Placed(s, from, to, promotion)
<1>1. /\ c \in {0, 1} /\ p \in 0..12 /\ p # EMPTY /\ Color(p) = c
      /\ PromotionOk(s, from, to, promotion)
  BY DEF Typed, Legal
<1>2. CASE Promotes(s, from, to)
  <2>1. promotion \in {Knight, Bishop, Rook, Queen} /\ placed = Make(promotion, c)
    BY <1>1, <1>2 DEF PromotionOk, Placed
  <2>2. Kind(p) = Pawn
    BY <1>2 DEF Promotes
  <2>. QED
    BY <1>1, <2>1, <2>2 DEF Make, Kind, Color, EMPTY, Pawn, Knight, Bishop, Rook, Queen, King
<1>3. CASE ~Promotes(s, from, to)
  BY <1>1, <1>3 DEF Placed, EMPTY
<1>. QED
  BY <1>2, <1>3

\* The opponent's king stays where it is, the mover's is the piece that moved
\* or stays too, and nobody gets a second one.
LEMMA KingsAfter ==
  ASSUME NEW s, Typed(s), InOrder(s), NEW from \in Square, NEW to \in Square,
         NEW promotion, Legal(s, from, to, promotion), NEW color \in {0, 1}
  PROVE  \E k \in Square : Kings(Moved(s, from, to, promotion), color) = {k}
<1>. DEFINE c == s.side_to_move
            after == Moved(s, from, to, promotion)
            king == Make(King, color)
            placed == Placed(s, from, to, promotion)
<1>1. /\ c \in {0, 1} /\ s.squares \in [Square -> 0..12] /\ from # to
      /\ s.squares[from] # EMPTY /\ Color(s.squares[from]) = c
      /\ s.squares[to] # EMPTY => Color(s.squares[to]) # c
  BY DEF Typed, Legal
<1>2. PICK k \in Square : Kings(s.squares, color) = {k}
  BY DEF InOrder, KingsInOrder
<1>3. \A i \in Square : s.squares[i] = king <=> i = k
  BY <1>2 DEF Kings
<1>4. king # EMPTY /\ Color(king) = color /\ king \notin {Make(Pawn, 1 - c), Make(Rook, c)}
  BY <1>1 DEF Make, Color, EMPTY, King, Pawn, Rook
<1>5. ASSUME NEW i \in Square \ {from, to} PROVE after[i] = king <=> i = k
  <2>1. \/ after[i] = s.squares[i]
        \/ s.squares[i] = Make(Pawn, 1 - c) /\ after[i] = EMPTY
        \/ {s.squares[i], after[i]} \subseteq {EMPTY, Make(Rook, c)}
    BY BoardAfter
  <2>. HIDE DEF after, king
  <2>. QED
    BY <1>3, <1>4, <2>1
<1>6. after[from] = EMPTY /\ after[to] = placed
  BY BoardAfter
<1>7. /\ Color(placed) = c
      /\ placed = Make(King, c) <=> s.squares[from] = Make(King, c)
  BY PlacedPiece
<1>. HIDE DEF after, placed, king
<1>8. CASE color = c /\ k = from
  <2>1. after[to] = king
    BY <1>3, <1>6, <1>7, <1>8 DEF king
  <2>2. \A i \in Square : after[i] = king <=> i = to
    BY <1>1, <1>4, <1>5, <1>6, <1>8, <2>1
  <2>3. Kings(after, color) = {to}
    BY <2>2 DEF Kings, king
  <2>. QED
    BY <2>3 DEF after
<1>9. CASE ~(color = c /\ k = from)
  <2>1. k # from
    BY <1>1, <1>3, <1>4, <1>9
  <2>2. k # to
    <3>1. CASE color = c
      BY <1>1, <1>3, <1>4, <3>1
    <3>2. CASE color # c
      <4>1. color = 1 - c
        BY <1>1, <3>2
      <4>2. s.squares[to] # king
        BY <4>1, KingNotTaken DEF king, Legal
      <4>. QED
        BY <1>3, <4>2
    <3>. QED
      BY <3>1, <3>2
  <2>3. after[to] # king
    <3>1. CASE color = c
      BY <1>3, <1>6, <1>7, <2>1, <3>1 DEF king
    <3>2. CASE color # c
      BY <1>4, <1>6, <1>7, <3>2
    <3>. QED
      BY <3>1, <3>2
  <2>4. \A i \in Square : after[i] = king <=> i = k
    BY <1>1, <1>4, <1>5, <1>6, <2>1, <2>2, <2>3
  <2>5. Kings(after, color) = {k}
    BY <2>4 DEF Kings, king
  <2>. QED
    BY <2>5 DEF after
<1>. QED
  BY <1>8, <1>9

\* A double push leaves a sound target, and any other move none.
LEMMA TargetAfter ==
  ASSUME NEW s, Typed(s), InOrder(s), NEW from \in Square, NEW to \in Square,
         NEW promotion, Legal(s, from, to, promotion)
  PROVE  TargetInOrder(Apply(s, from, to, promotion))
<1>. DEFINE c == s.side_to_move
            t == Apply(s, from, to, promotion)
            after == Moved(s, from, to, promotion)
            dir == Dir(c)
            push == Kind(s.squares[from]) = Pawn /\ DoublePush(s, from, to)
<1>1. /\ t.en_passant = (IF push THEN from + dir ELSE None)
      /\ t.side_to_move = 1 - c /\ t.squares = after
  BY DEF Apply
<1>. SUFFICES ASSUME push
              PROVE  LET ep == from + dir IN
                     /\ RankOf(ep) = IF c = 0 THEN 2 ELSE 5
                     /\ after[ep] = EMPTY /\ after[ep - dir] = EMPTY
                     /\ after[ep + dir] = Make(Pawn, c)
  <2>1. c \in {0, 1} /\ 1 - (1 - c) = c
    BY DEF Typed
  <2>. HIDE DEF t, after, push
  <2>2. TargetInOrder(t)
    BY <1>1, <2>1 DEF TargetInOrder
  <2>. QED
    BY <2>2 DEF t
<1>2. /\ c \in {0, 1} /\ s.squares[from] \in 0..12 /\ s.squares[from] # EMPTY
      /\ Color(s.squares[from]) = c
  BY DEF Typed, Legal
<1>3. s.squares[from] = Make(Pawn, c)
  BY <1>2, PieceOf
<1>4. /\ to = from + 2 * dir /\ RankOf(from) = StartRank(c)
      /\ s.squares[from + dir] = EMPTY /\ s.squares[to] = EMPTY
  BY <1>2 DEF DoublePush, Dir, Square
<1>5. /\ from + dir \in Square \ {from, to} /\ RankOf(from + dir) = IF c = 0 THEN 2 ELSE 5
      /\ (from + dir) - dir = from /\ (from + dir) + dir = to
      /\ RankOf(to) # LastRank(c)
  BY <1>2, <1>4 DEF Dir, Square, RankOf, StartRank, LastRank
<1>6. after[to] = Make(Pawn, c) /\ after[from] = EMPTY
  BY <1>3, <1>5, BoardAfter DEF Placed, Promotes
<1>7. Make(Pawn, c) # Make(King, c) /\ Make(Pawn, 1 - c) # EMPTY
  BY <1>2 DEF Make, Pawn, King, EMPTY
<1>8. after[from + dir] = EMPTY
  BY <1>3, <1>4, <1>5, <1>7, BoardAfter
<1>. QED
  BY <1>5, <1>6, <1>8

\* Nothing is captured on the home square of a king that may still castle.
LEMMA HomeKingStays ==
  ASSUME NEW s, Typed(s), InOrder(s), NEW from \in Square, NEW to \in Square,
         NEW promotion, Legal(s, from, to, promotion), NEW right \in s.castling_rights
  PROVE  to # Home(right).king
<1>. DEFINE c == s.side_to_move
            home == Home(right)
            color == home.color
<1>. SUFFICES ASSUME to = home.king PROVE FALSE
  OBVIOUS
<1>1. c \in {0, 1} /\ color \in {0, 1}
  BY DEF Typed, Home, Rights
<1>2. s.squares[to] = Make(King, color)
  BY DEF InOrder, RightsInOrder
<1>3. CASE color = c
  BY <1>1, <1>2, <1>3, MakeOf DEF Legal
<1>4. CASE color # c
  <2>1. color = 1 - c
    BY <1>1, <1>4
  <2>. HIDE DEF home, c
  <2>. QED
    BY <1>2, <2>1, KingNotTaken DEF c, Legal
<1>. QED
  BY <1>3, <1>4

\* A right that is not revoked still has its king and its rook at home.
LEMMA RightsAfter ==
  ASSUME NEW s, Typed(s), InOrder(s), NEW from \in Square, NEW to \in Square,
         NEW promotion, Legal(s, from, to, promotion)
  PROVE  RightsInOrder(Apply(s, from, to, promotion))
<1>. DEFINE c == s.side_to_move
            t == Apply(s, from, to, promotion)
            after == Moved(s, from, to, promotion)
<1>1. t.castling_rights = s.castling_rights \ Revoked(from, to) /\ t.squares = after
  BY DEF Apply
<1>. SUFFICES ASSUME NEW right \in s.castling_rights \ Revoked(from, to)
              PROVE  /\ after[Home(right).king] = Make(King, Home(right).color)
                     /\ after[Home(right).rook] = Make(Rook, Home(right).color)
  <2>. HIDE DEF t, after
  <2>1. RightsInOrder(t)
    BY <1>1 DEF RightsInOrder
  <2>. QED
    BY <2>1 DEF t
<1>. DEFINE home == Home(right)
            color == home.color
<1>2. c \in {0, 1} /\ right \in Rights
  BY DEF Typed
<1>3. /\ color \in {0, 1} /\ home.king = Sq(4, HomeRank(color))
      /\ home.rook \in {Sq(0, HomeRank(color)), Sq(7, HomeRank(color))}
      /\ home.king \in Square /\ home.rook \in Square
  BY <1>2 DEF Home, Rights, Sq, HomeRank, Square
<1>4. from # home.king /\ from # home.rook /\ to # home.rook
  BY <1>2 DEF Home, Rights, Revoked
<1>5. s.squares[home.king] = Make(King, color) /\ s.squares[home.rook] = Make(Rook, color)
  BY DEF InOrder, RightsInOrder
<1>6. to # home.king
  BY HomeKingStays
<1>7. /\ RankOf(home.king) = HomeRank(color) /\ RankOf(home.rook) = HomeRank(color)
      /\ HomeRank(c) = HomeRank(color) => c = color
  BY <1>2, <1>3 DEF Sq, HomeRank, RankOf
<1>8. ASSUME NEW i \in {home.king, home.rook} PROVE after[i] = s.squares[i]
  <2>1. i \in Square \ {from, to} /\ RankOf(i) = HomeRank(color)
    BY <1>3, <1>4, <1>6, <1>7
  <2>2. s.squares[i] \in {Make(King, color), Make(Rook, color)}
    BY <1>5
  <2>3. s.squares[i] # Make(Pawn, 1 - c)
    BY <1>2, <1>3, <2>2 DEF Make, King, Rook, Pawn
  <2>4. ~(from = Sq(4, HomeRank(c)) /\ RankOf(i) = HomeRank(c))
    BY <1>3, <1>4, <1>7, <2>1
  <2>. HIDE DEF home, color
  <2>. QED
    BY <2>1, <2>3, <2>4, BoardAfter
<1>. QED
  BY <1>5, <1>8

\* From a position in order, every legal move leads to a position in order.
THEOREM OrderKept ==
  ASSUME NEW s, Typed(s), InOrder(s), NEW from \in Square, NEW to \in Square,
         NEW promotion, Legal(s, from, to, promotion)
  PROVE  InOrder(Apply(s, from, to, promotion))
<1>. DEFINE t == Apply(s, from, to, promotion)
<1>1. t.squares = Moved(s, from, to, promotion) /\ t.side_to_move = 1 - s.side_to_move
  BY DEF Apply
<1>2. 1 - (1 - s.side_to_move) = s.side_to_move
  BY DEF Typed
<1>3. ~InCheck(t.squares, 1 - t.side_to_move)
  BY <1>1, <1>2 DEF Legal, KingSafe
<1>4. \A c \in {0, 1} : \E k \in Square : Kings(t.squares, c) = {k}
  BY <1>1, KingsAfter
<1>5. TargetInOrder(t) /\ RightsInOrder(t)
  BY TargetAfter, RightsAfter
<1>. QED
  BY <1>3, <1>4, <1>5 DEF InOrder, KingsInOrder

\* A piece on a board is still one of the thirteen after any number of writes
\* of pieces to squares.
LEMMA MovedType ==
  ASSUME NEW s, s.squares \in [Square -> 0..12], s.side_to_move \in {0, 1},
         NEW from \in Square, NEW to \in Square, NEW promotion,
         PromotionOk(s, from, to, promotion)
  PROVE  Moved(s, from, to, promotion) \in [Square -> 0..12]
<1>. DEFINE c == s.side_to_move
            placed == IF Promotes(s, from, to) THEN Make(promotion, c) ELSE s.squares[from]
            plain == [s.squares EXCEPT ![from] = EMPTY, ![to] = placed]
            files == CastlingFiles(KingSide(to))
            a == EnPassantVictim(s, to)
            r == Sq(files.rook, HomeRank(c))
            h == Sq(files.hop, HomeRank(c))
<1>1. placed \in 0..12 /\ Make(Rook, c) \in 0..12 /\ EMPTY \in 0..12
  BY DEF PromotionOk, Make, Knight, Bishop, Rook, Queen, EMPTY
<1>2. /\ Moved(s, from, to, promotion) =
           IF IsEnPassant(s, from, to) THEN [plain EXCEPT ![a] = EMPTY]
           ELSE IF IsCastle(s, from, to)
           THEN [plain EXCEPT ![r] = EMPTY, ![h] = Make(Rook, c)]
           ELSE plain
  BY DEF Moved
<1>. HIDE DEF placed
<1>3. plain \in [Square -> 0..12]
  BY <1>1
<1>. HIDE DEF plain, a, r, h
<1>. QED
  BY <1>1, <1>2, <1>3

\* A legal move leaves a state of the declared types.
LEMMA TypedAfter ==
  ASSUME NEW s, Typed(s), NEW from \in Square, NEW to \in Square, NEW promotion,
         Legal(s, from, to, promotion)
  PROVE  Typed(Apply(s, from, to, promotion))
<1>. DEFINE c == s.side_to_move
            push == Kind(s.squares[from]) = Pawn /\ DoublePush(s, from, to)
            t == Apply(s, from, to, promotion)
<1>1. t.squares \in [Square -> 0..12]
  BY MovedType DEF Typed, Legal, Apply
<1>2. t.side_to_move \in {0, 1} /\ t.castling_rights \subseteq Rights
  BY DEF Typed, Apply
<1>3. t.en_passant = IF push THEN from + Dir(c) ELSE None
  BY DEF Apply
<1>4. push => from + Dir(c) \in Square
  BY DEF DoublePush, Dir, Square
<1>. HIDE DEF t, push
<1>5. Typed(t)
  BY <1>1, <1>2, <1>3, <1>4 DEF Typed
<1>. QED
  BY <1>5 DEF t

-----------------------------------------------------------------------------
(* The opening position.                                                   *)

\* The board of the opening, rank by rank.
LEMMA OpeningBoard ==
  /\ Initial.squares \in [Square -> 0..12]
  /\ \A i \in Square : LET p == Initial.squares[i] IN
       /\ RankOf(i) = 0 => p \in 2..6 /\ (p = King <=> i = 4)
                           /\ (p = Knight <=> i \in {1, 6})
                           /\ (p = Rook <=> i \in {0, 7})
       /\ RankOf(i) = 7 => p \in 8..12 /\ (p = Make(King, 1) <=> i = 60)
                           /\ (p = Make(Knight, 1) <=> i \in {57, 62})
                           /\ (p = Make(Rook, 1) <=> i \in {56, 63})
       /\ RankOf(i) = 1 => p = Pawn
       /\ RankOf(i) = 6 => p = Make(Pawn, 1)
       /\ RankOf(i) \in 2..5 => p = EMPTY
<1>. DEFINE back == <<Rook, Knight, Bishop, Queen, King, Bishop, Knight, Rook>>
            home(f) == back[f + 1]
<1>1. Initial.squares = [i \in Square |->
        IF RankOf(i) = 0 THEN home(FileOf(i))
        ELSE IF RankOf(i) = 1 THEN Pawn
        ELSE IF RankOf(i) = 6 THEN Make(Pawn, 1)
        ELSE IF RankOf(i) = 7 THEN Make(home(FileOf(i)), 1)
        ELSE EMPTY]
  BY DEF Initial
<1>2. /\ home(0) = 4 /\ home(1) = 2 /\ home(2) = 3 /\ home(3) = 5
      /\ home(4) = 6 /\ home(5) = 3 /\ home(6) = 2 /\ home(7) = 4
  BY DEF Rook, Knight, Bishop, Queen, King
<1>. HIDE DEF home
<1>3. ASSUME NEW f \in 0..7
      PROVE  /\ home(f) \in 2..6 /\ (home(f) = 6 <=> f = 4)
             /\ (home(f) = 2 <=> f \in {1, 6}) /\ (home(f) = 4 <=> f \in {0, 7})
  <2>1. f \in {0, 1, 2, 3, 4, 5, 6, 7}
    OBVIOUS
  <2>. QED
    BY <1>2, <2>1
<1>4. ASSUME NEW i \in Square
      PROVE  /\ FileOf(i) \in 0..7 /\ RankOf(i) \in 0..7 /\ i = RankOf(i) * 8 + FileOf(i)
  BY SquareOf DEF Sq
<1>. QED
  BY <1>1, <1>3, <1>4 DEF Make, Pawn, King, Knight, Rook, EMPTY

\* A home row no piece of the opponent attacks: the opponent's pieces are far
\* away behind their pawns.
LEMMA HomeKingsSafe ==
  ASSUME NEW squares, NEW c \in {0, 1},
         NEW k, k = Sq(4, HomeRank(c)),
         \A i \in Square : Dist(RankOf(i), HomeRank(c)) =< 1 /\ i # Sq(0, StartRank(c)) =>
           squares[i] # EMPTY /\ Color(squares[i]) = c,
         \A i \in Square : \A kind \in {Pawn, Knight, King} :
           squares[i] = Make(kind, 1 - c) => Dist(RankOf(i), HomeRank(c)) > 3
  PROVE  ~IsSquareAttacked(squares, k, 1 - c)
<1>. DEFINE near(i) == Dist(RankOf(i), HomeRank(c)) =< 1 /\ i # Sq(0, StartRank(c))
            far(i) == Dist(RankOf(i), HomeRank(c)) > 3
<1>1. /\ 1 - c \in {0, 1} /\ k \in Square
      /\ HomeRank(c) \in {0, 7} /\ k = IF c = 0 THEN 4 ELSE 60
  BY DEF Sq, HomeRank, Square
<1>2. ASSUME NEW kind \in {Bishop, Rook, Queen}, NEW i \in Square, near(i)
      PROVE  squares[i] # Make(kind, 1 - c) /\ squares[i] # EMPTY
  BY <1>1, <1>2, MakeOf
<1>3. ASSUME NEW i \in Square, Dist(RankOf(k), RankOf(i)) =< 2 PROVE ~far(i)
  <2>1. RankOf(k) = HomeRank(c) /\ RankOf(i) \in Int
    BY <1>1 DEF RankOf, Square, HomeRank
  <2>. QED
    BY <1>1, <1>3, <2>1 DEF Dist
<1>4. ASSUME NEW i \in PawnSquares[1 - c][k] \cup KnightSquares[k] \cup Neighbours[k]
      PROVE  ~far(i) /\ i \in Square
  <2>1. CASE i \in PawnSquares[1 - c][k]
    <3>1. i \in Square /\ i - k \in {-7, -9, 7, 9}
      BY <1>1, <2>1 DEF PawnSquares
    <3>2. Dist(RankOf(k), RankOf(i)) =< 2
      BY <1>1, <3>1 DEF Dist, RankOf, Square
    <3>. QED
      BY <1>3, <3>1, <3>2
  <2>2. CASE i \in KnightSquares[k]
    <3>1. i \in Square /\ {Dist(FileOf(k), FileOf(i)), Dist(RankOf(k), RankOf(i))} = {1, 2}
      BY <1>1, <2>2 DEF KnightSquares, KnightShape
    <3>2. Dist(RankOf(k), RankOf(i)) \in {1, 2}
      BY <3>1, Zenon
    <3>. QED
      BY <1>3, <3>1, <3>2
  <2>3. CASE i \in Neighbours[k]
    <3>1. i \in Square /\ Dist(RankOf(k), RankOf(i)) =< 1
      BY <1>1, <2>3 DEF Neighbours, OneStep
    <3>2. Dist(RankOf(k), RankOf(i)) =< 2
      BY <1>1, <3>1 DEF RankOf, Square, Dist
    <3>. QED
      BY <1>3, <3>1, <3>2
  <2>. QED
    BY <1>4, <2>1, <2>2, <2>3
<1>5. ASSUME NEW d \in Diagonals \cup Orthogonals, NEW step \in Ray[k][d]
      PROVE  /\ step \in 1..7 /\ k + 1 * d \in Square /\ near(k + 1 * d)
             /\ k + step * d \in Square
  <2>1. step \in Walk(k, d)
    BY <1>1, <1>5 DEF Ray
  <2>2. /\ step \in 1..7 /\ k + step * d \in Square /\ k + 1 * d \in Square
        /\ ~CrossesEdge(k + (1 - 1) * d, k + 1 * d)
    BY <2>1 DEF Walk
  <2>3. near(k + 1 * d)
    BY <1>1, <2>2 DEF Diagonals, Orthogonals, Square, RankOf, Dist, HomeRank, StartRank, Sq
  <2>. QED
    BY <2>2, <2>3
<1>6. ASSUME NEW dirs \in SUBSET (Diagonals \cup Orthogonals),
             NEW kind \in {Bishop, Rook}
      PROVE  ~ScanRayFor(squares, k, dirs, {Make(kind, 1 - c), Make(Queen, 1 - c)})
  <2>. SUFFICES ASSUME NEW d \in dirs, NEW step \in Ray[k][d],
                       squares[k + step * d] \in {Make(kind, 1 - c), Make(Queen, 1 - c)},
                       Clear(squares, k, d, step)
                PROVE  FALSE
    BY DEF ScanRayFor
  <2>1. CASE step = 1
    BY <1>2, <1>5, <2>1
  <2>2. CASE step # 1
    <3>1. 1 \in 1..(step - 1)
      BY <1>5, <2>2
    <3>2. squares[k + 1 * d] = EMPTY
      BY <3>1 DEF Clear
    <3>. QED
      BY <1>2, <1>5, <3>2
  <2>. QED
    BY <2>1, <2>2
<1>. HIDE DEF near, far
<1>7. \A kind \in {Pawn, Knight, King}, i \in Square :
        squares[i] = Make(kind, 1 - c) => far(i)
  BY DEF far
<1>. QED
  BY <1>4, <1>6, <1>7 DEF IsSquareAttacked

\* A king alone of its kind is the one found.
LEMMA TheKing ==
  ASSUME NEW squares, NEW c, NEW k \in Square, Kings(squares, c) = {k}
  PROVE  KingSquare(squares, c) = k
BY DEF KingSquare, Square

\* The game starts from a position in order.
LEMMA OpeningInOrder == Typed(Initial) /\ InOrder(Initial)
<1>. DEFINE f == Initial.squares
<1>1. /\ f \in [Square -> 0..12] /\ Initial.side_to_move = 0
      /\ Initial.castling_rights = Rights /\ Initial.en_passant = None
  BY OpeningBoard DEF Initial
<1>2. Typed(Initial)
  BY <1>1 DEF Typed
<1>3. ASSUME NEW i \in Square
      PROVE  /\ RankOf(i) \in 0..7
             /\ f[i] = 6 <=> i = 4
             /\ f[i] = 12 <=> i = 60
             /\ f[i] = 4 <=> i \in {0, 7}
             /\ f[i] = 10 <=> i \in {56, 63}
             /\ f[i] \in {1, 2} => RankOf(i) \in {0, 1}
             /\ RankOf(i) \in {6, 7} => f[i] \in 7..12
  <2>1. RankOf(i) \in 0..7 /\ i \in 0..63
    BY SquareOf DEF Square
  <2>2. i = 4 \/ i \in {0, 7} => RankOf(i) = 0
    BY DEF RankOf
  <2>3. i = 60 \/ i \in {56, 63} => RankOf(i) = 7
    BY DEF RankOf
  <2>. HIDE DEF f
  <2>4. /\ RankOf(i) = 0 => f[i] \in 2..6 /\ (f[i] = 6 <=> i = 4)
                             /\ (f[i] = 4 <=> i \in {0, 7})
        /\ RankOf(i) = 7 => f[i] \in 8..12 /\ (f[i] = 12 <=> i = 60)
                             /\ (f[i] = 10 <=> i \in {56, 63})
        /\ RankOf(i) = 1 => f[i] = 1
        /\ RankOf(i) = 6 => f[i] = 7
        /\ RankOf(i) \in 2..5 => f[i] = 0
    BY OpeningBoard DEF f, King, Rook, Make, Pawn, EMPTY
  <2>. QED
    BY <2>1, <2>2, <2>3, <2>4
<1>. HIDE DEF f
<1>4. Kings(f, 0) = {4} /\ Kings(f, 1) = {60}
  BY <1>3 DEF Kings, Make, King, Square
<1>5. KingSquare(f, 1) = 60
  BY <1>4, TheKing DEF Square
<1>6. ~IsSquareAttacked(f, 60, 0)
  <2>1. 60 = Sq(4, HomeRank(1)) /\ 1 - 1 = 0
    BY DEF Sq, HomeRank
  <2>2. ASSUME NEW i \in Square, Dist(RankOf(i), HomeRank(1)) =< 1
        PROVE  f[i] # EMPTY /\ Color(f[i]) = 1
    BY <1>3, <2>2 DEF Dist, HomeRank, EMPTY, Color
  <2>3. ASSUME NEW i \in Square, NEW kind \in {Pawn, Knight, King}, f[i] = Make(kind, 0)
        PROVE  Dist(RankOf(i), HomeRank(1)) > 3
    <3>1. RankOf(i) \in {0, 1}
      <4>1. f[i] \in {1, 2, 6}
        BY <2>3 DEF Make, Pawn, Knight, King
      <4>2. RankOf(4) = 0
        BY DEF RankOf
      <4>. QED
        BY <1>3, <4>1, <4>2
    <3>. QED
      BY <3>1 DEF Dist, HomeRank
  <2>. QED
    BY <2>1, <2>2, <2>3, HomeKingsSafe
<1>7. KingsInOrder(Initial)
  <2>1. ~InCheck(f, 1)
    BY <1>5, <1>6 DEF InCheck
  <2>. QED
    BY <1>1, <1>4, <2>1 DEF KingsInOrder, f, Square
<1>8. TargetInOrder(Initial)
  BY <1>1 DEF TargetInOrder
<1>9. RightsInOrder(Initial)
  <2>1. f[4] = 6 /\ f[60] = 12 /\ f[0] = 4 /\ f[7] = 4 /\ f[56] = 10 /\ f[63] = 10
    BY <1>3 DEF Square
  <2>. QED
    BY <1>1, <2>1 DEF RightsInOrder, Rights, Home, Make, King, Rook, f
<1>. QED
  BY <1>2, <1>7, <1>8, <1>9 DEF InOrder

\* ... and the side to move has a move in it, a2-a3, and a pawn to promote.
LEMMA OpeningGoesOn == AnyLegal(Initial) /\ Initial.squares[8] = Pawn
<1>. DEFINE f == Initial.squares
            g == [f EXCEPT ![8] = EMPTY, ![16] = Pawn]
<1>1. /\ f \in [Square -> 0..12] /\ Initial.side_to_move = 0
      /\ Initial.en_passant = None
  BY OpeningBoard DEF Initial
<1>2. ASSUME NEW i \in Square
      PROVE  /\ RankOf(i) \in 0..7
             /\ f[i] = 6 <=> i = 4
             /\ RankOf(i) \in {0, 1} => f[i] \in 1..6
             /\ f[i] \in {7, 8, 12} => RankOf(i) \in {6, 7}
  <2>1. RankOf(i) \in 0..7 /\ (i = 4 => RankOf(i) = 0)
    BY SquareOf DEF RankOf
  <2>. HIDE DEF f
  <2>2. /\ RankOf(i) = 0 => f[i] \in 2..6 /\ (f[i] = 6 <=> i = 4)
        /\ RankOf(i) = 7 => f[i] \in 8..12
        /\ RankOf(i) = 1 => f[i] = 1
        /\ RankOf(i) = 6 => f[i] = 7
        /\ RankOf(i) \in 2..5 => f[i] = 0
    BY OpeningBoard DEF f, King, Make, Pawn, EMPTY
  <2>. QED
    BY <2>1, <2>2
<1>3. f[8] = Pawn /\ f[16] = EMPTY /\ 8 \in Square /\ 16 \in Square
  <2>1. 8 \in Square /\ 16 \in Square /\ RankOf(8) = 1 /\ RankOf(16) = 2
    BY DEF Square, RankOf
  <2>. QED
    BY <2>1, OpeningBoard
<1>. HIDE DEF f
<1>4. /\ g[8] = EMPTY /\ g[16] = Pawn
      /\ \A i \in Square \ {8, 16} : g[i] = f[i]
  BY <1>1, <1>3
<1>5. Moved(Initial, 8, 16, 0) = g
  BY <1>1, <1>3 DEF Moved, f, IsEnPassant, EnPassant, IsCastle, Promotes, Kind, Pawn, King,
                    None, RankOf, LastRank
<1>. HIDE DEF g
<1>6. Kings(g, 0) = {4}
  BY <1>2, <1>4 DEF Kings, Make, King, Square, EMPTY, Pawn
<1>7. ~IsSquareAttacked(g, 4, 1)
  <2>1. 4 = Sq(4, HomeRank(0)) /\ 1 - 0 = 1 /\ Sq(0, StartRank(0)) = 8
    BY DEF Sq, HomeRank, StartRank
  <2>2. ASSUME NEW i \in Square, Dist(RankOf(i), HomeRank(0)) =< 1, i # 8
        PROVE  g[i] # EMPTY /\ Color(g[i]) = 0
    <3>1. RankOf(i) \in {0, 1} /\ i # 16
      BY <1>2, <2>2 DEF Dist, HomeRank, RankOf
    <3>. QED
      BY <1>2, <1>4, <2>2, <3>1 DEF EMPTY, Color
  <2>3. ASSUME NEW i \in Square, NEW kind \in {Pawn, Knight, King}, g[i] = Make(kind, 1)
        PROVE  Dist(RankOf(i), HomeRank(0)) > 3
    <3>1. g[i] \in {7, 8, 12}
      BY <2>3 DEF Make, Pawn, Knight, King
    <3>2. f[i] \in {7, 8, 12}
      BY <1>4, <3>1 DEF EMPTY, Pawn
    <3>3. RankOf(i) \in {6, 7}
      BY <1>2, <3>2
    <3>. QED
      BY <3>3 DEF Dist, HomeRank
  <2>. QED
    BY <2>1, <2>2, <2>3, HomeKingsSafe
<1>8. KingSafe(Initial, 8, 16, 0)
  <2>1. KingSquare(g, 0) = 4
    BY <1>6, TheKing DEF Square
  <2>. QED
    BY <1>1, <1>5, <1>6, <1>7, <2>1 DEF KingSafe, InCheck
<1>9. Legal(Initial, 8, 16, 0)
  <2>1. Kind(f[8]) = Pawn /\ Color(f[8]) = 0 /\ f[8] # EMPTY /\ RankOf(16) # LastRank(0)
    BY <1>3 DEF Kind, Color, Pawn, EMPTY, RankOf, LastRank
  <2>2. Shape(Initial, 8, 16)
    BY <1>1, <1>3, <2>1 DEF Shape, ValidatePawn, Dir, f
  <2>3. PromotionOk(Initial, 8, 16, 0)
    BY <1>1, <2>1 DEF PromotionOk, Promotes
  <2>4. Kings(Moved(Initial, 8, 16, 0), 1 - 0) # {}
    <3>1. 60 \in Square /\ RankOf(60) = 7
      BY DEF Square, RankOf
    <3>2. f[60] = Make(King, 1)
      BY <3>1, OpeningBoard DEF f
    <3>3. g[60] = Make(King, 1)
      BY <1>4, <3>1, <3>2
    <3>. QED
      BY <1>5, <3>1, <3>3 DEF Kings
  <2>. QED
    BY <1>1, <1>3, <1>8, <2>1, <2>2, <2>3, <2>4 DEF Legal, f
<1>10. AnyLegal(Initial)
  <2>1. 0 \in Promos(Initial, 8, 16)
    BY <1>1 DEF Promos, Promotes, RankOf, LastRank
  <2>. QED
    BY <1>3, <1>9, <2>1 DEF AnyLegal, Legal
<1>. QED
  BY <1>3, <1>10 DEF f

-----------------------------------------------------------------------------
(* Entries of the history.                                                *)

\* The three fields of a packed move do not overlap.
LEMMA PackUnpack ==
  ASSUME NEW from \in Square, NEW to \in Square, NEW promotion \in 0..15
  PROVE  Unpack(Pack(from, to, promotion)) =
           [from |-> from, to |-> to, promotion |-> promotion]
<1>. DEFINE packed16 == promotion * 4096 + to * 64 + from
<1>1. packed16 \in Nat /\ packed16 < 65536
  BY DEF Square
<1>2. Pack(from, to, promotion) = packed16
  <2>1. \A n \in Nat : n < 65536 => n % 65536 = n
    OBVIOUS
  <2>2. Pack(from, to, promotion) = packed16 % 65536
    <3>1. MAX_U16 + 1 = 65536
      BY DEF MAX_U16
    <3>. QED
      BY <3>1 DEF Pack
  <2>. HIDE DEF packed16
  <2>. QED
    BY <1>1, <2>1, <2>2
<1>3. packed16 % 64 = from
  BY DEF Square
<1>4. packed16 \div 64 = promotion * 64 + to
  BY DEF Square
<1>5. (packed16 \div 64) % 64 = to
  BY <1>4 DEF Square
<1>6. packed16 \div 4096 = promotion
  BY DEF Square
<1>7. promotion % 16 = promotion
  OBVIOUS
<1>. HIDE DEF packed16
<1>. QED
  BY <1>2, <1>3, <1>5, <1>6, <1>7 DEF Unpack

\* A legal move promotes to a piece that fits in the four bits, if at all.
LEMMA LegalPromotion ==
  ASSUME NEW s, NEW from, NEW to, NEW promotion, Legal(s, from, to, promotion)
  PROVE  promotion \in 0..15
BY DEF Legal, PromotionOk, Knight, Bishop, Rook, Queen

\* What a legal move packs into an entry comes out of it again.
LEMMA EntryTells ==
  ASSUME NEW s, NEW from \in Square, NEW to \in Square, NEW promotion,
         Legal(s, from, to, promotion)
  PROVE  Unpack(Pack(from, to, promotion)) =
           [from |-> from, to |-> to, promotion |-> promotion]
BY LegalPromotion, PackUnpack

-----------------------------------------------------------------------------
(* The engine's numbers against the laws' coordinates.                     *)

Directions == Diagonals \cup Orthogonals

\* What a direction adds to file and rank.
FileStep(d) == IF d \in {1, 9, -7} THEN 1 ELSE IF d \in {-1, 7, -9} THEN -1 ELSE 0
RankStep(d) == IF d > 1 THEN 1 ELSE IF d < -1 THEN -1 ELSE 0

\* The engine's eight directions are the steps to the eight neighbours.
LEMMA Steps ==
  ASSUME NEW d \in Directions
  PROVE  /\ d \in Int /\ d = FileStep(d) + 8 * RankStep(d)
         /\ FileStep(d) \in {-1, 0, 1} /\ RankStep(d) \in {-1, 0, 1}
         /\ d \in Diagonals <=> FileStep(d) # 0 /\ RankStep(d) # 0
         /\ d \in Orthogonals <=> FileStep(d) = 0 \/ RankStep(d) = 0
         /\ FileStep(d) # 0 \/ RankStep(d) # 0
BY DEF Directions, Diagonals, Orthogonals, FileStep, RankStep

\* ... and every such step is one of them.
LEMMA StepOf ==
  ASSUME NEW f \in {-1, 0, 1}, NEW r \in {-1, 0, 1}, f # 0 \/ r # 0
  PROVE  \E d \in Directions : FileStep(d) = f /\ RankStep(d) = r
<1>1. /\ f + 8 * r \in Directions
      /\ FileStep(f + 8 * r) = f /\ RankStep(f + 8 * r) = r
  BY DEF Directions, Diagonals, Orthogonals, FileStep, RankStep
<1>. QED
  BY <1>1

\* The square k steps away has the file and rank one would expect.
LEMMA WalkTo ==
  ASSUME NEW i \in Square, NEW d \in Directions, NEW k \in 0..7,
         FileOf(i) + k * FileStep(d) \in 0..7, RankOf(i) + k * RankStep(d) \in 0..7
  PROVE  /\ i + k * d \in Square
         /\ FileOf(i + k * d) = FileOf(i) + k * FileStep(d)
         /\ RankOf(i + k * d) = RankOf(i) + k * RankStep(d)
<1>1. i \in Int /\ i = RankOf(i) * 8 + FileOf(i) /\ FileOf(i) \in Int /\ RankOf(i) \in Int
  BY SquareOf DEF Sq, Square
<1>2. i + k * d = Sq(FileOf(i) + k * FileStep(d), RankOf(i) + k * RankStep(d))
  <2>1. k * d = k * FileStep(d) + 8 * (k * RankStep(d))
    <3>1. FileStep(d) \in {-1, 0, 1} /\ RankStep(d) \in {-1, 0, 1}
          /\ d = FileStep(d) + 8 * RankStep(d)
      BY Steps
    <3>. QED
      BY <3>1
  <2>2. k * FileStep(d) \in Int /\ k * RankStep(d) \in Int
    BY Steps
  <2>. QED
    BY <1>1, <2>1, <2>2 DEF Sq
<1>. QED
  BY <1>2, FileAndRank

\* The edge test stops a ray exactly where it leaves the board.
LEMMA StepOn ==
  ASSUME NEW p \in Square, NEW d \in Directions,
         p + d \in Square, ~CrossesEdge(p, p + d)
  PROVE  FileOf(p) + FileStep(d) \in 0..7 /\ RankOf(p) + RankStep(d) \in 0..7
<1>1. /\ FileOf(p) \in 0..7 /\ RankOf(p) \in 0..7 /\ p = RankOf(p) * 8 + FileOf(p)
      /\ FileOf(p + d) \in 0..7 /\ RankOf(p + d) \in 0..7
      /\ p + d = RankOf(p + d) * 8 + FileOf(p + d)
  BY SquareOf DEF Sq
<1>2. /\ d \in Int /\ d = FileStep(d) + 8 * RankStep(d)
      /\ FileStep(d) \in {-1, 0, 1} /\ RankStep(d) \in {-1, 0, 1}
  BY Steps
<1>3. /\ FileOf(p) - FileOf(p + d) =< 1 /\ FileOf(p + d) - FileOf(p) =< 1
  BY <1>1 DEF CrossesEdge, Dist
<1>. QED
  BY <1>1, <1>2, <1>3

\* A ray from a square has a k-th step exactly if it is still on the board there.
LEMMA WalkOn ==
  ASSUME NEW i \in Square, NEW d \in Directions, NEW k \in 1..7
  PROVE  k \in Walk(i, d) <=> /\ FileOf(i) + k * FileStep(d) \in 0..7
                              /\ RankOf(i) + k * RankStep(d) \in 0..7
<1>. DEFINE On(j) == /\ FileOf(i) + j * FileStep(d) \in 0..7
                     /\ RankOf(i) + j * RankStep(d) \in 0..7
<1>1. /\ FileOf(i) \in 0..7 /\ RankOf(i) \in 0..7 /\ i \in Int /\ d \in Int
      /\ FileStep(d) \in {-1, 0, 1} /\ RankStep(d) \in {-1, 0, 1}
  BY SquareOf, Steps DEF Square
<1>2. \A j \in 0..7 : On(j) => /\ i + j * d \in Square
                               /\ FileOf(i + j * d) = FileOf(i) + j * FileStep(d)
                               /\ RankOf(i + j * d) = RankOf(i) + j * RankStep(d)
  BY WalkTo
<1>3. ASSUME On(k) PROVE k \in Walk(i, d)
  <2>1. ASSUME NEW j \in 0..k PROVE On(j)
    <3>1. \A e \in {-1, 0, 1} : \A n \in Int :
            n * e = IF e = 1 THEN n ELSE IF e = -1 THEN -n ELSE 0
      OBVIOUS
    <3>2. \A a \in 0..7, e \in {-1, 0, 1} : a + k * e \in 0..7 => a + j * e \in 0..7
      BY <3>1
    <3>. QED
      BY <1>1, <1>3, <3>2
  <2>2. ASSUME NEW j \in 1..k
        PROVE  i + j * d \in Square /\ ~CrossesEdge(i + (j - 1) * d, i + j * d)
    <3>1. On(j) /\ On(j - 1) /\ j \in 0..7 /\ j - 1 \in 0..7
      BY <2>1
    <3>2. /\ i + j * d \in Square
          /\ FileOf(i + j * d) = FileOf(i) + j * FileStep(d)
          /\ FileOf(i + (j - 1) * d) = FileOf(i) + (j - 1) * FileStep(d)
      BY <1>2, <3>1
    <3>3. Dist(FileOf(i) + (j - 1) * FileStep(d), FileOf(i) + j * FileStep(d)) =< 1
      BY <1>1 DEF Dist
    <3>. DEFINE p == i + (j - 1) * d
                q == i + j * d
    <3>4. q \in Square /\ Dist(FileOf(p), FileOf(q)) =< 1
      BY <3>2, <3>3
    <3>5. Dist(FileOf(p), FileOf(q)) \in Int
      BY <1>1, <3>2 DEF Dist
    <3>. HIDE DEF p, q
    <3>6. ~CrossesEdge(p, q)
      BY <3>4, <3>5 DEF CrossesEdge
    <3>. QED
      BY <3>4, <3>6 DEF p, q
  <2>. QED
    BY <2>2 DEF Walk
<1>4. ASSUME k \in Walk(i, d) PROVE On(k)
  <2>1. ASSUME NEW j \in 0..6, j + 1 =< k, On(j) PROVE On(j + 1)
    <3>. DEFINE p == i + j * d
    <3>1. /\ p \in Square /\ FileOf(p) = FileOf(i) + j * FileStep(d)
          /\ RankOf(p) = RankOf(i) + j * RankStep(d)
      BY <1>2, <2>1
    <3>2. i + (j + 1) * d \in Square /\ ~CrossesEdge(i + (j + 1 - 1) * d, i + (j + 1) * d)
      BY <1>4, <2>1 DEF Walk
    <3>3. i + (j + 1) * d = p + d /\ i + (j + 1 - 1) * d = p
      BY <1>1 DEF Directions, Diagonals, Orthogonals
    <3>. HIDE DEF p
    <3>4. FileOf(p) + FileStep(d) \in 0..7 /\ RankOf(p) + RankStep(d) \in 0..7
      BY <3>1, <3>2, <3>3, StepOn
    <3>5. /\ (j + 1) * FileStep(d) = j * FileStep(d) + FileStep(d)
          /\ (j + 1) * RankStep(d) = j * RankStep(d) + RankStep(d)
          /\ j * FileStep(d) \in Int /\ j * RankStep(d) \in Int
      BY <1>1
    <3>6. /\ FileOf(i) + (j + 1) * FileStep(d) = FileOf(p) + FileStep(d)
          /\ RankOf(i) + (j + 1) * RankStep(d) = RankOf(p) + RankStep(d)
      <4>. DEFINE x == j * FileStep(d)
                  y == j * RankStep(d)
      <4>1. x \in Int /\ y \in Int
        BY <3>5
      <4>. HIDE DEF x, y
      <4>2. /\ (j + 1) * FileStep(d) = x + FileStep(d) /\ FileOf(p) = FileOf(i) + x
            /\ (j + 1) * RankStep(d) = y + RankStep(d) /\ RankOf(p) = RankOf(i) + y
        BY <3>1, <3>5 DEF x, y
      <4>. QED
        BY <1>1, <4>1, <4>2
    <3>. QED
      BY <3>4, <3>6
  <2>2. On(0)
    BY <1>1
  <2>. HIDE DEF On
  <2>3. On(1)
    BY <2>1, <2>2
  <2>4. k >= 2 => On(2)
    BY <2>1, <2>3
  <2>5. k >= 3 => On(3)
    BY <2>1, <2>4
  <2>6. k >= 4 => On(4)
    BY <2>1, <2>5
  <2>7. k >= 5 => On(5)
    BY <2>1, <2>6
  <2>8. k >= 6 => On(6)
    BY <2>1, <2>7
  <2>9. k >= 7 => On(7)
    BY <2>1, <2>8
  <2>. QED
    BY <2>3, <2>4, <2>5, <2>6, <2>7, <2>8, <2>9
<1>. QED
  BY <1>3, <1>4

-----------------------------------------------------------------------------
(* Lines of sight.                                                         *)

\* A piece of the engine as the laws name it.
Face(p) == IF p = EMPTY THEN Rules!Nothing
           ELSE [kind |-> KindName(Kind(p)), color |-> ColorName(Color(p))]

\* b is the engine's board, seen through coordinates.
Shows(b, squares) == /\ \A i \in Square : squares[i] \in 0..12
                     /\ \A i \in Square : b[Coord(i)] = Face(squares[i])

\* A square has two coordinates, which tell it.
LEMMA CoordOf ==
  ASSUME NEW i \in Square
  PROVE  /\ Coord(i) \in Rules!Coords
         /\ Coord(i)[1] = FileOf(i) + 1 /\ Coord(i)[2] = RankOf(i) + 1
         /\ \A j \in Square : Coord(i) = Coord(j) <=> i = j
<1>1. Coord(i)[1] = FileOf(i) + 1 /\ Coord(i)[2] = RankOf(i) + 1
  BY DEF Coord
<1>2. Coord(i) \in Rules!Coords
  BY SquareOf DEF Coord, Rules!Coords
<1>3. \A j \in Square : Coord(i) = Coord(j) => FileOf(i) = FileOf(j) /\ RankOf(i) = RankOf(j)
  BY SquareOf DEF Coord
<1>. QED
  BY <1>1, <1>2, <1>3, SquareOf

\* Every pair of coordinates is a square's.
LEMMA SquareAt ==
  ASSUME NEW x \in Rules!Coords
  PROVE  Sq(x[1] - 1, x[2] - 1) \in Square /\ Coord(Sq(x[1] - 1, x[2] - 1)) = x
<1>1. x[1] - 1 \in 0..7 /\ x[2] - 1 \in 0..7 /\ x = <<x[1], x[2]>>
  BY DEF Rules!Coords
<1>. QED
  BY <1>1, FileAndRank DEF Coord

\* The kinds have six names.
LEMMA KindNames ==
  /\ KindName(Pawn) = "pawn" /\ KindName(Knight) = "knight" /\ KindName(Bishop) = "bishop"
  /\ KindName(Rook) = "rook" /\ KindName(Queen) = "queen" /\ KindName(King) = "king"
  /\ KindName(EMPTY) = "none"
BY DEF KindName, Pawn, Knight, Bishop, Rook, Queen, King, EMPTY

\* A face tells the piece.
LEMMA Faces ==
  ASSUME NEW p \in 0..12
  PROVE  /\ Face(p) = Rules!Nothing <=> p = EMPTY
         /\ \A c \in {0, 1} : Face(p).color = ColorName(c) <=> p # EMPTY /\ Color(p) = c
         /\ \A k \in {Pawn, Knight, Bishop, Rook, Queen, King} :
              Face(p).kind = KindName(k) <=> p # EMPTY /\ Kind(p) = k
<1>1. p # EMPTY => /\ Color(p) \in {0, 1}
                   /\ Kind(p) \in {Pawn, Knight, Bishop, Rook, Queen, King}
  BY PieceOf
<1>2. \A k, l \in {Pawn, Knight, Bishop, Rook, Queen, King} :
        KindName(k) # "none" /\ (KindName(k) = KindName(l) => k = l)
  BY KindNames
<1>3. \A c, e \in {0, 1} : ColorName(c) # "none" /\ (ColorName(c) = ColorName(e) => c = e)
  BY DEF ColorName
<1>4. CASE p = EMPTY
  BY <1>2, <1>3, <1>4 DEF Face, Rules!Nothing
<1>5. CASE p # EMPTY
  <2>1. Face(p) = [kind |-> KindName(Kind(p)), color |-> ColorName(Color(p))]
    BY <1>5 DEF Face
  <2>. QED
    BY <1>1, <1>2, <1>3, <1>5, <2>1 DEF Rules!Nothing
<1>. QED
  BY <1>4, <1>5

\* j lies k steps from i in direction d.
Along(i, j, d, k) == /\ FileOf(j) = FileOf(i) + k * FileStep(d)
                     /\ RankOf(j) = RankOf(i) + k * RankStep(d)

\* Small multiples, without products.
LEMMA SmallProduct ==
  \A e \in {-1, 0, 1} : \A n \in Int : n * e = IF e = 1 THEN n ELSE IF e = -1 THEN -n ELSE 0
OBVIOUS

\* What the laws measure between two squares of a line.
LEMMA Measures ==
  ASSUME NEW i \in Square, NEW j \in Square, NEW d \in Directions, NEW k \in 1..7,
         Along(i, j, d, k)
  PROVE  LET x == Coord(i) y == Coord(j) IN
         /\ Rules!Longest(x, y) = k
         /\ Rules!Sign(Rules!DX(x, y)) = FileStep(d)
         /\ Rules!Sign(Rules!DY(x, y)) = RankStep(d)
         /\ Rules!Diagonal(x, y) <=> d \in Diagonals
         /\ Rules!Straight(x, y) <=> d \in Orthogonals
<1>. DEFINE x == Coord(i)
            y == Coord(j)
<1>1. /\ FileStep(d) \in {-1, 0, 1} /\ RankStep(d) \in {-1, 0, 1}
      /\ FileStep(d) # 0 \/ RankStep(d) # 0
      /\ d \in Diagonals <=> FileStep(d) # 0 /\ RankStep(d) # 0
      /\ d \in Orthogonals <=> FileStep(d) = 0 \/ RankStep(d) = 0
  BY Steps
<1>2. /\ Rules!DX(x, y) = k * FileStep(d) /\ Rules!DY(x, y) = k * RankStep(d)
  <2>1. FileOf(i) \in Int /\ RankOf(i) \in Int /\ k * FileStep(d) \in Int /\ k * RankStep(d) \in Int
    BY <1>1, SquareOf
  <2>. QED
    BY <2>1, CoordOf DEF Rules!DX, Rules!DY, Along
<1>3. /\ Rules!DX(x, y) = IF FileStep(d) = 1 THEN k ELSE IF FileStep(d) = -1 THEN -k ELSE 0
      /\ Rules!DY(x, y) = IF RankStep(d) = 1 THEN k ELSE IF RankStep(d) = -1 THEN -k ELSE 0
  BY <1>1, <1>2, SmallProduct
<1>. HIDE DEF x, y
<1>. QED
  BY <1>1, <1>3 DEF Rules!Longest, Rules!Sign, Rules!Abs, Rules!Diagonal, Rules!Straight, x, y

\* Two squares the laws find on a line are some steps of a direction apart.
LEMMA LineOf ==
  ASSUME NEW i \in Square, NEW j \in Square, i # j,
         Rules!Straight(Coord(i), Coord(j)) \/ Rules!Diagonal(Coord(i), Coord(j))
  PROVE  \E d \in Directions : \E k \in 1..7 : Along(i, j, d, k)
<1>. DEFINE x == Coord(i)
            y == Coord(j)
            f == Rules!Sign(Rules!DX(x, y))
            r == Rules!Sign(Rules!DY(x, y))
            k == Rules!Longest(x, y)
<1>1. /\ FileOf(i) \in 0..7 /\ RankOf(i) \in 0..7 /\ FileOf(j) \in 0..7 /\ RankOf(j) \in 0..7
      /\ FileOf(i) # FileOf(j) \/ RankOf(i) # RankOf(j)
  BY SquareOf
<1>2. Rules!DX(x, y) = FileOf(j) - FileOf(i) /\ Rules!DY(x, y) = RankOf(j) - RankOf(i)
  BY <1>1, CoordOf DEF Rules!DX, Rules!DY
<1>3. /\ f \in {-1, 0, 1} /\ r \in {-1, 0, 1} /\ k \in 1..7
      /\ f # 0 \/ r # 0
      /\ FileOf(j) - FileOf(i) = (IF f = 1 THEN k ELSE IF f = -1 THEN -k ELSE 0)
      /\ RankOf(j) - RankOf(i) = (IF r = 1 THEN k ELSE IF r = -1 THEN -k ELSE 0)
  BY <1>1, <1>2 DEF Rules!Longest, Rules!Sign, Rules!Abs, Rules!Diagonal, Rules!Straight
<1>. HIDE DEF f, r, k
<1>4. PICK d \in Directions : FileStep(d) = f /\ RankStep(d) = r
  BY <1>3, StepOf
<1>5. /\ k * FileStep(d) = FileOf(j) - FileOf(i)
      /\ k * RankStep(d) = RankOf(j) - RankOf(i)
  <2>1. k \in Int /\ FileStep(d) \in {-1, 0, 1} /\ RankStep(d) \in {-1, 0, 1}
    BY <1>3, <1>4
  <2>2. /\ k * FileStep(d) = IF f = 1 THEN k ELSE IF f = -1 THEN -k ELSE 0
        /\ k * RankStep(d) = IF r = 1 THEN k ELSE IF r = -1 THEN -k ELSE 0
    BY <1>4, <2>1, SmallProduct
  <2>. QED
    BY <1>3, <2>2
<1>6. Along(i, j, d, k)
  BY <1>1, <1>5 DEF Along
<1>. QED
  BY <1>3, <1>4, <1>6

\* A ray meets a square exactly if it lies along the direction.
LEMMA RayMeets ==
  ASSUME NEW i \in Square, NEW j \in Square, NEW d \in Directions, NEW k \in 1..7
  PROVE  k \in Ray[i][d] /\ i + k * d = j <=> Along(i, j, d, k)
<1>1. Ray[i][d] = Walk(i, d)
  BY DEF Ray, Directions
<1>2. ASSUME Along(i, j, d, k) PROVE k \in Walk(i, d) /\ i + k * d = j
  <2>1. /\ FileOf(i) + k * FileStep(d) \in 0..7 /\ RankOf(i) + k * RankStep(d) \in 0..7
    BY <1>2, SquareOf DEF Along
  <2>2. k \in Walk(i, d)
    BY <2>1, WalkOn
  <2>3. /\ i + k * d \in Square /\ FileOf(i + k * d) = FileOf(j)
        /\ RankOf(i + k * d) = RankOf(j)
    BY <1>2, <2>1, WalkTo DEF Along
  <2>4. \A p, q \in Square : FileOf(p) = FileOf(q) /\ RankOf(p) = RankOf(q) => p = q
    BY SquareOf
  <2>. QED
    BY <2>2, <2>3, <2>4
<1>3. ASSUME k \in Walk(i, d), i + k * d = j PROVE Along(i, j, d, k)
  <2>1. /\ FileOf(i) + k * FileStep(d) \in 0..7 /\ RankOf(i) + k * RankStep(d) \in 0..7
    BY <1>3, WalkOn
  <2>. QED
    BY <1>3, <2>1, WalkTo DEF Along
<1>. QED
  BY <1>1, <1>2, <1>3

\* The squares a ray has passed before it meets a square are the ones between.
LEMMA PassedIsBetween ==
  ASSUME NEW i \in Square, NEW j \in Square, NEW d \in Directions, NEW k \in 1..7,
         Along(i, j, d, k)
  PROVE  /\ \A n \in 1..(k - 1) : i + n * d \in Square
         /\ Rules!Between(Coord(i), Coord(j)) = {Coord(i + n * d) : n \in 1..(k - 1)}
<1>. DEFINE x == Coord(i)
            y == Coord(j)
<1>1. /\ FileStep(d) \in {-1, 0, 1} /\ RankStep(d) \in {-1, 0, 1}
      /\ FileOf(i) \in 0..7 /\ RankOf(i) \in 0..7
      /\ FileOf(i) + k * FileStep(d) \in 0..7 /\ RankOf(i) + k * RankStep(d) \in 0..7
  BY Steps, SquareOf DEF Along
<1>2. \A e \in {-1, 0, 1}, a \in 0..7, n \in 1..(k - 1) :
        a + k * e \in 0..7 => a + n * e \in 0..7
  BY SmallProduct
<1>3. ASSUME NEW n \in 1..(k - 1)
      PROVE  /\ i + n * d \in Square
             /\ Coord(i + n * d) = <<x[1] + n * FileStep(d), x[2] + n * RankStep(d)>>
  <2>1. /\ FileOf(i) + n * FileStep(d) \in 0..7 /\ RankOf(i) + n * RankStep(d) \in 0..7
    BY <1>1, <1>2
  <2>2. /\ i + n * d \in Square /\ FileOf(i + n * d) = FileOf(i) + n * FileStep(d)
        /\ RankOf(i + n * d) = RankOf(i) + n * RankStep(d)
    <3>1. n \in 0..7
      OBVIOUS
    <3>. QED
      BY <2>1, <3>1, WalkTo
  <2>3. n * FileStep(d) \in Int /\ n * RankStep(d) \in Int
    BY <1>1
  <2>4. /\ FileOf(i + n * d) + 1 = FileOf(i) + 1 + n * FileStep(d)
        /\ RankOf(i + n * d) + 1 = RankOf(i) + 1 + n * RankStep(d)
    BY <1>1, <2>2, <2>3
  <2>. QED
    BY <2>2, <2>4 DEF Coord
<1>4. Rules!Between(x, y) =
        {<<x[1] + n * FileStep(d), x[2] + n * RankStep(d)>> : n \in 1..(k - 1)}
  BY Measures DEF Rules!Between
<1>. HIDE DEF x, y
<1>5. Rules!Between(x, y) = {Coord(i + n * d) : n \in 1..(k - 1)}
  BY <1>3, <1>4
<1>. QED
  BY <1>3, <1>5 DEF x, y

\* One of the rays from i meets j with nothing in between.
Reaches(squares, i, j, dirs) ==
  \E d \in dirs : \E k \in Ray[i][d] : i + k * d = j /\ Clear(squares, i, d, k)

\* The engine's rays are the laws' open lines.
LEMMA ReachesIsSight ==
  ASSUME NEW b, NEW squares, Shows(b, squares), NEW i \in Square, NEW j \in Square, i # j
  PROVE  LET x == Coord(i) y == Coord(j)
             open == \A z \in Rules!Between(x, y) : b[z] = Rules!Nothing
         IN /\ Reaches(squares, i, j, Diagonals) <=> Rules!Diagonal(x, y) /\ open
            /\ Reaches(squares, i, j, Orthogonals) <=> Rules!Straight(x, y) /\ open
<1>. DEFINE x == Coord(i)
            y == Coord(j)
            open == \A z \in Rules!Between(x, y) : b[z] = Rules!Nothing
<1>1. Directions = Diagonals \cup Orthogonals
  BY DEF Directions
<1>2. ASSUME NEW d \in Directions, NEW k \in 1..7, Along(i, j, d, k)
      PROVE  Clear(squares, i, d, k) <=> open
  <2>1. /\ \A n \in 1..(k - 1) : i + n * d \in Square
        /\ Rules!Between(x, y) = {Coord(i + n * d) : n \in 1..(k - 1)}
    BY <1>2, PassedIsBetween
  <2>2. \A p \in Square : b[Coord(p)] = Rules!Nothing <=> squares[p] = EMPTY
    BY Faces DEF Shows
  <2>. HIDE DEF x, y
  <2>. QED
    BY <2>1, <2>2 DEF Clear
<1>3. \A d \in Directions : Ray[i][d] \subseteq 1..7
  BY DEF Ray, Directions, Walk
<1>4. ASSUME NEW dirs \in SUBSET Directions
      PROVE  Reaches(squares, i, j, dirs) <=>
               open /\ \E d \in dirs : \E k \in 1..7 : Along(i, j, d, k)
  <2>. HIDE DEF open
  <2>. QED
    BY <1>2, <1>3, RayMeets DEF Reaches
<1>5. ASSUME NEW d \in Directions, NEW k \in 1..7, Along(i, j, d, k)
      PROVE  /\ Rules!Diagonal(x, y) <=> d \in Diagonals
             /\ Rules!Straight(x, y) <=> d \in Orthogonals
  BY <1>5, Measures
<1>6. Rules!Straight(x, y) \/ Rules!Diagonal(x, y) =>
        \E d \in Directions : \E k \in 1..7 : Along(i, j, d, k)
  BY LineOf
<1>. HIDE DEF x, y, open
<1>. QED
  BY <1>1, <1>4, <1>5, <1>6 DEF x, y, open

-----------------------------------------------------------------------------
(* Attacks.                                                                *)

\* What the validators ask of a piece on i that may capture on t.
Hits(squares, i, t) ==
  LET kind == Kind(squares[i]) IN
  \/ /\ kind = Pawn /\ t - i - Dir(Color(squares[i])) \in {1, -1}
     /\ Dist(FileOf(i), FileOf(t)) = 1
  \/ kind = Knight /\ KnightShape(i, t)
  \/ kind = Bishop /\ Reaches(squares, i, t, Diagonals)
  \/ kind = Rook /\ Reaches(squares, i, t, Orthogonals)
  \/ kind = Queen /\ Reaches(squares, i, t, Orthogonals \cup Diagonals)
  \/ kind = King /\ OneStep(i, t)

\* A queen goes like a rook or like a bishop.
LEMMA QueenReaches ==
  ASSUME NEW squares, NEW i, NEW t
  PROVE  Reaches(squares, i, t, Orthogonals \cup Diagonals) <=>
           Reaches(squares, i, t, Orthogonals) \/ Reaches(squares, i, t, Diagonals)
BY DEF Reaches

\* The shape of a knight's move, by the product of its two distances.
LEMMA Product ==
  ASSUME NEW u \in 0..7, NEW v \in 0..7
  PROVE  u * v = 2 <=> (u = 1 /\ v = 2) \/ (u = 2 /\ v = 1)
<1>1. u = 0 \/ u = 1 \/ u = 2 \/ u >= 3
  OBVIOUS
<1>2. CASE u >= 3
  <2>1. CASE v = 0
    BY <1>2, <2>1
  <2>2. CASE v >= 1
    <3>1. u * v >= u
      BY <2>2, <1>2
    <3>. QED
      BY <1>2, <3>1
  <2>. QED
    BY <2>1, <2>2
<1>. QED
  BY <1>1, <1>2

\* The engine and the laws agree on what a piece attacks.
LEMMA HitsIsAttack ==
  ASSUME NEW b, NEW squares, Shows(b, squares), NEW i \in Square, NEW t \in Square,
         squares[i] # EMPTY
  PROVE  Rules!Attacks(b, Coord(i), Coord(t)) <=> i # t /\ Hits(squares, i, t)
<1>. DEFINE x == Coord(i)
            y == Coord(t)
            p == squares[i]
            dx == FileOf(t) - FileOf(i)
            dy == RankOf(t) - RankOf(i)
            abs(n) == IF n < 0 THEN -n ELSE n
<1>1. /\ FileOf(i) \in 0..7 /\ RankOf(i) \in 0..7 /\ FileOf(t) \in 0..7 /\ RankOf(t) \in 0..7
      /\ i = RankOf(i) * 8 + FileOf(i) /\ t = RankOf(t) * 8 + FileOf(t)
  BY SquareOf DEF Sq
<1>2. /\ Rules!DX(x, y) = dx /\ Rules!DY(x, y) = dy
      /\ Rules!Abs(dx) = abs(dx) /\ Rules!Abs(dy) = abs(dy)
      /\ Dist(FileOf(i), FileOf(t)) = abs(dx) /\ Dist(RankOf(i), RankOf(t)) = abs(dy)
  BY <1>1, CoordOf DEF Rules!DX, Rules!DY, Rules!Abs, Dist
<1>3. x = y <=> i = t
  BY CoordOf
<1>4. /\ b[x].kind = KindName(Kind(p)) /\ b[x].color = ColorName(Color(p))
      /\ Color(p) \in {0, 1} /\ Kind(p) \in {Pawn, Knight, Bishop, Rook, Queen, King}
  <2>1. p \in 0..12 /\ p # EMPTY /\ b[x] = Face(p)
    BY DEF Shows
  <2>. QED
    BY <2>1, PieceOf DEF Face
<1>. SUFFICES ASSUME i # t
              PROVE  Rules!Attacks(b, x, y) <=> Hits(squares, i, t)
  BY <1>3 DEF Rules!Attacks
<1>5. CASE Kind(p) = Pawn
  <2>1. Rules!Forward(b[x].color) = IF Color(p) = 0 THEN 1 ELSE -1
    BY <1>4 DEF Rules!Forward, ColorName
  <2>2. t - i - Dir(Color(p)) \in {1, -1} /\ abs(dx) = 1 <=>
          abs(dx) = 1 /\ dy = IF Color(p) = 0 THEN 1 ELSE -1
    BY <1>1, <1>4 DEF Dir
  <2>. HIDE DEF x, y, dx, dy, abs
  <2>3. Rules!Attacks(b, x, y) <=> abs(dx) = 1 /\ dy = IF Color(p) = 0 THEN 1 ELSE -1
    BY <1>2, <1>3, <1>4, <1>5, <2>1, KindNames DEF Rules!Attacks
  <2>4. Hits(squares, i, t) <=> t - i - Dir(Color(p)) \in {1, -1} /\ abs(dx) = 1
    BY <1>2, <1>5 DEF Hits, Pawn, Knight, Bishop, Rook, Queen, King
  <2>. QED
    BY <2>2, <2>3, <2>4
<1>6. CASE Kind(p) = Knight
  <2>1. Rules!Attacks(b, x, y) <=> abs(dx) * abs(dy) = 2
    <3>. HIDE DEF x, y, dx, dy, abs
    <3>. QED
      BY <1>2, <1>3, <1>4, <1>6, KindNames DEF Rules!Attacks
  <2>2. Hits(squares, i, t) <=> {abs(dx), abs(dy)} = {1, 2}
    <3>. HIDE DEF x, y, dx, dy, abs
    <3>. QED
      BY <1>2, <1>6 DEF Hits, KnightShape, Pawn, Knight, Bishop, Rook, Queen, King
  <2>3. abs(dx) \in 0..7 /\ abs(dy) \in 0..7
    BY <1>1
  <2>. HIDE DEF dx, dy, abs
  <2>4. {abs(dx), abs(dy)} = {1, 2} <=> (abs(dx) = 1 /\ abs(dy) = 2) \/ (abs(dx) = 2 /\ abs(dy) = 1)
    BY <2>3
  <2>5. abs(dx) * abs(dy) = 2 <=> (abs(dx) = 1 /\ abs(dy) = 2) \/ (abs(dx) = 2 /\ abs(dy) = 1)
    BY <2>3, Product
  <2>. QED
    BY <2>1, <2>2, <2>4, <2>5
<1>7. CASE Kind(p) = King
  <2>1. Rules!Attacks(b, x, y) <=> Rules!Longest(x, y) = 1
    <3>. HIDE DEF x, y, dx, dy, abs
    <3>. QED
      BY <1>3, <1>4, <1>7, KindNames DEF Rules!Attacks
  <2>2. Hits(squares, i, t) <=> abs(dx) =< 1 /\ abs(dy) =< 1
    <3>. HIDE DEF x, y, dx, dy, abs
    <3>. QED
      BY <1>2, <1>7 DEF Hits, OneStep, Pawn, Knight, Bishop, Rook, Queen, King
  <2>3. Rules!Longest(x, y) = 1 <=> abs(dx) =< 1 /\ abs(dy) =< 1
    <3>1. Rules!Longest(x, y) = IF abs(dx) > abs(dy) THEN abs(dx) ELSE abs(dy)
      BY <1>2 DEF Rules!Longest
    <3>. HIDE DEF x, y
    <3>. QED
      BY <1>1, <3>1
  <2>. QED
    BY <2>1, <2>2, <2>3
<1>8. CASE Kind(p) \in {Bishop, Rook, Queen}
  <2>. DEFINE open == \A z \in Rules!Between(x, y) : b[z] = Rules!Nothing
  <2>1. /\ Reaches(squares, i, t, Diagonals) <=> Rules!Diagonal(x, y) /\ open
        /\ Reaches(squares, i, t, Orthogonals) <=> Rules!Straight(x, y) /\ open
    BY ReachesIsSight
  <2>2. Rules!Attacks(b, x, y) <=>
          \/ Kind(p) = Bishop /\ Rules!Diagonal(x, y) /\ open
          \/ Kind(p) = Rook /\ Rules!Straight(x, y) /\ open
          \/ Kind(p) = Queen /\ (Rules!Straight(x, y) \/ Rules!Diagonal(x, y)) /\ open
    <3>1. Rules!Sees(b, x, y) <=> (Rules!Straight(x, y) \/ Rules!Diagonal(x, y)) /\ open
      BY DEF Rules!Sees
    <3>2. /\ b[x].kind = "bishop" <=> Kind(p) = Bishop
          /\ b[x].kind = "rook" <=> Kind(p) = Rook
          /\ b[x].kind = "queen" <=> Kind(p) = Queen
          /\ b[x].kind \notin {"pawn", "knight", "king"}
      BY <1>4, <1>8, KindNames DEF Bishop, Rook, Queen
    <3>. HIDE DEF x, y, open
    <3>. QED
      BY <1>3, <3>1, <3>2 DEF Rules!Attacks
  <2>3. Hits(squares, i, t) <=>
          \/ Kind(p) = Bishop /\ Reaches(squares, i, t, Diagonals)
          \/ Kind(p) = Rook /\ Reaches(squares, i, t, Orthogonals)
          \/ /\ Kind(p) = Queen
             /\ Reaches(squares, i, t, Orthogonals) \/ Reaches(squares, i, t, Diagonals)
    <3>1. Reaches(squares, i, t, Orthogonals \cup Diagonals) <=>
            Reaches(squares, i, t, Orthogonals) \/ Reaches(squares, i, t, Diagonals)
      BY QueenReaches
    <3>2. Kind(p) \notin {Pawn, Knight, King} /\ Bishop # Rook /\ Bishop # Queen /\ Rook # Queen
      BY <1>8 DEF Pawn, Knight, Bishop, Rook, Queen, King
    <3>. QED
      BY <1>8, <3>1, <3>2, Zenon DEF Hits
  <2>. HIDE DEF x, y, open
  <2>. QED
    BY <2>1, <2>2, <2>3
<1>. QED
  BY <1>4, <1>5, <1>6, <1>7, <1>8

\* Lines of sight are symmetric.
LEMMA SightBack ==
  ASSUME NEW squares, NEW i \in Square, NEW j \in Square,
         NEW dirs \in {Diagonals, Orthogonals}, Reaches(squares, i, j, dirs)
  PROVE  Reaches(squares, j, i, dirs)
<1>0. PICK d \in dirs : \E k \in Ray[i][d] : i + k * d = j /\ Clear(squares, i, d, k)
  BY DEF Reaches
<1>1. PICK k \in Ray[i][d] : i + k * d = j /\ Clear(squares, i, d, k)
  BY <1>0
<1>2. d \in Diagonals \cup Orthogonals /\ -d \in dirs
  BY DEF Diagonals, Orthogonals
<1>3. k \in Ray[j][-d] /\ j + k * (-d) = i /\ Clear(squares, j, -d, k)
  BY <1>1, <1>2, RayBack
<1>. QED
  BY <1>2, <1>3 DEF Reaches

\* scan_ray_for finds the pieces that see the square.
LEMMA ScanIsSight ==
  ASSUME NEW squares, NEW t \in Square, NEW dirs \in {Diagonals, Orthogonals}, NEW pieces
  PROVE  ScanRayFor(squares, t, dirs, pieces) <=>
           \E i \in Square : squares[i] \in pieces /\ Reaches(squares, i, t, dirs)
<1>1. \A d \in dirs : \A k \in Ray[t][d] : t + k * d \in Square
  BY DEF Ray, Walk
<1>2. ScanRayFor(squares, t, dirs, pieces) <=>
        \E i \in Square : squares[i] \in pieces /\ Reaches(squares, t, i, dirs)
  BY <1>1 DEF ScanRayFor, Reaches
<1>. QED
  BY <1>2, SightBack

\* is_square_attacked finds the pieces that attack the square by the laws.
LEMMA AttackedAgrees ==
  ASSUME NEW b, NEW squares, Shows(b, squares), NEW t \in Square, NEW by \in {0, 1},
         squares[t] = EMPTY \/ Color(squares[t]) # by
  PROVE  IsSquareAttacked(squares, t, by) <=> Rules!Attacked(b, Coord(t), ColorName(by))
<1>. DEFINE own(i) == squares[i] # EMPTY /\ Color(squares[i]) = by
<1>1. \A i \in Square : own(i) => i # t
  OBVIOUS
<1>2. \A i \in Square, kind \in {Pawn, Knight, Bishop, Rook, Queen, King} :
        squares[i] = Make(kind, by) <=> own(i) /\ Kind(squares[i]) = kind
  BY PieceOf, MakeOf DEF Shows
<1>3. Rules!Attacked(b, Coord(t), ColorName(by)) <=>
        \E i \in Square : own(i) /\ Hits(squares, i, t)
  <2>1. \A i \in Square : b[Coord(i)].color = ColorName(by) <=> own(i)
    BY Faces DEF Shows
  <2>2. \A i \in Square : own(i) =>
          (Rules!Attacks(b, Coord(i), Coord(t)) <=> Hits(squares, i, t))
    BY <1>1, HitsIsAttack
  <2>3. /\ \A i \in Square : Coord(i) \in Rules!Coords
        /\ \A x \in Rules!Coords : \E i \in Square : x = Coord(i)
    BY CoordOf, SquareAt
  <2>. HIDE DEF own
  <2>. QED
    BY <2>1, <2>2, <2>3 DEF Rules!Attacked
<1>4. ASSUME NEW i \in Square, own(i)
      PROVE  Hits(squares, i, t) <=>
               \/ Kind(squares[i]) = Pawn /\ i \in PawnSquares[by][t]
               \/ Kind(squares[i]) = Knight /\ i \in KnightSquares[t]
               \/ Kind(squares[i]) \in {Bishop, Queen} /\ Reaches(squares, i, t, Diagonals)
               \/ Kind(squares[i]) \in {Rook, Queen} /\ Reaches(squares, i, t, Orthogonals)
               \/ Kind(squares[i]) = King /\ i \in Neighbours[t]
  <2>1. /\ FileOf(i) \in 0..7 /\ RankOf(i) \in 0..7 /\ FileOf(t) \in 0..7 /\ RankOf(t) \in 0..7
        /\ i = RankOf(i) * 8 + FileOf(i) /\ t = RankOf(t) * 8 + FileOf(t) /\ i # t
    BY <1>1, <1>4, SquareOf DEF Sq
  <2>2. i \in PawnSquares[by][t] <=>
          t - i - Dir(by) \in {1, -1} /\ Dist(FileOf(i), FileOf(t)) = 1
    <3>1. i \in PawnSquares[by][t] <=>
            /\ i - t \in IF by = 0 THEN {-7, -9} ELSE {7, 9}
            /\ Dist(FileOf(t), FileOf(i)) =< 1
      <4>1. Dist(FileOf(t), FileOf(i)) \in Int
        BY <2>1 DEF Dist
      <4>. QED
        BY <4>1 DEF PawnSquares, CrossesEdge
    <3>. QED
      BY <2>1, <3>1 DEF Dist, Dir
  <2>3. i \in KnightSquares[t] <=> KnightShape(i, t)
    <3>1. /\ Dist(FileOf(i), FileOf(t)) = Dist(FileOf(t), FileOf(i))
          /\ Dist(RankOf(i), RankOf(t)) = Dist(RankOf(t), RankOf(i))
      BY <2>1, DistSymmetric
    <3>. QED
      BY <3>1 DEF KnightSquares, KnightShape
  <2>4. i \in Neighbours[t] <=> OneStep(i, t)
    <3>1. /\ Dist(FileOf(i), FileOf(t)) = Dist(FileOf(t), FileOf(i))
          /\ Dist(RankOf(i), RankOf(t)) = Dist(RankOf(t), RankOf(i))
      BY <2>1, DistSymmetric
    <3>. QED
      BY <2>1, <3>1 DEF Neighbours, OneStep
  <2>5. Reaches(squares, i, t, Orthogonals \cup Diagonals) <=>
          Reaches(squares, i, t, Orthogonals) \/ Reaches(squares, i, t, Diagonals)
    BY QueenReaches
  <2>. QED
    BY <1>4, <2>2, <2>3, <2>4, <2>5, Zenon DEF Hits
<1>5. /\ PawnSquares[by][t] \subseteq Square /\ KnightSquares[t] \subseteq Square
      /\ Neighbours[t] \subseteq Square
  BY DEF PawnSquares, KnightSquares, Neighbours
<1>6. IsSquareAttacked(squares, t, by) <=>
        \E i \in Square :
          \/ squares[i] = Make(Pawn, by) /\ i \in PawnSquares[by][t]
          \/ squares[i] = Make(Knight, by) /\ i \in KnightSquares[t]
          \/ /\ squares[i] \in {Make(Bishop, by), Make(Queen, by)}
             /\ Reaches(squares, i, t, Diagonals)
          \/ /\ squares[i] \in {Make(Rook, by), Make(Queen, by)}
             /\ Reaches(squares, i, t, Orthogonals)
          \/ squares[i] = Make(King, by) /\ i \in Neighbours[t]
  <2>1. \A pieces : /\ ScanRayFor(squares, t, Diagonals, pieces) <=>
                         \E i \in Square : squares[i] \in pieces /\ Reaches(squares, i, t, Diagonals)
                    /\ ScanRayFor(squares, t, Orthogonals, pieces) <=>
                         \E i \in Square : squares[i] \in pieces /\ Reaches(squares, i, t, Orthogonals)
    BY ScanIsSight
  <2>. QED
    BY <1>5, <2>1, Zenon DEF IsSquareAttacked
<1>7. \A i \in Square : Hits(squares, i, t) /\ own(i) <=>
        \/ squares[i] = Make(Pawn, by) /\ i \in PawnSquares[by][t]
        \/ squares[i] = Make(Knight, by) /\ i \in KnightSquares[t]
        \/ /\ squares[i] \in {Make(Bishop, by), Make(Queen, by)}
           /\ Reaches(squares, i, t, Diagonals)
        \/ /\ squares[i] \in {Make(Rook, by), Make(Queen, by)}
           /\ Reaches(squares, i, t, Orthogonals)
        \/ squares[i] = Make(King, by) /\ i \in Neighbours[t]
  <2>. HIDE DEF own
  <2>. QED
    BY <1>2, <1>4, Zenon
<1>. HIDE DEF own
<1>. QED
  BY <1>3, <1>6, <1>7

\* The side whose king is attacked is in check for both.
LEMMA CheckAgrees ==
  ASSUME NEW b, NEW squares, Shows(b, squares), NEW c \in {0, 1}, NEW k \in Square,
         Kings(squares, c) = {k}
  PROVE  InCheck(squares, c) <=> Rules!Checked(b, ColorName(c))
<1>1. 1 - c \in {0, 1} /\ Rules!Opponent(ColorName(c)) = ColorName(1 - c)
  BY DEF Rules!Opponent, ColorName
<1>2. KingSquare(squares, c) = k
  BY DEF KingSquare, Square
<1>3. squares[k] # EMPTY /\ Color(squares[k]) = c
  BY MakeOf DEF Kings
<1>4. IsSquareAttacked(squares, k, 1 - c) <=>
        Rules!Attacked(b, Coord(k), ColorName(1 - c))
  BY <1>1, <1>3, AttackedAgrees
<1>5. \A x \in Rules!Coords :
        b[x] = [kind |-> "king", color |-> ColorName(c)] <=> x = Coord(k)
  <2>1. ASSUME NEW i \in Square
        PROVE  b[Coord(i)] = [kind |-> "king", color |-> ColorName(c)] <=> i = k
    <3>1. i = k <=> squares[i] = Make(King, c)
      BY DEF Kings
    <3>2. squares[i] = Make(King, c) <=>
            squares[i] # EMPTY /\ Kind(squares[i]) = King /\ Color(squares[i]) = c
      BY PieceOf, MakeOf DEF Shows
    <3>3. /\ Face(squares[i]).kind = "king" <=> squares[i] # EMPTY /\ Kind(squares[i]) = King
          /\ Face(squares[i]).color = ColorName(c) <=>
               squares[i] # EMPTY /\ Color(squares[i]) = c
      BY Faces, KindNames DEF Shows
    <3>4. Face(squares[i]) = [kind |-> Face(squares[i]).kind, color |-> Face(squares[i]).color]
      BY DEF Face, Rules!Nothing
    <3>. QED
      BY <3>1, <3>2, <3>3, <3>4 DEF Shows
  <2>. QED
    BY <2>1, CoordOf, SquareAt
<1>. QED
  BY <1>1, <1>2, <1>4, <1>5, CoordOf DEF InCheck, Rules!Checked

-----------------------------------------------------------------------------
(* Moves.  ep is the square the laws allow a capture en passant on.         *)

\* A move of one's own piece to a square without one.
Own(s, from, to) ==
  /\ from \in Square /\ to \in Square /\ from # to
  /\ s.squares[from] # EMPTY /\ Color(s.squares[from]) = s.side_to_move
  /\ s.squares[to] # EMPTY => Color(s.squares[to]) # s.side_to_move

TargetCoord(s) == IF s.en_passant = None THEN Rules!Nowhere ELSE Coord(s.en_passant)

\* The laws' target is the engine's.
LEMMA TargetAgrees ==
  ASSUME NEW s, Typed(s), NEW to \in Square
  PROVE  Coord(to) = TargetCoord(s) <=> s.en_passant = to
<1>1. Coord(to) # Rules!Nowhere
  BY CoordOf, SquareOf DEF Rules!Nowhere
<1>2. None \notin Square
  BY DEF None, Square
<1>. QED
  BY <1>1, <1>2, CoordOf DEF Typed, TargetCoord

\* A capture onto the target finds the pawn, in a position in order.
LEMMA OntoTarget ==
  ASSUME NEW s, Typed(s), InOrder(s), NEW from \in Square, NEW to \in Square,
         s.en_passant = to
  PROVE  EnPassant(s, from, to) <=> PawnCaptures(s, from, to)
<1>1. /\ to # None /\ s.side_to_move \in {0, 1} /\ 1 - s.side_to_move \in {0, 1}
      /\ 1 - s.side_to_move # s.side_to_move
  BY DEF Typed, Square, None
<1>2. /\ s.squares[to] = EMPTY
      /\ s.squares[to + Dir(1 - s.side_to_move)] = Make(Pawn, 1 - s.side_to_move)
  BY <1>1 DEF InOrder, TargetInOrder
<1>3. EnPassantVictim(s, to) = to + Dir(1 - s.side_to_move)
  BY <1>1 DEF EnPassantVictim, Dir, Square
<1>. QED
  BY <1>1, <1>2, <1>3, MakeOf DEF EnPassant

\* What both boards say of the two squares of a move.
LEMMA OwnFaces ==
  ASSUME NEW s, Typed(s), NEW b, Shows(b, s.squares), NEW from, NEW to, Own(s, from, to)
  PROVE  LET c == s.side_to_move x == Coord(from) y == Coord(to) p == s.squares[from] IN
         /\ c \in {0, 1} /\ 1 - c \in {0, 1} /\ Color(p) = c /\ p = Make(Kind(p), c)
         /\ Kind(p) \in {Pawn, Knight, Bishop, Rook, Queen, King}
         /\ b[x] = [kind |-> KindName(Kind(p)), color |-> ColorName(c)]
         /\ b[y] = Rules!Nothing <=> s.squares[to] = EMPTY
         /\ b[y].color = Rules!Opponent(ColorName(c)) <=> s.squares[to] # EMPTY
         /\ b[y].color # ColorName(c)
<1>. DEFINE c == s.side_to_move
            p == s.squares[from]
            q == s.squares[to]
<1>1. /\ c \in {0, 1} /\ 1 - c \in {0, 1} /\ p \in 0..12 /\ p # EMPTY /\ Color(p) = c
      /\ from \in Square /\ to \in Square /\ q \in 0..12
      /\ q # EMPTY => Color(q) = 1 - c
  <2>1. c \in {0, 1} /\ p \in 0..12 /\ p # EMPTY /\ Color(p) = c /\ q \in 0..12
        /\ from \in Square /\ to \in Square
    BY DEF Typed, Own
  <2>2. q # EMPTY => Color(q) \in {0, 1} /\ Color(q) # c
    BY <2>1, PieceOf DEF Own
  <2>. QED
    BY <2>1, <2>2
<1>2. b[Coord(from)] = Face(p) /\ b[Coord(to)] = Face(q)
  BY <1>1 DEF Shows
<1>3. Rules!Opponent(ColorName(c)) = ColorName(1 - c)
  BY <1>1 DEF Rules!Opponent, ColorName
<1>4. /\ Face(q) = Rules!Nothing <=> q = EMPTY
      /\ \A e \in {0, 1} : Face(q).color = ColorName(e) <=> q # EMPTY /\ Color(q) = e
  BY <1>1, Faces
<1>5. 1 - c # c
  BY <1>1
<1>. QED
  BY <1>1, <1>2, <1>3, <1>4, <1>5, PieceOf DEF Face

\* Pawns.
LEMMA PawnAgrees ==
  ASSUME NEW s, Typed(s), InOrder(s), NEW b, Shows(b, s.squares), NEW from, NEW to,
         Own(s, from, to), Kind(s.squares[from]) = Pawn
  PROVE  ValidatePawn(s, from, to) <=>
           Rules!PawnMove(b, TargetCoord(s), Coord(from), Coord(to))
<1>. DEFINE c == s.side_to_move
            x == Coord(from)
            y == Coord(to)
            color == ColorName(c)
            f == Rules!Forward(color)
<1>1. /\ from \in Square /\ to \in Square /\ from # to /\ c \in {0, 1}
      /\ s.squares[from] # EMPTY /\ Color(s.squares[from]) = c
      /\ b[x].color = color
      /\ b[y] = Rules!Nothing <=> s.squares[to] = EMPTY
      /\ b[y].color = Rules!Opponent(color) <=> s.squares[to] # EMPTY
  <2>1. /\ from \in Square /\ to \in Square /\ from # to
        /\ s.squares[from] # EMPTY /\ Color(s.squares[from]) = c
    BY DEF Own
  <2>2. /\ c \in {0, 1} /\ b[x] = [kind |-> KindName(Pawn), color |-> color]
        /\ b[y] = Rules!Nothing <=> s.squares[to] = EMPTY
        /\ b[y].color = Rules!Opponent(color) <=> s.squares[to] # EMPTY
    BY OwnFaces
  <2>. QED
    BY <2>1, <2>2
<1>2. f = (IF c = 0 THEN 1 ELSE -1) /\ Dir(c) = 8 * f
  BY <1>1 DEF Rules!Forward, ColorName, Dir
<1>3. /\ FileOf(from) \in 0..7 /\ RankOf(from) \in 0..7
      /\ FileOf(to) \in 0..7 /\ RankOf(to) \in 0..7
      /\ from = RankOf(from) * 8 + FileOf(from) /\ to = RankOf(to) * 8 + FileOf(to)
  BY <1>1, SquareOf DEF Sq
<1>4. /\ Rules!DX(x, y) = FileOf(to) - FileOf(from)
      /\ Rules!DY(x, y) = RankOf(to) - RankOf(from) /\ x[2] = RankOf(from) + 1
  BY <1>1, <1>3, CoordOf DEF Rules!DX, Rules!DY
<1>5. to - from = Dir(c) <=> Rules!DX(x, y) = 0 /\ Rules!DY(x, y) = f
  BY <1>1, <1>2, <1>3, <1>4
<1>6. DoublePush(s, from, to) <=>
        /\ Rules!DX(x, y) = 0 /\ Rules!DY(x, y) = 2 * f /\ x[2] = Rules!Rank(color, 2)
        /\ b[y] = Rules!Nothing /\ \A z \in Rules!Between(x, y) : b[z] = Rules!Nothing
  <2>1. to - from = 2 * Dir(c) <=> Rules!DX(x, y) = 0 /\ Rules!DY(x, y) = 2 * f
    BY <1>1, <1>2, <1>3, <1>4
  <2>2. RankOf(from) = StartRank(c) <=> x[2] = Rules!Rank(color, 2)
    BY <1>1, <1>3, <1>4 DEF StartRank, Rules!Rank, ColorName
  <2>3. ASSUME to - from = 2 * Dir(c)
        PROVE  s.squares[from + Dir(c)] = EMPTY <=>
                 \A z \in Rules!Between(x, y) : b[z] = Rules!Nothing
    <3>1. Dir(c) \in Directions /\ FileStep(Dir(c)) = 0 /\ RankStep(Dir(c)) = f
      BY <1>1, <1>2 DEF Dir, Directions, Orthogonals, Diagonals, FileStep, RankStep
    <3>2. Along(from, to, Dir(c), 2)
      BY <1>2, <1>3, <1>4, <2>1, <2>3, <3>1 DEF Along
    <3>3. /\ \A n \in 1..(2 - 1) : from + n * Dir(c) \in Square
          /\ Rules!Between(x, y) = {Coord(from + n * Dir(c)) : n \in 1..(2 - 1)}
      BY <1>1, <3>1, <3>2, PassedIsBetween
    <3>4. 1 * Dir(c) = Dir(c) /\ 1..(2 - 1) = {1}
      BY <1>1 DEF Dir
    <3>5. from + Dir(c) \in Square /\ Rules!Between(x, y) = {Coord(from + Dir(c))}
      BY <3>3, <3>4
    <3>6. b[Coord(from + Dir(c))] = Rules!Nothing <=> s.squares[from + Dir(c)] = EMPTY
      BY <3>5, Faces DEF Shows
    <3>. QED
      BY <3>5, <3>6
  <2>. HIDE DEF x, y, f, color, c
  <2>. QED
    BY <1>1, <2>1, <2>2, <2>3 DEF DoublePush, c
<1>7. Rules!Attacks(b, x, y) <=> PawnCaptures(s, from, to)
  <2>1. Rules!Attacks(b, x, y) <=> Hits(s.squares, from, to)
    BY <1>1, HitsIsAttack
  <2>. QED
    BY <1>1, <2>1 DEF Hits, PawnCaptures, Pawn, Knight, Bishop, Rook, Queen, King
<1>8. EnPassant(s, from, to) <=> Rules!Attacks(b, x, y) /\ y = TargetCoord(s)
  BY <1>1, <1>7, TargetAgrees, OntoTarget DEF EnPassant
<1>9. ValidatePawn(s, from, to) <=>
        \/ to - from = Dir(c) /\ s.squares[to] = EMPTY
        \/ DoublePush(s, from, to)
        \/ PawnCaptures(s, from, to) /\ s.squares[to] # EMPTY
        \/ EnPassant(s, from, to)
  BY DEF ValidatePawn
<1>10. Rules!PawnMove(b, TargetCoord(s), x, y) <=>
        \/ Rules!DX(x, y) = 0 /\ Rules!DY(x, y) = f /\ b[y] = Rules!Nothing
        \/ /\ Rules!DX(x, y) = 0 /\ Rules!DY(x, y) = 2 * f /\ x[2] = Rules!Rank(color, 2)
           /\ b[y] = Rules!Nothing /\ \A z \in Rules!Between(x, y) : b[z] = Rules!Nothing
        \/ Rules!Attacks(b, x, y) /\ b[y].color = Rules!Opponent(color)
        \/ Rules!Attacks(b, x, y) /\ y = TargetCoord(s)
  BY <1>1 DEF Rules!PawnMove
<1>. QED
  BY <1>1, <1>5, <1>6, <1>7, <1>8, <1>9, <1>10, Zenon

\* The rights are the laws': what they are about has never moved.
RightsKnown(s, moved) ==
  \A right \in Rights :
    right \in s.castling_rights <=> HomeSquares(right) \cap moved = {}

StillCoords(moved) == {Coord(i) : i \in Square \ moved}

\* The squares of a castling move, on the king's side and on the queen's.
CastlingSquares(s, from, to) ==
  /\ from = Sq(4, HomeRank(s.side_to_move))
  /\ to = Sq(IF KingSide(to) THEN 6 ELSE 2, HomeRank(s.side_to_move))

\* What lies between king and rook, and where the king passes.
LEMMA CastlingLines ==
  ASSUME NEW s, Typed(s), NEW from \in Square, NEW to \in Square,
         CastlingSquares(s, from, to)
  PROVE  LET home == HomeRank(s.side_to_move)
             files == CastlingFiles(KingSide(to))
             x == Coord(from) y == Coord(to)
         IN /\ Sq(files.rook, home) \in Square
            /\ \A f \in files.empty \cup files.safe : Sq(f, home) \in Square
            /\ Rules!Corner(x, y) = Coord(Sq(files.rook, home))
            /\ \A z : z \in Rules!Between(x, Coord(Sq(files.rook, home)))
                      <=> \E f \in files.empty : z = Coord(Sq(f, home))
            /\ \A z : z \in {x, y} \cup Rules!Between(x, y)
                      <=> \E f \in files.safe : z = Coord(Sq(f, home))
<1>. DEFINE home == HomeRank(s.side_to_move)
            files == CastlingFiles(KingSide(to))
            x == Coord(from)
            y == Coord(to)
            r == Sq(files.rook, home)
<1>1. home \in {0, 7}
  BY DEF Typed, HomeRank
<1>2. \A f \in 0..7 : /\ Sq(f, home) \in Square /\ FileOf(Sq(f, home)) = f
                      /\ RankOf(Sq(f, home)) = home
  BY <1>1, FileAndRank
<1>3. /\ 1 \in Directions /\ -1 \in Directions
      /\ FileStep(1) = 1 /\ RankStep(1) = 0 /\ FileStep(-1) = -1 /\ RankStep(-1) = 0
  BY DEF Directions, Diagonals, Orthogonals, FileStep, RankStep
<1>4. from = Sq(4, home)
  BY DEF CastlingSquares
<1>5. \A n \in Int : from + n * 1 = Sq(4 + n, home) /\ from + n * (-1) = Sq(4 - n, home)
  BY <1>1, <1>4 DEF Sq
<1>6. CASE KingSide(to)
  <2>1. /\ files.rook = 7 /\ files.empty = {5, 6} /\ files.safe = {4, 5, 6}
        /\ to = Sq(6, home)
    BY <1>6 DEF CastlingFiles, CastlingSquares
  <2>2. Along(from, r, 1, 3) /\ Along(from, to, 1, 2)
    BY <1>1, <1>2, <1>3, <1>4, <2>1 DEF Along
  <2>3. /\ Rules!Between(x, Coord(r)) = {Coord(from + n * 1) : n \in 1..(3 - 1)}
        /\ Rules!Between(x, y) = {Coord(from + n * 1) : n \in 1..(2 - 1)}
    BY <1>2, <1>3, <1>4, <2>1, <2>2, PassedIsBetween
  <2>4. /\ 1..(3 - 1) = {1, 2} /\ 1..(2 - 1) = {1}
        /\ from + 1 * 1 = Sq(5, home) /\ from + 2 * 1 = Sq(6, home)
    BY <1>5
  <2>5. Rules!Corner(x, y) = Coord(r)
    BY <1>1, <1>2, <1>4, <2>1, CoordOf DEF Rules!Corner, Rules!DX, Coord
  <2>. HIDE DEF r, home, files, x, y
  <2>6. /\ Rules!Between(x, Coord(r)) = {Coord(Sq(5, home)), Coord(Sq(6, home))}
        /\ Rules!Between(x, y) = {Coord(Sq(5, home))}
    BY <2>3, <2>4
  <2>7. x = Coord(Sq(4, home)) /\ y = Coord(Sq(6, home))
    BY <1>4, <2>1 DEF x, y
  <2>. QED
    BY <1>2, <2>1, <2>5, <2>6, <2>7 DEF r, home, files, x, y
<1>7. CASE ~KingSide(to)
  <2>1. /\ files.rook = 0 /\ files.empty = {1, 2, 3} /\ files.safe = {4, 3, 2}
        /\ to = Sq(2, home)
    BY <1>7 DEF CastlingFiles, CastlingSquares
  <2>2. Along(from, r, -1, 4) /\ Along(from, to, -1, 2)
    BY <1>1, <1>2, <1>3, <1>4, <2>1 DEF Along
  <2>3. /\ Rules!Between(x, Coord(r)) = {Coord(from + n * (-1)) : n \in 1..(4 - 1)}
        /\ Rules!Between(x, y) = {Coord(from + n * (-1)) : n \in 1..(2 - 1)}
    BY <1>2, <1>3, <1>4, <2>1, <2>2, PassedIsBetween
  <2>4. /\ 1..(4 - 1) = {1, 2, 3} /\ 1..(2 - 1) = {1}
        /\ from + 1 * (-1) = Sq(3, home) /\ from + 2 * (-1) = Sq(2, home)
        /\ from + 3 * (-1) = Sq(1, home)
    BY <1>5
  <2>5. Rules!Corner(x, y) = Coord(r)
    BY <1>1, <1>2, <1>4, <2>1, CoordOf DEF Rules!Corner, Rules!DX, Coord
  <2>. HIDE DEF r, home, files, x, y
  <2>6. /\ Rules!Between(x, Coord(r)) =
             {Coord(Sq(3, home)), Coord(Sq(2, home)), Coord(Sq(1, home))}
        /\ Rules!Between(x, y) = {Coord(Sq(3, home))}
    BY <2>3, <2>4
  <2>7. x = Coord(Sq(4, home)) /\ y = Coord(Sq(2, home))
    BY <1>4, <2>1 DEF x, y
  <2>. QED
    BY <1>2, <2>1, <2>5, <2>6, <2>7 DEF r, home, files, x, y
<1>. QED
  BY <1>6, <1>7

\* Castling.
LEMMA CastleAgrees ==
  ASSUME NEW s, Typed(s), InOrder(s), NEW b, Shows(b, s.squares), NEW from, NEW to,
         Own(s, from, to), Kind(s.squares[from]) = King, NEW moved, RightsKnown(s, moved)
  PROVE  Castles(s, from, to) <=>
           Rules!Castling(b, StillCoords(moved), Coord(from), Coord(to))
<1>. DEFINE c == s.side_to_move
            x == Coord(from)
            y == Coord(to)
            color == ColorName(c)
            home == HomeRank(c)
            side == KingSide(to)
            files == CastlingFiles(side)
            right == CastlingRight(c, side)
            r == Sq(files.rook, home)
            still == StillCoords(moved)
<1>1. /\ from \in Square /\ to \in Square /\ from # to /\ c \in {0, 1} /\ 1 - c \in {0, 1}
      /\ s.squares[from] = Make(King, c) /\ Color(s.squares[from]) = c
      /\ b[x].kind = "king" /\ b[x].color = color
      /\ Rules!Opponent(color) = ColorName(1 - c)
  <2>1. from \in Square /\ to \in Square /\ from # to /\ Color(s.squares[from]) = c
    BY DEF Own
  <2>2. /\ c \in {0, 1} /\ 1 - c \in {0, 1} /\ s.squares[from] = Make(King, c)
        /\ b[x] = [kind |-> "king", color |-> color]
    BY OwnFaces, KindNames
  <2>3. Rules!Opponent(color) = ColorName(1 - c)
    BY <2>2 DEF Rules!Opponent, ColorName
  <2>. QED
    BY <2>1, <2>2, <2>3
<1>2. Castles(s, from, to) => CastlingSquares(s, from, to)
  BY <1>1, CastlingFromHome DEF CastlingSquares
<1>3. Rules!Castling(b, still, x, y) => CastlingSquares(s, from, to)
  <2>1. /\ FileOf(from) \in 0..7 /\ FileOf(to) \in 0..7
        /\ RankOf(from) \in 0..7 /\ RankOf(to) \in 0..7
        /\ from = Sq(FileOf(from), RankOf(from)) /\ to = Sq(FileOf(to), RankOf(to))
    BY <1>1, SquareOf
  <2>2. /\ Rules!DX(x, y) = FileOf(to) - FileOf(from)
        /\ Rules!DY(x, y) = RankOf(to) - RankOf(from)
        /\ x = <<FileOf(from) + 1, RankOf(from) + 1>>
    BY <1>1, <2>1, CoordOf DEF Rules!DX, Rules!DY, Coord
  <2>3. Rules!Rank(color, 1) = home + 1 /\ home \in {0, 7}
    BY <1>1 DEF Rules!Rank, ColorName, HomeRank
  <2>. SUFFICES ASSUME Rules!Castling(b, still, x, y)
                PROVE  CastlingSquares(s, from, to)
    OBVIOUS
  <2>4. /\ Rules!Abs(Rules!DX(x, y)) = 2 /\ Rules!DY(x, y) = 0
        /\ x = <<5, Rules!Rank(color, 1)>>
    BY <1>1 DEF Rules!Castling
  <2>. HIDE DEF x, y, home
  <2>5. /\ FileOf(from) = 4 /\ RankOf(from) = home /\ RankOf(to) = home
        /\ FileOf(to) = 6 \/ FileOf(to) = 2
    BY <2>1, <2>2, <2>3, <2>4 DEF Rules!Abs
  <2>. QED
    BY <2>1, <2>5 DEF CastlingSquares, KingSide, home
<1>. SUFFICES ASSUME CastlingSquares(s, from, to)
              PROVE  Castles(s, from, to) <=> Rules!Castling(b, still, x, y)
  BY <1>2, <1>3
<1>4. /\ r \in Square /\ Rules!Corner(x, y) = Coord(r)
      /\ \A f \in files.empty \cup files.safe : Sq(f, home) \in Square
      /\ \A z : z \in Rules!Between(x, Coord(r))
                <=> \E f \in files.empty : z = Coord(Sq(f, home))
      /\ \A z : z \in {x, y} \cup Rules!Between(x, y)
                <=> \E f \in files.safe : z = Coord(Sq(f, home))
  BY <1>1, CastlingLines
<1>5. /\ from = Sq(4, home) /\ to = Sq(IF side THEN 6 ELSE 2, home) /\ home \in {0, 7}
      /\ FileOf(from) = 4 /\ RankOf(from) = home /\ RankOf(to) = home
      /\ FileOf(to) = IF side THEN 6 ELSE 2
  <2>1. home \in {0, 7}
    BY <1>1 DEF HomeRank
  <2>2. from = Sq(4, home) /\ to = Sq(IF side THEN 6 ELSE 2, home)
    BY DEF CastlingSquares
  <2>3. (IF side THEN 6 ELSE 2) \in 0..7 /\ 4 \in 0..7 /\ home \in 0..7
    BY <2>1
  <2>. HIDE DEF side, home
  <2>. QED
    BY <2>1, <2>2, <2>3, FileAndRank
<1>6. Castles(s, from, to) <=>
        /\ right \in s.castling_rights
        /\ \A f \in files.empty : s.squares[Sq(f, home)] = EMPTY
        /\ s.squares[r] = Make(Rook, c)
        /\ \A f \in files.safe : ~IsSquareAttacked(s.squares, Sq(f, home), 1 - c)
  <2>1. Dist(FileOf(from), FileOf(to)) = 2
    BY <1>5 DEF Dist
  <2>. QED
    BY <1>5, <2>1 DEF Castles
<1>7. Rules!Castling(b, still, x, y) <=>
        /\ b[Coord(r)] = [kind |-> "rook", color |-> color]
        /\ {x, Coord(r)} \subseteq still
        /\ \A f \in files.empty : b[Coord(Sq(f, home))] = Rules!Nothing
        /\ \A f \in files.safe : ~Rules!Attacked(b, Coord(Sq(f, home)), ColorName(1 - c))
  <2>1. /\ Rules!Abs(Rules!DX(x, y)) = 2 /\ Rules!DY(x, y) = 0
        /\ x = <<5, Rules!Rank(color, 1)>>
    <3>1. /\ Rules!DX(x, y) = FileOf(to) - FileOf(from)
          /\ Rules!DY(x, y) = RankOf(to) - RankOf(from)
      <4>1. /\ FileOf(from) \in Int /\ FileOf(to) \in Int
            /\ RankOf(from) \in Int /\ RankOf(to) \in Int
        BY <1>5
      <4>. QED
        BY <1>1, <4>1, CoordOf DEF Rules!DX, Rules!DY
    <3>2. x = <<5, home + 1>>
      BY <1>5 DEF Coord
    <3>3. Rules!Rank(color, 1) = home + 1
      BY <1>1 DEF Rules!Rank, ColorName, HomeRank
    <3>4. FileOf(to) - FileOf(from) \in {2, -2} /\ RankOf(to) - RankOf(from) = 0
      BY <1>5
    <3>. HIDE DEF x, y, home
    <3>. QED
      BY <3>1, <3>2, <3>3, <3>4 DEF Rules!Abs
  <2>. HIDE DEF x, y, still, color, home, r, files
  <2>. QED
    BY <1>1, <1>4, <2>1 DEF Rules!Castling
<1>8. b[Coord(r)] = [kind |-> "rook", color |-> color] <=> s.squares[r] = Make(Rook, c)
  <2>. DEFINE q == s.squares[r]
  <2>1. q \in 0..12 /\ b[Coord(r)] = Face(q)
    BY <1>4 DEF Shows
  <2>2. q = Make(Rook, c) <=> q # EMPTY /\ Kind(q) = Rook /\ Color(q) = c
    BY <1>1, <2>1, PieceOf, MakeOf
  <2>3. /\ Face(q).kind = "rook" <=> q # EMPTY /\ Kind(q) = Rook
        /\ Face(q).color = color <=> q # EMPTY /\ Color(q) = c
    BY <1>1, <2>1, Faces, KindNames
  <2>4. Face(q) = [kind |-> Face(q).kind, color |-> Face(q).color]
    BY DEF Face, Rules!Nothing
  <2>. HIDE DEF q, r, color
  <2>5. Face(q) = [kind |-> "rook", color |-> color]
          <=> Face(q).kind = "rook" /\ Face(q).color = color
    BY <2>4
  <2>. QED
    BY <2>1, <2>2, <2>3, <2>5 DEF q
<1>9. right \in s.castling_rights <=> {x, Coord(r)} \subseteq still
  <2>1. right \in Rights /\ HomeSquares(right) = {from, r}
    BY <1>1, <1>5 DEF CastlingRight, Rights, HomeSquares, Home, CastlingFiles, HomeRank, Sq
  <2>2. \A i \in Square : Coord(i) \in still <=> i \notin moved
    BY CoordOf DEF StillCoords
  <2>3. right \in s.castling_rights <=> HomeSquares(right) \cap moved = {}
    BY <2>1 DEF RightsKnown
  <2>4. {from, r} \cap moved = {} <=> from \notin moved /\ r \notin moved
    OBVIOUS
  <2>. HIDE DEF r, still, right
  <2>. QED
    BY <1>1, <1>4, <2>1, <2>2, <2>3, <2>4
<1>10. \A f \in files.empty : s.squares[Sq(f, home)] = EMPTY
                                <=> b[Coord(Sq(f, home))] = Rules!Nothing
  BY <1>4, Faces DEF Shows
<1>11. ASSUME \A f \in files.empty : s.squares[Sq(f, home)] = EMPTY, NEW f \in files.safe
       PROVE  IsSquareAttacked(s.squares, Sq(f, home), 1 - c) <=>
                Rules!Attacked(b, Coord(Sq(f, home)), ColorName(1 - c))
  <2>1. f \in files.empty \/ Sq(f, home) = from
    BY <1>5 DEF CastlingFiles
  <2>2. s.squares[Sq(f, home)] = EMPTY \/ Color(s.squares[Sq(f, home)]) # 1 - c
    BY <1>1, <1>11, <2>1
  <2>3. Sq(f, home) \in Square
    BY <1>4
  <2>. QED
    BY <1>1, <2>2, <2>3, AttackedAgrees
<1>. HIDE DEF right, files, home, r, still, x, y, color, c
<1>. QED
  BY <1>6, <1>7, <1>8, <1>9, <1>10, <1>11

-----------------------------------------------------------------------------
(* The board after a move.                                                 *)

\* The squares of a capture en passant and of a castling move, and what they
\* are for the laws.
LEMMA PassingMove ==
  ASSUME NEW s, Typed(s), InOrder(s), NEW from, NEW to, Own(s, from, to),
         Kind(s.squares[from]) = Pawn, Shape(s, from, to)
  PROVE  LET x == Coord(from) y == Coord(to) IN
         /\ EnPassant(s, from, to) <=> y = TargetCoord(s) /\ Rules!DX(x, y) # 0
         /\ EnPassant(s, from, to) =>
              /\ EnPassantVictim(s, to) \in Square \ {from, to}
              /\ Coord(EnPassantVictim(s, to)) = <<y[1], x[2]>>
<1>. DEFINE x == Coord(from)
            y == Coord(to)
            c == s.side_to_move
            v == EnPassantVictim(s, to)
<1>1. from \in Square /\ to \in Square /\ c \in {0, 1}
  BY DEF Own, Typed
<1>2. /\ FileOf(from) \in 0..7 /\ RankOf(from) \in 0..7
      /\ FileOf(to) \in 0..7 /\ RankOf(to) \in 0..7
      /\ from = RankOf(from) * 8 + FileOf(from) /\ to = RankOf(to) * 8 + FileOf(to)
  BY <1>1, SquareOf DEF Sq
<1>3. Rules!DX(x, y) # 0 <=> FileOf(from) # FileOf(to)
  BY <1>1, <1>2, CoordOf DEF Rules!DX
<1>4. PawnCaptures(s, from, to) => /\ FileOf(from) # FileOf(to)
                                   /\ v = RankOf(from) * 8 + FileOf(to)
  BY <1>1, <1>2 DEF PawnCaptures, Dist, EnPassantVictim, Dir
<1>5. \/ to - from = Dir(c) \/ to - from = 2 * Dir(c)
      \/ PawnCaptures(s, from, to)
  BY DEF Shape, ValidatePawn, DoublePush, EnPassant, Pawn, Knight, Bishop, Rook, Queen, King
<1>6. to - from = Dir(c) \/ to - from = 2 * Dir(c) => FileOf(from) = FileOf(to)
  BY <1>1, <1>2 DEF Dir
<1>7. EnPassant(s, from, to) <=> s.en_passant = to /\ PawnCaptures(s, from, to)
  BY <1>1, OntoTarget DEF EnPassant
<1>8. y = TargetCoord(s) <=> s.en_passant = to
  BY <1>1, TargetAgrees
<1>9. ASSUME EnPassant(s, from, to)
      PROVE  v \in Square \ {from, to} /\ Coord(v) = <<y[1], x[2]>>
  <2>1. v = Sq(FileOf(to), RankOf(from))
    BY <1>4, <1>7, <1>9 DEF Sq
  <2>2. v \in Square /\ FileOf(v) = FileOf(to) /\ RankOf(v) = RankOf(from)
    BY <1>2, <2>1, FileAndRank
  <2>3. Coord(v) = <<y[1], x[2]>>
    BY <1>1, <2>2, CoordOf DEF Coord
  <2>4. v \notin {from, to}
    BY <1>1, <1>9, VictimIsPawn
  <2>. QED
    BY <2>2, <2>3, <2>4
<1>. HIDE DEF v, x, y, c
<1>. QED
  BY <1>3, <1>4, <1>5, <1>6, <1>7, <1>8, <1>9 DEF v, x, y

\* Castling moves two squares, other king's moves at most one file.
LEMMA CastlingMove ==
  ASSUME NEW s, Typed(s), InOrder(s), NEW from, NEW to, Own(s, from, to),
         Kind(s.squares[from]) = King, Shape(s, from, to)
  PROVE  LET x == Coord(from) y == Coord(to) c == s.side_to_move
             files == CastlingFiles(KingSide(to))
             r == Sq(files.rook, HomeRank(c)) h == Sq(files.hop, HomeRank(c))
         IN /\ IsCastle(s, from, to) <=> Rules!Abs(Rules!DX(x, y)) = 2
            /\ IsCastle(s, from, to) =>
                 /\ r \in Square \ {from, to, h} /\ h \in Square \ {from, to}
                 /\ s.squares[r] = Make(Rook, c)
                 /\ Coord(r) = Rules!Corner(x, y)
                 /\ Coord(h) = <<(x[1] + y[1]) \div 2, x[2]>>
<1>. DEFINE x == Coord(from)
            y == Coord(to)
            c == s.side_to_move
            home == HomeRank(c)
            files == CastlingFiles(KingSide(to))
            r == Sq(files.rook, home)
            h == Sq(files.hop, home)
<1>1. from \in Square /\ to \in Square /\ c \in {0, 1} /\ home \in {0, 7}
  BY DEF Own, Typed, HomeRank
<1>2. /\ FileOf(from) \in 0..7 /\ RankOf(from) \in 0..7
      /\ FileOf(to) \in 0..7 /\ RankOf(to) \in 0..7
  BY <1>1, SquareOf
<1>3. Rules!Abs(Rules!DX(x, y)) = Dist(FileOf(from), FileOf(to))
  BY <1>1, <1>2, CoordOf DEF Rules!DX, Rules!Abs, Dist
<1>4. OneStep(from, to) \/ Castles(s, from, to)
  BY DEF Shape, ValidateKing, Pawn, Knight, Bishop, Rook, Queen, King
<1>5. /\ OneStep(from, to) => Dist(FileOf(from), FileOf(to)) # 2
      /\ Castles(s, from, to) => Dist(FileOf(from), FileOf(to)) = 2
  BY <1>2 DEF OneStep, Castles, Dist
<1>6. IsCastle(s, from, to) <=> Rules!Abs(Rules!DX(x, y)) = 2
  BY <1>3, <1>4, <1>5 DEF IsCastle
<1>7. ASSUME IsCastle(s, from, to)
      PROVE  /\ r \in Square \ {from, to, h} /\ h \in Square \ {from, to}
             /\ s.squares[r] = Make(Rook, c)
             /\ Coord(r) = Rules!Corner(x, y)
             /\ Coord(h) = <<(x[1] + y[1]) \div 2, x[2]>>
  <2>1. s.squares[from] = Make(King, c) /\ Castles(s, from, to)
    <3>1. s.squares[from] \in 0..12 /\ s.squares[from] # EMPTY /\ Color(s.squares[from]) = c
      BY <1>1 DEF Typed, Own
    <3>. QED
      BY <1>7, <3>1, PieceOf DEF IsCastle
  <2>2. /\ from = Sq(4, home) /\ to = Sq(IF KingSide(to) THEN 6 ELSE 2, home)
        /\ s.squares[r] = Make(Rook, c)
    BY <1>1, <2>1, CastlingFromHome
  <2>3. \A f \in 0..7 : /\ Sq(f, home) \in Square /\ FileOf(Sq(f, home)) = f
                        /\ RankOf(Sq(f, home)) = home
    BY <1>1, FileAndRank
  <2>4. Coord(r) = Rules!Corner(x, y)
    BY <1>1, <2>2, CastlingLines DEF CastlingSquares
  <2>5. IF KingSide(to) THEN files.rook = 7 /\ files.hop = 5 ELSE files.rook = 0 /\ files.hop = 3
    BY DEF CastlingFiles
  <2>. DEFINE f == IF KingSide(to) THEN 6 ELSE 2
  <2>6. /\ FileOf(from) = 4 /\ RankOf(from) = home /\ FileOf(to) = f /\ f \in {2, 6}
        /\ FileOf(r) = (IF f = 6 THEN 7 ELSE 0) /\ FileOf(h) = (IF f = 6 THEN 5 ELSE 3)
        /\ RankOf(h) = home /\ r \in Square /\ h \in Square
    <3>. HIDE DEF home, files
    <3>. QED
      BY <2>2, <2>3, <2>5
  <2>7. r \notin {from, to, h} /\ h \notin {from, to}
    <3>. HIDE DEF home, files, r, h, f
    <3>. QED
      BY <2>6
  <2>8. Coord(h) = <<(x[1] + y[1]) \div 2, x[2]>>
    <3>1. x[1] = 5 /\ x[2] = home + 1 /\ y[1] = f + 1
      BY <1>1, <2>6, CoordOf
    <3>2. (5 + (f + 1)) \div 2 = IF f = 6 THEN 6 ELSE 4
      <4>1. f = 2 \/ f = 6
        BY <2>6
      <4>. HIDE DEF f
      <4>. QED
        BY <4>1
    <3>. HIDE DEF x, y, f, h, home
    <3>. QED
      BY <2>6, <3>1, <3>2 DEF Coord
  <2>. QED
    BY <2>2, <2>4, <2>6, <2>7, <2>8
<1>. QED
  BY <1>6, <1>7

\* The board of the engine after a move, square by square.
LEMMA MovedAt ==
  ASSUME NEW s, Typed(s), InOrder(s), NEW from, NEW to, Own(s, from, to),
         NEW promotion, Shape(s, from, to), NEW i \in Square
  PROVE  LET files == CastlingFiles(KingSide(to))
             home == HomeRank(s.side_to_move)
         IN Moved(s, from, to, promotion)[i] =
              IF i = to THEN Placed(s, from, to, promotion)
              ELSE IF i = from THEN EMPTY
              ELSE IF IsEnPassant(s, from, to) /\ i = EnPassantVictim(s, to) THEN EMPTY
              ELSE IF IsCastle(s, from, to) /\ i = Sq(files.rook, home) THEN EMPTY
              ELSE IF IsCastle(s, from, to) /\ i = Sq(files.hop, home)
                   THEN Make(Rook, s.side_to_move)
              ELSE s.squares[i]
<1>. DEFINE c == s.side_to_move
            placed == Placed(s, from, to, promotion)
            plain == [s.squares EXCEPT ![from] = EMPTY, ![to] = placed]
            files == CastlingFiles(KingSide(to))
            v == EnPassantVictim(s, to)
            r == Sq(files.rook, HomeRank(c))
            h == Sq(files.hop, HomeRank(c))
            after == Moved(s, from, to, promotion)
<1>1. /\ s.squares \in [Square -> 0..12] /\ from \in Square /\ to \in Square /\ from # to
  BY DEF Typed, Own
<1>2. after = IF IsEnPassant(s, from, to) THEN [plain EXCEPT ![v] = EMPTY]
              ELSE IF IsCastle(s, from, to)
              THEN [plain EXCEPT ![r] = EMPTY, ![h] = Make(Rook, c)]
              ELSE plain
  BY DEF Moved, Placed
<1>3. /\ plain[from] = EMPTY /\ plain[to] = placed /\ DOMAIN plain = Square
      /\ \A j \in Square \ {from, to} : plain[j] = s.squares[j]
  BY <1>1
<1>4. IsEnPassant(s, from, to) => v \in Square \ {from, to} /\ ~IsCastle(s, from, to)
  BY PassingMove DEF IsEnPassant, IsCastle, Pawn, King
<1>5. IsCastle(s, from, to) => r \in Square \ {from, to, h} /\ h \in Square \ {from, to}
  BY CastlingMove DEF IsCastle
<1>. HIDE DEF plain, placed, v, r, h, after
<1>6. after[i] = IF IsEnPassant(s, from, to) THEN IF i = v THEN EMPTY ELSE plain[i]
                 ELSE IF IsCastle(s, from, to)
                 THEN IF i = h THEN Make(Rook, c) ELSE IF i = r THEN EMPTY ELSE plain[i]
                 ELSE plain[i]
  BY <1>2, <1>3, <1>4, <1>5
<1>7. plain[i] = IF i = to THEN placed ELSE IF i = from THEN EMPTY ELSE s.squares[i]
  BY <1>1, <1>3
<1>. HIDE DEF c
<1>. QED
  BY <1>4, <1>5, <1>6, <1>7 DEF placed, v, r, h, after, c

\* After a move the engine's board still shows what the laws play.
LEMMA PlayAgrees ==
  ASSUME NEW s, Typed(s), InOrder(s), NEW b, Shows(b, s.squares), NEW from, NEW to,
         Own(s, from, to), NEW promotion, PromotionOk(s, from, to, promotion),
         Shape(s, from, to)
  PROVE  Shows(Rules!Play(b, TargetCoord(s), Coord(from), Coord(to), KindName(promotion)),
               Moved(s, from, to, promotion))
<1>. DEFINE c == s.side_to_move
            x == Coord(from)
            y == Coord(to)
            p == s.squares[from]
            kind == Kind(p)
            placed == Placed(s, from, to, promotion)
            files == CastlingFiles(KingSide(to))
            v == EnPassantVictim(s, to)
            r == Sq(files.rook, HomeRank(c))
            h == Sq(files.hop, HomeRank(c))
            after == Moved(s, from, to, promotion)
            ep == IsEnPassant(s, from, to)
            castle == IsCastle(s, from, to)
            next == Rules!Play(b, TargetCoord(s), x, y, KindName(promotion))
            arrived == IF KindName(promotion) = "none" THEN b[x]
                       ELSE [b[x] EXCEPT !.kind = KindName(promotion)]
<1>1. /\ from \in Square /\ to \in Square /\ c \in {0, 1}
      /\ \A i \in Square : s.squares[i] \in 0..12 /\ b[Coord(i)] = Face(s.squares[i])
  BY DEF Own, Typed, Shows
<1>2. /\ p \in 0..12 /\ p # EMPTY /\ p = Make(kind, c)
      /\ kind \in {Pawn, Knight, Bishop, Rook, Queen, King}
      /\ b[x] = [kind |-> KindName(kind), color |-> ColorName(c)]
  <2>1. p \in 0..12 /\ p # EMPTY
    BY DEF Own, Typed
  <2>2. /\ p = Make(kind, c)
        /\ kind \in {Pawn, Knight, Bishop, Rook, Queen, King}
        /\ b[x] = [kind |-> KindName(kind), color |-> ColorName(c)]
    BY OwnFaces
  <2>. QED
    BY <2>1, <2>2
<1>3. placed \in 0..12 /\ Face(placed) = arrived
  <2>1. CASE Promotes(s, from, to)
    <3>1. promotion \in {Knight, Bishop, Rook, Queen} /\ placed = Make(promotion, c)
      BY <2>1 DEF PromotionOk, Placed
    <3>2. KindName(promotion) # "none"
      BY <3>1, KindNames
    <3>3. placed \in 0..12 /\ placed # EMPTY /\ Kind(placed) = promotion /\ Color(placed) = c
      BY <1>1, <3>1, MakeOf
    <3>4. arrived = [kind |-> KindName(promotion), color |-> ColorName(c)]
      BY <1>2, <3>2
    <3>. QED
      BY <3>3, <3>4 DEF Face
  <2>2. CASE ~Promotes(s, from, to)
    <3>1. promotion = 0 /\ placed = p
      BY <2>2 DEF PromotionOk, Placed
    <3>2. KindName(promotion) = "none"
      BY <3>1, KindNames DEF EMPTY
    <3>3. Face(p) = b[x]
      BY <1>1
    <3>. QED
      BY <1>2, <3>1, <3>2, <3>3
  <2>. QED
    BY <2>1, <2>2
<1>4. /\ b[x].kind = "pawn" <=> kind = Pawn
      /\ b[x].kind = "king" <=> kind = King
  BY <1>2, KindNames DEF Pawn, Knight, Bishop, Rook, Queen, King
<1>5. /\ ep <=> b[x].kind = "pawn" /\ y = TargetCoord(s) /\ Rules!DX(x, y) # 0
      /\ ep => v \in Square /\ Coord(v) = <<y[1], x[2]>>
  BY <1>4, PassingMove DEF IsEnPassant
<1>6. /\ castle <=> b[x].kind = "king" /\ Rules!Abs(Rules!DX(x, y)) = 2
      /\ castle => /\ r \in Square /\ h \in Square /\ s.squares[r] = Make(Rook, c)
                   /\ Coord(r) = Rules!Corner(x, y)
                   /\ Coord(h) = <<(x[1] + y[1]) \div 2, x[2]>>
  BY <1>4, CastlingMove DEF IsCastle
<1>7. Face(EMPTY) = Rules!Nothing
  BY DEF Face
<1>8. ASSUME NEW i \in Square
      PROVE  after[i] \in 0..12 /\ next[Coord(i)] = Face(after[i])
  <2>1. after[i] = IF i = to THEN placed ELSE IF i = from THEN EMPTY
                   ELSE IF ep /\ i = v THEN EMPTY
                   ELSE IF castle /\ i = r THEN EMPTY
                   ELSE IF castle /\ i = h THEN Make(Rook, c) ELSE s.squares[i]
    BY MovedAt
  <2>2. next[Coord(i)] =
          IF Coord(i) = y THEN arrived ELSE IF Coord(i) = x THEN Rules!Nothing
          ELSE IF ep /\ Coord(i) = <<y[1], x[2]>> THEN Rules!Nothing
          ELSE IF castle /\ Coord(i) = Rules!Corner(x, y) THEN Rules!Nothing
          ELSE IF castle /\ Coord(i) = <<(x[1] + y[1]) \div 2, x[2]>>
               THEN b[Rules!Corner(x, y)]
          ELSE b[Coord(i)]
    <3>1. Coord(i) \in Rules!Coords
      BY CoordOf
    <3>. HIDE DEF x, y, ep, castle
    <3>. QED
      BY <1>5, <1>6, <3>1 DEF Rules!Play
  <2>3. /\ Coord(i) = y <=> i = to
        /\ Coord(i) = x <=> i = from
        /\ ep => (Coord(i) = <<y[1], x[2]>> <=> i = v)
        /\ castle => (Coord(i) = Rules!Corner(x, y) <=> i = r)
        /\ castle => (Coord(i) = <<(x[1] + y[1]) \div 2, x[2]>> <=> i = h)
    <3>1. \A j \in Square : Coord(i) = Coord(j) <=> i = j
      BY CoordOf
    <3>. HIDE DEF ep, castle, v, r, h
    <3>. QED
      BY <1>1, <1>5, <1>6, <3>1
  <2>4. castle => b[Rules!Corner(x, y)] = Face(Make(Rook, c))
    BY <1>1, <1>6
  <2>5. Make(Rook, c) \in 0..12 /\ EMPTY \in 0..12
    BY <1>1, MakeOf DEF EMPTY
  <2>. HIDE DEF x, y, ep, castle, v, r, h, placed, arrived, after, next, c
  <2>. QED
    BY <1>1, <1>3, <1>7, <2>1, <2>2, <2>3, <2>4, <2>5
<1>. QED
  BY <1>8 DEF Shows

\* A move keeps the mover's king the only one of its colour.
LEMMA OneKing ==
  ASSUME NEW s, Typed(s), InOrder(s), NEW from, NEW to, Own(s, from, to),
         NEW promotion, PromotionOk(s, from, to, promotion), Shape(s, from, to)
  PROVE  \E k \in Square :
           Kings(Moved(s, from, to, promotion), s.side_to_move) = {k}
<1>. DEFINE c == s.side_to_move
            after == Moved(s, from, to, promotion)
            placed == Placed(s, from, to, promotion)
            files == CastlingFiles(KingSide(to))
            r == Sq(files.rook, HomeRank(c))
            h == Sq(files.hop, HomeRank(c))
            king == Make(King, c)
<1>1. /\ from \in Square /\ to \in Square /\ from # to /\ c \in {0, 1}
      /\ s.squares[from] \in 0..12 /\ s.squares[from] # EMPTY
      /\ Color(s.squares[from]) = c /\ s.squares[to] # king
  BY MakeOf DEF Own, Typed
<1>2. PICK k \in Square : Kings(s.squares, c) = {k}
  BY <1>1 DEF InOrder, KingsInOrder
<1>3. \A i \in Square : s.squares[i] = king <=> i = k
  BY <1>2 DEF Kings
<1>4. /\ king # EMPTY /\ king # Make(Rook, c)
      /\ placed = king <=> s.squares[from] = king
  <2>1. king # EMPTY /\ Kind(king) = King /\ king # Make(Rook, c)
    BY <1>1, MakeOf DEF Rook, King
  <2>2. CASE Promotes(s, from, to)
    <3>1. promotion \in {Knight, Bishop, Rook, Queen} /\ placed = Make(promotion, c)
      BY <2>2 DEF PromotionOk, Placed
    <3>2. Kind(placed) # King
      BY <1>1, <3>1, MakeOf DEF Knight, Bishop, Rook, Queen, King
    <3>3. Kind(s.squares[from]) # King
      BY <2>2 DEF Promotes, Pawn, King
    <3>. QED
      BY <2>1, <3>2, <3>3
  <2>3. CASE ~Promotes(s, from, to)
    BY <2>1, <2>3 DEF Placed
  <2>. QED
    BY <2>1, <2>2, <2>3
<1>5. /\ IsEnPassant(s, from, to) => s.squares[EnPassantVictim(s, to)] # king
      /\ IsCastle(s, from, to) => s.squares[r] # king /\ h # k
  <2>1. IsEnPassant(s, from, to) => s.squares[EnPassantVictim(s, to)] # king
    BY <1>1, MakeOf DEF IsEnPassant, EnPassant
  <2>2. IsCastle(s, from, to) =>
          s.squares[r] = Make(Rook, c) /\ h # from /\ s.squares[from] = king /\ h \in Square
    BY <1>1, CastlingMove, PieceOf DEF IsCastle
  <2>. QED
    BY <1>1, <1>3, <1>4, <2>1, <2>2
<1>6. ASSUME NEW i \in Square
      PROVE  after[i] = king <=> i = IF from = k THEN to ELSE k
  <2>1. after[i] = IF i = to THEN placed ELSE IF i = from THEN EMPTY
                   ELSE IF IsEnPassant(s, from, to) /\ i = EnPassantVictim(s, to) THEN EMPTY
                   ELSE IF IsCastle(s, from, to) /\ i = r THEN EMPTY
                   ELSE IF IsCastle(s, from, to) /\ i = h THEN Make(Rook, c)
                   ELSE s.squares[i]
    BY MovedAt
  <2>. HIDE DEF after, placed, r, h, king
  <2>. QED
    BY <1>1, <1>3, <1>4, <1>5, <2>1
<1>. DEFINE k1 == IF from = k THEN to ELSE k
<1>7. k1 \in Square
  BY <1>1
<1>8. Kings(after, c) = {k1}
  <2>. HIDE DEF after, k1
  <2>. QED
    BY <1>6, <1>7 DEF Kings, k1
<1>. QED
  BY <1>7, <1>8

\* The responder's king is not taken.
LEMMA OtherKing ==
  ASSUME NEW s, Typed(s), InOrder(s), NEW from, NEW to, Own(s, from, to),
         NEW promotion, Shape(s, from, to)
  PROVE  Kings(Moved(s, from, to, promotion), 1 - s.side_to_move) # {}
<1>. DEFINE c == s.side_to_move
            after == Moved(s, from, to, promotion)
            placed == Placed(s, from, to, promotion)
            files == CastlingFiles(KingSide(to))
            r == Sq(files.rook, HomeRank(c))
            h == Sq(files.hop, HomeRank(c))
            v == EnPassantVictim(s, to)
            king == Make(King, 1 - c)
<1>1. /\ from \in Square /\ to \in Square /\ c \in {0, 1} /\ 1 - c \in {0, 1} /\ c # 1 - c
      /\ Color(s.squares[from]) = c /\ s.squares[to] # king
      /\ Color(king) = 1 - c /\ Kind(king) = King /\ king # EMPTY
  BY KingNotTaken, MakeOf DEF Own, Typed, King
<1>2. PICK k \in Square : Kings(s.squares, 1 - c) = {k}
  BY <1>1 DEF InOrder, KingsInOrder
<1>3. s.squares[k] = king /\ k # to /\ k # from
  BY <1>1, <1>2 DEF Kings
<1>4. /\ IsEnPassant(s, from, to) => s.squares[v] = Make(Pawn, 1 - c)
      /\ IsCastle(s, from, to) => s.squares[r] = Make(Rook, c) /\ s.squares[h] = EMPTY
  <2>1. IsEnPassant(s, from, to) => s.squares[v] = Make(Pawn, 1 - c)
    BY <1>1, VictimIsPawn DEF IsEnPassant
  <2>2. IsCastle(s, from, to) => s.squares[r] = Make(Rook, c) /\ s.squares[h] = EMPTY
    BY DEF IsCastle, Castles, CastlingFiles
  <2>. QED
    BY <2>1, <2>2
<1>5. king # Make(Pawn, 1 - c) /\ king # Make(Rook, c)
  BY <1>1 DEF Make, King, Pawn, Rook
<1>6. after[k] = IF k = to THEN placed ELSE IF k = from THEN EMPTY
                 ELSE IF IsEnPassant(s, from, to) /\ k = v THEN EMPTY
                 ELSE IF IsCastle(s, from, to) /\ k = r THEN EMPTY
                 ELSE IF IsCastle(s, from, to) /\ k = h THEN Make(Rook, c)
                 ELSE s.squares[k]
  BY MovedAt
<1>7. after[k] = king
  <2>. HIDE DEF after, placed, r, h, v, king
  <2>. QED
    BY <1>1, <1>3, <1>4, <1>5, <1>6
<1>. QED
  BY <1>7 DEF Kings

\* The engine's validators against the laws' ways to move.
LEMMA ShapeAgrees ==
  ASSUME NEW s, Typed(s), InOrder(s), NEW b, Shows(b, s.squares), NEW from, NEW to,
         Own(s, from, to), NEW moved, RightsKnown(s, moved)
  PROVE  LET x == Coord(from) y == Coord(to) IN
         Shape(s, from, to) <=>
           \/ b[x].kind = "pawn" /\ Rules!PawnMove(b, TargetCoord(s), x, y)
           \/ b[x].kind # "pawn" /\ Rules!Attacks(b, x, y)
           \/ Rules!Castling(b, StillCoords(moved), x, y)
<1>. DEFINE x == Coord(from)
            y == Coord(to)
            kind == Kind(s.squares[from])
            castling == Rules!Castling(b, StillCoords(moved), x, y)
<1>1. /\ from \in Square /\ to \in Square /\ from # to /\ s.squares[from] # EMPTY
      /\ kind \in {Pawn, Knight, Bishop, Rook, Queen, King}
      /\ b[x].kind = KindName(kind)
  <2>1. /\ from \in Square /\ to \in Square /\ from # to /\ s.squares[from] # EMPTY
    BY DEF Own
  <2>2. /\ kind \in {Pawn, Knight, Bishop, Rook, Queen, King}
        /\ b[x] = [kind |-> KindName(kind), color |-> ColorName(s.side_to_move)]
    BY OwnFaces
  <2>. QED
    BY <2>1, <2>2
<1>2. /\ b[x].kind = "pawn" <=> kind = Pawn
      /\ castling => kind = King
  <2>1. /\ b[x].kind = "pawn" <=> kind = Pawn
        /\ b[x].kind = "king" <=> kind = King
    BY <1>1, KindNames DEF Pawn, Knight, Bishop, Rook, Queen, King
  <2>. QED
    BY <2>1 DEF Rules!Castling
<1>3. Rules!Attacks(b, x, y) <=> Hits(s.squares, from, to)
  BY <1>1, HitsIsAttack
<1>4. CASE kind = Pawn
  <2>1. Shape(s, from, to) <=> ValidatePawn(s, from, to)
    BY <1>4 DEF Shape, Pawn, Knight, Bishop, Rook, Queen, King
  <2>2. ~castling
    BY <1>2, <1>4 DEF Pawn, King
  <2>3. ValidatePawn(s, from, to) <=> Rules!PawnMove(b, TargetCoord(s), x, y)
    BY <1>4, PawnAgrees
  <2>. HIDE DEF x, y, castling, kind
  <2>. QED
    BY <1>2, <1>4, <2>1, <2>2, <2>3 DEF x, y, castling
<1>5. CASE kind = King
  <2>1. Shape(s, from, to) <=> OneStep(from, to) \/ Castles(s, from, to)
    BY <1>5 DEF Shape, ValidateKing, Pawn, Knight, Bishop, Rook, Queen, King
  <2>2. Hits(s.squares, from, to) <=> OneStep(from, to)
    BY <1>5 DEF Hits, Pawn, Knight, Bishop, Rook, Queen, King
  <2>3. Castles(s, from, to) <=> castling
    BY <1>5, CastleAgrees
  <2>4. kind # Pawn
    BY <1>5 DEF Pawn, King
  <2>. HIDE DEF x, y, castling, kind
  <2>. QED
    BY <1>2, <1>3, <2>1, <2>2, <2>3, <2>4 DEF x, y, castling
<1>6. CASE kind \notin {Pawn, King}
  <2>1. Shape(s, from, to) <=> Hits(s.squares, from, to)
    <3>1. \A dirs : ValidateSlider(s, from, to, dirs) <=> Reaches(s.squares, from, to, dirs)
      BY DEF ValidateSlider, Reaches
    <3>2. kind # Pawn /\ kind # King
      BY <1>6
    <3>. QED
      BY <3>1, <3>2, Zenon DEF Shape, Hits
  <2>2. ~castling
    BY <1>2, <1>6
  <2>. HIDE DEF x, y, castling, kind
  <2>. QED
    BY <1>2, <1>3, <1>6, <2>1, <2>2 DEF x, y, castling
<1>. QED
  BY <1>4, <1>5, <1>6

\* apply_move accepts exactly the legal moves, in every position in order.
LEMMA LegalAgrees ==
  ASSUME NEW s, Typed(s), InOrder(s), NEW b, Shows(b, s.squares),
         NEW from \in Square, NEW to \in Square, NEW promotion \in 0..6,
         NEW moved, RightsKnown(s, moved)
  PROVE  Legal(s, from, to, promotion) <=>
           Rules!LegalMove(b, ColorName(s.side_to_move), TargetCoord(s), StillCoords(moved),
                           Coord(from), Coord(to), KindName(promotion))
<1>. DEFINE c == s.side_to_move
            x == Coord(from)
            y == Coord(to)
            color == ColorName(c)
            name == KindName(promotion)
            ep == TargetCoord(s)
            still == StillCoords(moved)
            after == Moved(s, from, to, promotion)
            next == Rules!Play(b, ep, x, y, name)
            way == \/ b[x].kind = "pawn" /\ Rules!PawnMove(b, ep, x, y)
                   \/ b[x].kind # "pawn" /\ Rules!Attacks(b, x, y)
                   \/ Rules!Castling(b, still, x, y)
            fit == IF b[x].kind = "pawn" /\ y[2] = Rules!Rank(color, 8)
                   THEN name \in {"queen", "rook", "bishop", "knight"}
                   ELSE name = "none"
<1>1. Rules!LegalMove(b, color, ep, still, x, y, name) <=>
        /\ b[x].color = color /\ b[y].color # color
        /\ fit /\ way /\ ~Rules!Checked(next, color)
  BY DEF Rules!LegalMove
<1>2. Legal(s, from, to, promotion) <=>
        /\ Own(s, from, to) /\ PromotionOk(s, from, to, promotion)
        /\ Shape(s, from, to) /\ KingSafe(s, from, to, promotion)
  BY OtherKing DEF Legal, Own
<1>3. Own(s, from, to) <=> b[x].color = color /\ b[y].color # color
  <2>1. /\ c \in {0, 1} /\ s.squares[from] \in 0..12 /\ s.squares[to] \in 0..12
        /\ b[x] = Face(s.squares[from]) /\ b[y] = Face(s.squares[to])
    BY DEF Typed, Shows
  <2>2. /\ b[x].color = color <=> s.squares[from] # EMPTY /\ Color(s.squares[from]) = c
        /\ b[y].color = color <=> s.squares[to] # EMPTY /\ Color(s.squares[to]) = c
    BY <2>1, Faces
  <2>. HIDE DEF x, y, color
  <2>. QED
    BY <2>2 DEF Own
<1>. SUFFICES ASSUME Own(s, from, to)
              PROVE  (/\ PromotionOk(s, from, to, promotion) /\ Shape(s, from, to)
                      /\ KingSafe(s, from, to, promotion))
                     <=> (fit /\ way /\ ~Rules!Checked(next, color))
  <2>. HIDE DEF fit, way, next
  <2>. QED
    BY <1>1, <1>2, <1>3
<1>4. PromotionOk(s, from, to, promotion) <=> fit
  <2>1. /\ c \in {0, 1} /\ b[x].kind = KindName(Kind(s.squares[from]))
        /\ Kind(s.squares[from]) \in {Pawn, Knight, Bishop, Rook, Queen, King}
    <3>1. /\ c \in {0, 1}
          /\ Kind(s.squares[from]) \in {Pawn, Knight, Bishop, Rook, Queen, King}
          /\ b[x] = [kind |-> KindName(Kind(s.squares[from])), color |-> color]
      BY OwnFaces
    <3>. QED
      BY <3>1
  <2>2. b[x].kind = "pawn" <=> Kind(s.squares[from]) = Pawn
    BY <2>1, KindNames DEF Pawn, Knight, Bishop, Rook, Queen, King
  <2>3. y[2] = Rules!Rank(color, 8) <=> RankOf(to) = LastRank(c)
    BY <2>1, CoordOf, SquareOf DEF Rules!Rank, ColorName, LastRank
  <2>4. /\ promotion \in {Knight, Bishop, Rook, Queen} <=>
             name \in {"queen", "rook", "bishop", "knight"}
        /\ promotion = 0 <=> name = "none"
    <3>1. promotion \in {EMPTY, Pawn, Knight, Bishop, Rook, Queen, King} /\ EMPTY = 0
      BY DEF EMPTY, Pawn, Knight, Bishop, Rook, Queen, King
    <3>2. \A m, n \in {EMPTY, Pawn, Knight, Bishop, Rook, Queen, King} :
            KindName(m) = KindName(n) => m = n
      BY KindNames
    <3>. QED
      BY <3>1, <3>2, KindNames
  <2>. HIDE DEF x, y, c, color, name
  <2>. QED
    BY <2>2, <2>3, <2>4 DEF PromotionOk, Promotes, c
<1>5. Shape(s, from, to) <=> way
  BY ShapeAgrees
<1>6. ASSUME PromotionOk(s, from, to, promotion), Shape(s, from, to)
      PROVE  KingSafe(s, from, to, promotion) <=> ~Rules!Checked(next, color)
  <2>1. Shows(next, after) /\ c \in {0, 1}
    BY <1>6, PlayAgrees DEF Typed
  <2>2. PICK k \in Square : Kings(after, c) = {k}
    BY <1>6, OneKing
  <2>. HIDE DEF next, after
  <2>3. InCheck(after, c) <=> Rules!Checked(next, color)
    BY <2>1, <2>2, CheckAgrees
  <2>. QED
    BY <2>2, <2>3 DEF KingSafe, after
<1>. HIDE DEF fit, way, next, color
<1>. QED
  BY <1>4, <1>5, <1>6

-----------------------------------------------------------------------------
(* The engine's target and the move before.                                *)

\* A double push is told by where a pawn came from and where it stands.
LEMMA PushTells ==
  ASSUME NEW s, Typed(s), NEW from \in Square, NEW to \in Square, NEW promotion,
         Legal(s, from, to, promotion)
  PROVE  LET push == Kind(s.squares[from]) = Pawn /\ DoublePush(s, from, to) IN
         /\ push <=> Dist(from, to) = 16 /\ Kind(Placed(s, from, to, promotion)) = Pawn
         /\ push => /\ ~IsEnPassant(s, from, to) /\ ~IsCastle(s, from, to)
                    /\ s.squares[to] = EMPTY
                    /\ from + Dir(s.side_to_move) = (from + to) \div 2
<1>. DEFINE c == s.side_to_move
            push == Kind(s.squares[from]) = Pawn /\ DoublePush(s, from, to)
            placed == Placed(s, from, to, promotion)
<1>1. /\ PromotionOk(s, from, to, promotion) /\ Shape(s, from, to)
      /\ c \in {0, 1} /\ from \in Int /\ to \in Int
  BY DEF Legal, Typed, Square
<1>2. ASSUME push
      PROVE  /\ ~IsEnPassant(s, from, to) /\ ~IsCastle(s, from, to)
             /\ s.squares[to] = EMPTY /\ from + Dir(c) = (from + to) \div 2
             /\ Dist(from, to) = 16 /\ Kind(placed) = Pawn
  <2>1. to - from = 2 * Dir(c) /\ s.squares[to] = EMPTY /\ RankOf(from) = StartRank(c)
    BY <1>2 DEF DoublePush
  <2>2. ~IsCastle(s, from, to)
    BY <1>2 DEF IsCastle, Pawn, King
  <2>3. ~IsEnPassant(s, from, to)
    BY <1>1, <2>1 DEF IsEnPassant, EnPassant, PawnCaptures, Dir
  <2>4. Dist(from, to) = 16 /\ from + Dir(c) = (from + to) \div 2
    BY <1>1, <2>1 DEF Dist, Dir
  <2>5. ~Promotes(s, from, to)
    <3>1. RankOf(to) = RankOf(from) + IF c = 0 THEN 2 ELSE -2
      BY <1>1, <2>1 DEF RankOf, Dir, Square
    <3>. QED
      BY <1>1, <2>1, <3>1 DEF Promotes, StartRank, LastRank
  <2>. QED
    BY <1>2, <2>1, <2>2, <2>3, <2>4, <2>5 DEF Placed
<1>3. ASSUME Dist(from, to) = 16, Kind(placed) = Pawn
      PROVE  push
  <2>1. ~Promotes(s, from, to)
    <3>1. ASSUME Promotes(s, from, to) PROVE FALSE
      <4>1. promotion \in {Knight, Bishop, Rook, Queen} /\ placed = Make(promotion, c)
        BY <1>1, <3>1 DEF PromotionOk, Placed
      <4>2. Kind(placed) = promotion
        BY <1>1, <4>1, MakeOf
      <4>. QED
        BY <1>3, <4>1, <4>2 DEF Pawn, Knight, Bishop, Rook, Queen
    <3>. QED
      BY <3>1
  <2>2. Kind(s.squares[from]) = Pawn
    BY <1>3, <2>1 DEF Placed
  <2>3. ValidatePawn(s, from, to)
    BY <1>1, <2>2 DEF Shape, Pawn, Knight, Bishop, Rook, Queen, King
  <2>4. to - from # Dir(c) /\ ~PawnCaptures(s, from, to)
    BY <1>1, <1>3 DEF Dist, Dir, PawnCaptures
  <2>. QED
    BY <2>2, <2>3, <2>4 DEF ValidatePawn, EnPassant
<1>. QED
  BY <1>2, <1>3

\* What the move from s to t emptied and filled.
Vacated(s, t) == {i \in Square : s.squares[i] # EMPTY /\ t.squares[i] = EMPTY}
Entered(s, t) == {i \in Square : s.squares[i] = EMPTY /\ t.squares[i] # EMPTY}

\* A double push is seen from the boards before and after it.
LEMMA PushSeen ==
  ASSUME NEW s, Typed(s), InOrder(s), NEW from \in Square, NEW to \in Square,
         NEW promotion, Legal(s, from, to, promotion),
         NEW t, t.squares = Moved(s, from, to, promotion)
  PROVE  LET push == Kind(s.squares[from]) = Pawn /\ DoublePush(s, from, to) IN
         /\ push <=> \E f, g \in Square :
                       /\ Vacated(s, t) = {f} /\ Entered(s, t) = {g}
                       /\ Dist(f, g) = 16 /\ Kind(t.squares[g]) = Pawn
         /\ push => Vacated(s, t) = {from}
<1>. DEFINE c == s.side_to_move
            push == Kind(s.squares[from]) = Pawn /\ DoublePush(s, from, to)
            placed == Placed(s, from, to, promotion)
            files == CastlingFiles(KingSide(to))
            v == EnPassantVictim(s, to)
            r == Sq(files.rook, HomeRank(c))
            h == Sq(files.hop, HomeRank(c))
            ep == IsEnPassant(s, from, to)
            castle == IsCastle(s, from, to)
<1>1. /\ Own(s, from, to) /\ PromotionOk(s, from, to, promotion) /\ Shape(s, from, to)
      /\ c \in {0, 1} /\ s.squares[from] # EMPTY /\ from # to
  BY DEF Legal, Own, Typed
<1>2. \A i \in Square :
        t.squares[i] =
          IF i = to THEN placed ELSE IF i = from THEN EMPTY
          ELSE IF ep /\ i = v THEN EMPTY
          ELSE IF castle /\ i = r THEN EMPTY
          ELSE IF castle /\ i = h THEN Make(Rook, c) ELSE s.squares[i]
  BY <1>1, MovedAt
<1>3. placed # EMPTY
  BY PlacedPiece
<1>4. from \in Vacated(s, t)
  BY <1>1, <1>2 DEF Vacated
<1>5. castle => r \in Vacated(s, t) /\ r # from
  <2>. SUFFICES ASSUME castle PROVE r \in Vacated(s, t) /\ r # from
    OBVIOUS
  <2>1. /\ r \in Square \ {from, to, h} /\ s.squares[r] = Make(Rook, c)
    BY <1>1, CastlingMove DEF IsCastle
  <2>2. Make(Rook, c) # EMPTY
    BY <1>1, MakeOf
  <2>3. t.squares[r] = EMPTY
    <3>. HIDE DEF r, h, v, placed, ep, castle
    <3>. QED
      BY <1>2, <2>1
  <2>. HIDE DEF r
  <2>. QED
    BY <2>1, <2>2, <2>3 DEF Vacated
<1>6. ep => v \in Vacated(s, t) /\ v # from
  <2>. SUFFICES ASSUME ep PROVE v \in Vacated(s, t) /\ v # from
    OBVIOUS
  <2>1. v \in Square \ {from, to} /\ s.squares[v] # EMPTY
    BY <1>1, PassingMove DEF IsEnPassant, EnPassant
  <2>2. t.squares[v] = EMPTY
    <3>. HIDE DEF r, h, v, placed, ep, castle
    <3>. QED
      BY <1>2, <2>1
  <2>. HIDE DEF v
  <2>. QED
    BY <2>1, <2>2 DEF Vacated
<1>7. ~ep /\ ~castle => /\ Vacated(s, t) = {from}
                        /\ Entered(s, t) = IF s.squares[to] = EMPTY THEN {to} ELSE {}
  <2>. HIDE DEF r, h, v, placed, ep, castle
  <2>. QED
    BY <1>1, <1>2, <1>3 DEF Vacated, Entered
<1>8. t.squares[to] = placed
  BY <1>2
<1>9. /\ push <=> Dist(from, to) = 16 /\ Kind(placed) = Pawn
      /\ push => ~ep /\ ~castle /\ s.squares[to] = EMPTY
  BY PushTells
<1>. HIDE DEF push, ep, castle, placed, v, r, h
<1>10. push <=> \E f, g \in Square :
                  /\ Vacated(s, t) = {f} /\ Entered(s, t) = {g}
                  /\ Dist(f, g) = 16 /\ Kind(t.squares[g]) = Pawn
  <2>1. ASSUME push
        PROVE  /\ Vacated(s, t) = {from} /\ Entered(s, t) = {to}
               /\ Dist(from, to) = 16 /\ Kind(t.squares[to]) = Pawn
    BY <1>7, <1>8, <1>9, <2>1
  <2>2. ASSUME NEW f \in Square, NEW g \in Square,
               Vacated(s, t) = {f}, Entered(s, t) = {g},
               Dist(f, g) = 16, Kind(t.squares[g]) = Pawn
        PROVE  push
    <3>1. f = from /\ ~ep /\ ~castle
      BY <1>4, <1>5, <1>6, <2>2
    <3>2. g = to
      BY <1>7, <2>2, <3>1
    <3>. QED
      BY <1>8, <1>9, <2>2, <3>1, <3>2
  <2>. QED
    BY <2>1, <2>2
<1>. QED
  BY <1>7, <1>9, <1>10 DEF push

\* The target a move leaves, from the move and the board after it.
LEMMA TargetTold ==
  ASSUME NEW s, Typed(s), InOrder(s), NEW from \in Square, NEW to \in Square,
         NEW promotion, Legal(s, from, to, promotion)
  PROVE  LET t == Apply(s, from, to, promotion) IN
         TargetCoord(t) = IF Kind(t.squares[to]) = Pawn /\ Dist(from, to) = 16
                          THEN Coord((from + to) \div 2) ELSE Rules!Nowhere
<1>. DEFINE c == s.side_to_move
            t == Apply(s, from, to, promotion)
            push == Kind(s.squares[from]) = Pawn /\ DoublePush(s, from, to)
<1>1. t.squares[to] = Placed(s, from, to, promotion)
  BY BoardAfter DEF Apply
<1>2. t.en_passant = IF push THEN from + Dir(c) ELSE None
  BY DEF Apply
<1>3. push => from + Dir(c) # None
  BY DEF DoublePush, Typed, Dir, None, Square, RankOf, StartRank
<1>. HIDE DEF push, t, c
<1>4. /\ push <=> Dist(from, to) = 16 /\ Kind(Placed(s, from, to, promotion)) = Pawn
      /\ push => from + Dir(c) = (from + to) \div 2
  BY PushTells DEF push, c
<1>. QED
  BY <1>1, <1>2, <1>3, <1>4 DEF TargetCoord, t

-----------------------------------------------------------------------------
(* The board as a whole.                                                   *)

\* The board of the properties shows the engine's board.
LEMMA BoardShown ==
  ASSUME NEW s, Typed(s)
  PROVE  Shows(BoardOf(s), s.squares) /\ BoardOf(s) \in Rules!Boards
<1>1. \A i \in Square : s.squares[i] \in 0..12
  BY DEF Typed
<1>2. \A x \in Rules!Coords : BoardOf(s)[x] = Face(s.squares[Sq(x[1] - 1, x[2] - 1)])
  BY DEF BoardOf, Face
<1>3. ASSUME NEW i \in Square
      PROVE  BoardOf(s)[Coord(i)] = Face(s.squares[i])
  <2>1. Coord(i) \in Rules!Coords
    BY CoordOf
  <2>2. Sq(Coord(i)[1] - 1, Coord(i)[2] - 1) = i
    BY <2>1, CoordOf, SquareAt
  <2>. QED
    BY <1>2, <2>1, <2>2
<1>4. ASSUME NEW x \in Rules!Coords
      PROVE  BoardOf(s)[x] \in [kind : Rules!Kinds, color : Rules!Colors] \cup {Rules!Nothing}
  <2>. DEFINE p == s.squares[Sq(x[1] - 1, x[2] - 1)]
  <2>1. p \in 0..12
    BY <1>1, SquareAt
  <2>2. BoardOf(s)[x] = Face(p)
    BY <1>2
  <2>. HIDE DEF p
  <2>3. CASE p = EMPTY
    BY <2>2, <2>3 DEF Face
  <2>4. CASE p # EMPTY
    <3>1. Color(p) \in {0, 1} /\ Kind(p) \in {Pawn, Knight, Bishop, Rook, Queen, King}
      BY <2>1, <2>4, PieceOf
    <3>2. KindName(Kind(p)) \in Rules!Kinds
      BY <3>1, KindNames DEF Rules!Kinds
    <3>3. ColorName(Color(p)) \in Rules!Colors
      BY DEF ColorName, Rules!Colors
    <3>. QED
      BY <2>2, <2>4, <3>2, <3>3 DEF Face
  <2>. QED
    BY <2>3, <2>4
<1>5. BoardOf(s) = [x \in Rules!Coords |-> BoardOf(s)[x]]
  BY DEF BoardOf
<1>6. BoardOf(s) \in Rules!Boards
  BY <1>4, <1>5 DEF Rules!Boards
<1>. QED
  BY <1>1, <1>3, <1>6 DEF Shows

\* From every square the engine lets a piece go where the laws do.
LEMMA ReachAgrees ==
  ASSUME NEW s, Typed(s), InOrder(s), NEW from \in Square, NEW promotion \in 0..6,
         NEW moved, RightsKnown(s, moved)
  PROVE  {Coord(to) : to \in {i \in Square : Legal(s, from, i, promotion)}} =
           Rules!Reach(BoardOf(s), ColorName(s.side_to_move), TargetCoord(s),
                       StillCoords(moved), Coord(from), KindName(promotion))
<1>. DEFINE b == BoardOf(s)
            law(y) == Rules!LegalMove(b, ColorName(s.side_to_move), TargetCoord(s),
                                      StillCoords(moved), Coord(from), y,
                                      KindName(promotion))
            engine == {Coord(to) : to \in {i \in Square : Legal(s, from, i, promotion)}}
            reach == Rules!Reach(b, ColorName(s.side_to_move), TargetCoord(s),
                                 StillCoords(moved), Coord(from), KindName(promotion))
<1>1. \A to \in Square : Legal(s, from, to, promotion) <=> law(Coord(to))
  BY BoardShown, LegalAgrees
<1>2. \A y : law(y) => b[Coord(from)].color = ColorName(s.side_to_move)
  BY DEF Rules!LegalMove
<1>3. reach = {y \in IF b[Coord(from)].color = ColorName(s.side_to_move)
                     THEN Rules!Coords ELSE {} : law(y)}
  BY DEF Rules!Reach
<1>. HIDE DEF law, reach, b
<1>4. \A y : y \in reach <=> y \in Rules!Coords /\ law(y)
  BY <1>2, <1>3
<1>5. \A y : y \in engine <=> \E to \in Square : Legal(s, from, to, promotion) /\ y = Coord(to)
  OBVIOUS
<1>6. \A y \in Rules!Coords : \E to \in Square : y = Coord(to)
  BY SquareAt
<1>7. \A to \in Square : Coord(to) \in Rules!Coords
  BY CoordOf
<1>. HIDE DEF engine
<1>8. \A y : y \in engine <=> y \in reach
  BY <1>1, <1>4, <1>5, <1>6, <1>7
<1>9. engine = reach
  BY <1>8
<1>. QED
  BY <1>9 DEF engine, reach, b

-----------------------------------------------------------------------------
(* Verdicts.                                                               *)

\* The candidates of the probe are all the moves the laws know.
LEMMA StuckAgrees ==
  ASSUME NEW s, Typed(s), InOrder(s), NEW b, Shows(b, s.squares),
         NEW moved, RightsKnown(s, moved)
  PROVE  Rules!Stuck(b, ColorName(s.side_to_move), TargetCoord(s), StillCoords(moved))
           <=> ~AnyLegal(s)
<1>. DEFINE law(x, y, name) == Rules!LegalMove(b, ColorName(s.side_to_move), TargetCoord(s),
                                               StillCoords(moved), x, y, name)
            Pieces == {0, Queen, Rook, Bishop, Knight}
            Names == {"none", "queen", "rook", "bishop", "knight"}
<1>1. AnyLegal(s) <=> \E from, to \in Square, p \in Pieces : Legal(s, from, to, p)
  <2>1. ASSUME NEW from \in Square, NEW to \in Square, NEW p \in Pieces,
               Legal(s, from, to, p)
        PROVE  p \in Promos(s, from, to) /\ s.squares[from] # EMPTY
                 /\ Color(s.squares[from]) = s.side_to_move
    BY <2>1 DEF Legal, PromotionOk, Promos
  <2>2. \A from, to \in Square : Promos(s, from, to) \subseteq Pieces
    BY DEF Promos
  <2>. HIDE DEF Pieces
  <2>. QED
    BY <2>1, <2>2 DEF AnyLegal
<1>2. /\ Pieces \subseteq 0..6
      /\ \A p \in Pieces : KindName(p) \in Names
      /\ \A name \in Names : \E p \in Pieces : KindName(p) = name
  <2>1. Pieces \subseteq 0..6
    BY DEF Queen, Rook, Bishop, Knight
  <2>2. KindName(0) = "none"
    BY KindNames DEF EMPTY
  <2>. QED
    BY <2>1, <2>2, KindNames
<1>3. \A from, to \in Square, p \in 0..6 :
        Legal(s, from, to, p) <=> law(Coord(from), Coord(to), KindName(p))
  BY LegalAgrees
<1>4. /\ \A i \in Square : Coord(i) \in Rules!Coords
      /\ \A x \in Rules!Coords : \E i \in Square : Coord(i) = x
  BY CoordOf, SquareAt
<1>5. Rules!Stuck(b, ColorName(s.side_to_move), TargetCoord(s), StillCoords(moved))
        <=> ~ \E x, y \in Rules!Coords, name \in Names : law(x, y, name)
  BY DEF Rules!Stuck
<1>. HIDE DEF law, Pieces, Names
<1>6. (\E from, to \in Square, p \in Pieces : Legal(s, from, to, p))
        => \E x, y \in Rules!Coords, name \in Names : law(x, y, name)
  BY <1>2, <1>3, <1>4
<1>7. ASSUME NEW x \in Rules!Coords, NEW y \in Rules!Coords, NEW name \in Names,
             law(x, y, name)
      PROVE  \E from, to \in Square, p \in Pieces : Legal(s, from, to, p)
  <2>1. PICK from \in Square : Coord(from) = x
    BY <1>4
  <2>2. PICK to \in Square : Coord(to) = y
    BY <1>4
  <2>3. PICK p \in Pieces : KindName(p) = name
    BY <1>2
  <2>. QED
    BY <1>2, <1>3, <1>7, <2>1, <2>2, <2>3
<1>. QED
  BY <1>1, <1>5, <1>6, <1>7

\* Check, mate and stalemate are the laws'.
LEMMA VerdictsAreLaws ==
  ASSUME NEW s, Typed(s), InOrder(s), NEW moved, RightsKnown(s, moved)
  PROVE  LET b == BoardOf(s)
             color == ColorName(s.side_to_move)
             ep == TargetCoord(s)
             still == StillCoords(moved)
             check == InCheck(s.squares, s.side_to_move)
         IN /\ check <=> Rules!Checked(b, color)
            /\ check /\ ~AnyLegal(s) <=> Rules!Checkmate(b, color, ep, still)
            /\ ~check /\ ~AnyLegal(s) <=> Rules!Stalemate(b, color, ep, still)
<1>1. Shows(BoardOf(s), s.squares) /\ s.side_to_move \in {0, 1}
  BY BoardShown DEF Typed
<1>2. PICK k \in Square : Kings(s.squares, s.side_to_move) = {k}
  BY <1>1 DEF InOrder, KingsInOrder
<1>3. InCheck(s.squares, s.side_to_move)
        <=> Rules!Checked(BoardOf(s), ColorName(s.side_to_move))
  BY <1>1, <1>2, CheckAgrees
<1>4. Rules!Stuck(BoardOf(s), ColorName(s.side_to_move), TargetCoord(s), StillCoords(moved))
        <=> ~AnyLegal(s)
  BY <1>1, StuckAgrees
<1>. QED
  BY <1>3, <1>4 DEF Rules!Checkmate, Rules!Stalemate

\* Moves revoke the rights whose home squares they touch, and no others.
LEMMA RightsKnownAfter ==
  ASSUME NEW s, Typed(s), InOrder(s), NEW from \in Square, NEW to \in Square,
         NEW promotion, Legal(s, from, to, promotion), NEW moved, RightsKnown(s, moved)
  PROVE  RightsKnown(Apply(s, from, to, promotion), moved \cup {from, to})
<1>1. Apply(s, from, to, promotion).castling_rights = s.castling_rights \ Revoked(from, to)
  BY DEF Apply
<1>2. ASSUME NEW right \in Rights, right \in s.castling_rights
      PROVE  right \in Revoked(from, to) <=> HomeSquares(right) \cap {from, to} # {}
  <2>1. to # Home(right).king
    BY <1>2, HomeKingStays
  <2>2. from = Home(right).king \/ Home(right).rook \in {from, to}
          <=> right \in Revoked(from, to)
    <3>1. CASE right = "W_KING_SIDE"
      BY <3>1 DEF Revoked, Home
    <3>2. CASE right = "W_QUEEN_SIDE"
      BY <3>2 DEF Revoked, Home
    <3>3. CASE right = "B_KING_SIDE"
      BY <3>3 DEF Revoked, Home
    <3>4. CASE right = "B_QUEEN_SIDE"
      BY <3>4 DEF Revoked, Home
    <3>. QED
      BY <1>2, <3>1, <3>2, <3>3, <3>4 DEF Rights
  <2>3. \A a, d : {a, d} \cap {from, to} # {} <=> a \in {from, to} \/ d \in {from, to}
    OBVIOUS
  <2>. QED
    BY <2>1, <2>2, <2>3 DEF HomeSquares
<1>. QED
  BY <1>1, <1>2 DEF RightsKnown

-----------------------------------------------------------------------------
(* Positions drawn for want of material.                                   *)

MinorAt(s, i) ==
  s.squares[i] \in {Make(Knight, 0), Make(Bishop, 0), Make(Knight, 1), Make(Bishop, 1)}
KingAt(s, i) == s.squares[i] \in {Make(King, 0), Make(King, 1)}

\* Kings and one minor piece at most, or one bishop each, on squares of one colour.
OneMinor(s) == \E i \in Square : \A m \in Square : MinorAt(s, m) => m = i
TwinBishops(s) ==
  \E i, j \in Square : /\ s.squares[i] = Make(Bishop, 0) /\ s.squares[j] = Make(Bishop, 1)
                       /\ SquareColor(i) = SquareColor(j)
                       /\ \A m \in Square : MinorAt(s, m) => m \in {i, j}
Scarce(s) == /\ \A i \in Square : s.squares[i] = EMPTY \/ KingAt(s, i) \/ MinorAt(s, i)
             /\ OneMinor(s) \/ TwinBishops(s)

\* That is what the engine's count of pieces comes to.
LEMMA ScarceIs ==
  ASSUME NEW s, Typed(s)
  PROVE  IsInsufficientMaterial(s) <=> Scarce(s)
<1>. DEFINE minors(c) == Squares(s, {Make(Knight, c), Make(Bishop, c)})
            bishops(c) == Squares(s, {Make(Bishop, c)})
            heavy == Squares(s, {Make(k, c) : k \in {Pawn, Rook, Queen}, c \in {0, 1}})
            one(set) == \E i \in set : set = {i}
            twins == \E i, j \in Square : /\ minors(0) = {i} /\ bishops(0) = {i}
                                          /\ minors(1) = {j} /\ bishops(1) = {j}
                                          /\ SquareColor(i) = SquareColor(j)
<1>1. IsInsufficientMaterial(s) <=>
        /\ heavy = {}
        /\ \/ minors(0) = {} /\ (minors(1) = {} \/ one(minors(1)))
           \/ minors(1) = {} /\ one(minors(0))
           \/ twins
  BY DEF IsInsufficientMaterial
<1>2. \A i \in Square : s.squares[i] \in 0..12
  BY DEF Typed
<1>3. heavy = {} <=> \A i \in Square : s.squares[i] = EMPTY \/ KingAt(s, i) \/ MinorAt(s, i)
  <2>1. {Make(k, c) : k \in {Pawn, Rook, Queen}, c \in {0, 1}} = {1, 4, 5, 7, 10, 11}
    BY DEF Make, Pawn, Rook, Queen
  <2>2. \A p \in 0..12 : p \in {1, 4, 5, 7, 10, 11} <=>
          ~ (p = EMPTY \/ p \in {Make(King, 0), Make(King, 1)}
             \/ p \in {Make(Knight, 0), Make(Bishop, 0), Make(Knight, 1), Make(Bishop, 1)})
    BY DEF Make, EMPTY, King, Knight, Bishop
  <2>. QED
    BY <1>2, <2>1, <2>2 DEF Squares, KingAt, MinorAt
<1>4. /\ \A m \in Square : MinorAt(s, m) <=> m \in minors(0) \cup minors(1)
      /\ minors(0) \subseteq Square /\ minors(1) \subseteq Square
  BY DEF MinorAt, Squares
<1>5. minors(0) \cap minors(1) = {}
  BY DEF Squares, Make, Knight, Bishop
<1>6. \A c \in {0, 1} : \A i : i \in bishops(c) <=> i \in Square /\ s.squares[i] = Make(Bishop, c)
  BY DEF Squares
<1>7. \A c \in {0, 1} : bishops(c) \subseteq minors(c)
  BY DEF Squares
<1>. HIDE DEF minors, bishops, heavy
<1>8. OneMinor(s) <=> \/ minors(0) = {} /\ (minors(1) = {} \/ one(minors(1)))
                      \/ minors(1) = {} /\ one(minors(0))
  <2>1. OneMinor(s) <=> \E i \in Square : minors(0) \cup minors(1) \subseteq {i}
    BY <1>4 DEF OneMinor
  <2>2. 0 \in Square
    BY DEF Square
  <2>. QED
    BY <1>4, <1>5, <2>1, <2>2
<1>9. TwinBishops(s) <=> twins
  <2>1. ASSUME NEW i \in Square, NEW j \in Square
        PROVE  (/\ s.squares[i] = Make(Bishop, 0) /\ s.squares[j] = Make(Bishop, 1)
                /\ \A m \in Square : MinorAt(s, m) => m \in {i, j})
               <=> (/\ minors(0) = {i} /\ bishops(0) = {i}
                    /\ minors(1) = {j} /\ bishops(1) = {j})
    <3>1. s.squares[i] = Make(Bishop, 0) <=> i \in bishops(0)
      BY <1>6
    <3>2. s.squares[j] = Make(Bishop, 1) <=> j \in bishops(1)
      BY <1>6
    <3>3. (\A m \in Square : MinorAt(s, m) => m \in {i, j})
          <=> minors(0) \cup minors(1) \subseteq {i, j}
      BY <1>4
    <3>4. bishops(0) \subseteq minors(0) /\ bishops(1) \subseteq minors(1)
      BY <1>7
    <3>. QED
      BY <1>5, <3>1, <3>2, <3>3, <3>4
  <2>. QED
    BY <2>1 DEF TwinBishops
<1>. QED
  BY <1>1, <1>3, <1>8, <1>9 DEF Scarce

\* Bishops keep the colour of their square.
LEMMA BishopColor ==
  ASSUME NEW i \in Square, NEW d \in Diagonals, NEW k \in Ray[i][d]
  PROVE  i + k * d \in Square /\ SquareColor(i + k * d) = SquareColor(i)
<1>1. d \in Directions /\ k \in 1..7 /\ k \in Walk(i, d)
  BY DEF Ray, Walk, Directions
<1>2. /\ FileOf(i) + k * FileStep(d) \in 0..7 /\ RankOf(i) + k * RankStep(d) \in 0..7
  BY <1>1, WalkOn
<1>3. /\ i + k * d \in Square
      /\ FileOf(i + k * d) = FileOf(i) + k * FileStep(d)
      /\ RankOf(i + k * d) = RankOf(i) + k * RankStep(d)
  BY <1>1, <1>2, WalkTo
<1>4. FileStep(d) \in {-1, 1} /\ RankStep(d) \in {-1, 1}
  BY <1>1, Steps
<1>5. /\ k * FileStep(d) \in {k, -k} /\ k * RankStep(d) \in {k, -k}
  BY <1>1, <1>4, SmallProduct
<1>6. \A f, r \in 0..7 : \A n \in 1..7 : \A u, v \in {n, -n} :
        ((f + u) + (r + v)) % 2 = (f + r) % 2
  OBVIOUS
<1>. QED
  BY <1>1, <1>3, <1>5, <1>6, SquareOf DEF SquareColor

\* Knights change it.
LEMMA KnightColor ==
  ASSUME NEW i \in Square, NEW j \in Square, KnightShape(i, j)
  PROVE  SquareColor(j) # SquareColor(i)
<1>1. /\ FileOf(i) \in 0..7 /\ RankOf(i) \in 0..7 /\ FileOf(j) \in 0..7 /\ RankOf(j) \in 0..7
  BY SquareOf
<1>2. \/ Dist(FileOf(i), FileOf(j)) = 1 /\ Dist(RankOf(i), RankOf(j)) = 2
      \/ Dist(FileOf(i), FileOf(j)) = 2 /\ Dist(RankOf(i), RankOf(j)) = 1
  BY DEF KnightShape
<1>. QED
  BY <1>1, <1>2 DEF Dist, SquareColor

\* Nothing but plain moves is left.
LEMMA PlainMove ==
  ASSUME NEW s, Typed(s), Scarce(s), NEW from \in Square, NEW to \in Square, NEW promotion,
         s.squares[from] # EMPTY
  PROVE  /\ Kind(s.squares[from]) \in {King, Knight, Bishop}
         /\ Moved(s, from, to, promotion) =
              [s.squares EXCEPT ![from] = EMPTY, ![to] = s.squares[from]]
<1>. DEFINE p == s.squares[from]
            c == s.side_to_move
<1>1. Kind(p) \in {King, Knight, Bishop}
  BY DEF Scarce, KingAt, MinorAt, Kind, Make, King, Knight, Bishop, EMPTY
<1>2. Kind(p) # Pawn
  BY <1>1 DEF King, Knight, Bishop, Pawn
<1>3. ~IsCastle(s, from, to)
  <2>1. \A i \in Square : s.squares[i] # Make(Rook, c)
    <3>1. c \in {0, 1} /\ Make(Rook, 0) = 4 /\ Make(Rook, 1) = 10
      BY DEF Typed, Make, Rook
    <3>2. \A i \in Square : s.squares[i] = EMPTY \/ KingAt(s, i) \/ MinorAt(s, i)
      BY DEF Scarce
    <3>3. /\ EMPTY = 0 /\ Make(King, 0) = 6 /\ Make(King, 1) = 12
          /\ Make(Knight, 0) = 2 /\ Make(Knight, 1) = 8
          /\ Make(Bishop, 0) = 3 /\ Make(Bishop, 1) = 9
      BY DEF EMPTY, Make, King, Knight, Bishop
    <3>4. Make(Rook, c) \in {4, 10}
      BY <3>1
    <3>5. ASSUME NEW i \in Square PROVE s.squares[i] # Make(Rook, c)
      <4>1. s.squares[i] \in {0, 2, 3, 6, 8, 9, 12}
        BY <3>2, <3>3 DEF KingAt, MinorAt
      <4>. HIDE DEF c
      <4>. QED
        BY <3>4, <4>1
    <3>. QED
      BY <3>5
  <2>2. Sq(CastlingFiles(KingSide(to)).rook, HomeRank(c)) \in Square
    BY DEF CastlingFiles, HomeRank, Sq, Square
  <2>. QED
    BY <2>1, <2>2 DEF IsCastle, Castles
<1>4. ~IsEnPassant(s, from, to) /\ ~Promotes(s, from, to)
  BY <1>2 DEF IsEnPassant, Promotes
<1>. QED
  BY <1>1, <1>3, <1>4 DEF Moved

\* A bishop that moves stays on its colour.
LEMMA BishopStays ==
  ASSUME NEW s, NEW from \in Square, NEW to \in Square,
         Kind(s.squares[from]) = Bishop, Shape(s, from, to)
  PROVE  SquareColor(to) = SquareColor(from)
<1>1. ValidateSlider(s, from, to, Diagonals)
  BY DEF Shape, Pawn, Knight, Bishop, Rook, Queen, King
<1>2. PICK d \in Diagonals : \E k \in Ray[from][d] : from + k * d = to
  BY <1>1 DEF ValidateSlider
<1>3. PICK k \in Ray[from][d] : from + k * d = to
  BY <1>2
<1>. QED
  BY <1>3, BishopColor

\* No legal move brings material back.
LEMMA ScarceKept ==
  ASSUME NEW s, Typed(s), Scarce(s), NEW from \in Square, NEW to \in Square, NEW promotion,
         Legal(s, from, to, promotion),
         NEW t, t.squares = Moved(s, from, to, promotion)
  PROVE  Scarce(t)
<1>. DEFINE p == s.squares[from]
            c == s.side_to_move
<1>1. /\ p # EMPTY /\ from # to /\ Shape(s, from, to) /\ c \in {0, 1}
      /\ Color(p) = c /\ p \in 0..12
  BY DEF Legal, Typed
<1>2. /\ t.squares[from] = EMPTY /\ t.squares[to] = p
      /\ \A i \in Square \ {from, to} : t.squares[i] = s.squares[i]
  BY <1>1, PlainMove DEF Typed
<1>3. ~MinorAt(t, from) /\ ~KingAt(t, from)
  BY <1>2 DEF MinorAt, KingAt, EMPTY, Make, Knight, Bishop, King
<1>4. /\ MinorAt(t, to) <=> MinorAt(s, from)
      /\ \A i \in Square \ {from, to} : MinorAt(t, i) <=> MinorAt(s, i)
  BY <1>2 DEF MinorAt
<1>5. \A i \in Square : t.squares[i] = EMPTY \/ KingAt(t, i) \/ MinorAt(t, i)
  BY <1>2 DEF Scarce, KingAt, MinorAt
<1>6. CASE OneMinor(s)
  <2>1. PICK i \in Square : \A m \in Square : MinorAt(s, m) => m = i
    BY <1>6 DEF OneMinor
  <2>2. CASE i = from
    <3>1. \A m \in Square : MinorAt(t, m) => m = to
      BY <2>1, <2>2, <1>3, <1>4
    <3>. QED
      BY <1>5, <3>1 DEF Scarce, OneMinor
  <2>3. CASE i # from
    <3>1. \A m \in Square : MinorAt(t, m) => m = i
      BY <2>1, <2>3, <1>3, <1>4
    <3>. QED
      BY <1>5, <3>1 DEF Scarce, OneMinor
  <2>. QED
    BY <2>2, <2>3
<1>7. CASE TwinBishops(s)
  <2>1. PICK i \in Square, j \in Square :
          /\ s.squares[i] = Make(Bishop, 0) /\ s.squares[j] = Make(Bishop, 1)
          /\ SquareColor(i) = SquareColor(j)
          /\ \A m \in Square : MinorAt(s, m) => m \in {i, j}
    BY <1>7 DEF TwinBishops
  <2>2. i # j
    BY <2>1 DEF Make, Bishop
  <2>3. CASE to \in {i, j}
    <3>1. PICK m \in {i, j} : m # to /\ {i, j} = {m, to}
      BY <2>2, <2>3
    <3>2. m \in Square
      OBVIOUS
    <3>3. from = m => \A n \in Square : MinorAt(t, n) => n = to
      BY <2>1, <3>1, <1>3, <1>4
    <3>4. from # m => \A n \in Square : MinorAt(t, n) => n = m
      <4>1. from # m => ~MinorAt(s, from)
        BY <2>1, <3>1, <1>1
      <4>. QED
        BY <2>1, <3>1, <4>1, <1>3, <1>4
    <3>. QED
      BY <1>5, <3>2, <3>3, <3>4 DEF Scarce, OneMinor
  <2>4. CASE to \notin {i, j} /\ from \notin {i, j}
    <3>1. \A n \in Square : MinorAt(t, n) => n \in {i, j}
      BY <2>1, <2>4, <1>3, <1>4
    <3>2. t.squares[i] = s.squares[i] /\ t.squares[j] = s.squares[j]
      BY <2>4, <1>2
    <3>. QED
      BY <1>5, <2>1, <3>1, <3>2 DEF Scarce, TwinBishops
  <2>5. CASE to \notin {i, j} /\ from \in {i, j}
    <3>1. Kind(p) = Bishop
      BY <2>1, <2>5, MakeOf
    <3>2. SquareColor(to) = SquareColor(from)
      BY <3>1, <1>1, BishopStays
    <3>3. CASE from = i
      <4>1. \A n \in Square : MinorAt(t, n) => n \in {to, j}
        BY <2>1, <3>3, <1>3, <1>4
      <4>2. /\ t.squares[to] = Make(Bishop, 0) /\ t.squares[j] = Make(Bishop, 1)
            /\ SquareColor(to) = SquareColor(j)
        BY <2>1, <2>2, <2>5, <3>2, <3>3, <1>2
      <4>. QED
        BY <1>5, <4>1, <4>2 DEF Scarce, TwinBishops
    <3>4. CASE from = j
      <4>1. \A n \in Square : MinorAt(t, n) => n \in {i, to}
        BY <2>1, <3>4, <1>3, <1>4
      <4>2. /\ t.squares[i] = Make(Bishop, 0) /\ t.squares[to] = Make(Bishop, 1)
            /\ SquareColor(i) = SquareColor(to)
        BY <2>1, <2>2, <2>5, <3>2, <3>4, <1>2
      <4>. QED
        BY <1>5, <4>1, <4>2 DEF Scarce, TwinBishops
    <3>. QED
      BY <2>5, <3>3, <3>4
  <2>. QED
    BY <2>3, <2>4, <2>5
<1>. QED
  BY <1>6, <1>7 DEF Scarce

\* Of a king's steps along rank and file one leads away from the other king.
LEMMA StepAway ==
  ASSUME NEW k \in Square, NEW o \in Square, ~OneStep(k, o)
  PROVE  \E t \in Square : /\ t # k /\ OneStep(k, t) /\ ~OneStep(t, o)
                           /\ SquareColor(t) # SquareColor(k)
<1>. DEFINE f == FileOf(k)
            r == RankOf(k)
            f1 == IF f = 7 THEN 6 ELSE f + 1
            r1 == IF r = 7 THEN 6 ELSE r + 1
            h == Sq(f1, r)
            v == Sq(f, r1)
<1>1. f \in 0..7 /\ r \in 0..7 /\ f1 \in 0..7 /\ r1 \in 0..7
      /\ FileOf(o) \in 0..7 /\ RankOf(o) \in 0..7
  BY SquareOf
<1>2. /\ h \in Square /\ FileOf(h) = f1 /\ RankOf(h) = r
      /\ v \in Square /\ FileOf(v) = f /\ RankOf(v) = r1
  BY <1>1, FileAndRank
<1>3. /\ h # k /\ v # k /\ OneStep(k, h) /\ OneStep(k, v)
      /\ SquareColor(h) # SquareColor(k) /\ SquareColor(v) # SquareColor(k)
  <2>1. /\ f1 \in {f + 1, f - 1} /\ r1 \in {r + 1, r - 1}
    BY <1>1
  <2>2. \A a, b \in 0..7 : \A e \in {a + 1, a - 1} :
          e # a /\ Dist(a, e) = 1 /\ (e + b) % 2 # (a + b) % 2 /\ (b + e) % 2 # (b + a) % 2
    BY DEF Dist
  <2>3. \A a \in 0..7 : Dist(a, a) = 0
    BY DEF Dist
  <2>4. /\ FileOf(k) = f /\ RankOf(k) = r
    OBVIOUS
  <2>. HIDE DEF h, v, f1, r1, f, r
  <2>5. f1 # f /\ Dist(f, f1) = 1 /\ (f1 + r) % 2 # (f + r) % 2
    BY <1>1, <2>1, <2>2
  <2>6. r1 # r /\ Dist(r, r1) = 1 /\ (f + r1) % 2 # (f + r) % 2
    BY <1>1, <2>1, <2>2
  <2>7. Dist(f, f) = 0 /\ Dist(r, r) = 0
    BY <1>1, <2>3
  <2>. QED
    BY <1>2, <2>4, <2>5, <2>6, <2>7 DEF OneStep, SquareColor
<1>4. ~OneStep(h, o) \/ ~OneStep(v, o)
  <2>1. /\ f1 \in {f + 1, f - 1} /\ r1 \in {r + 1, r - 1}
    BY <1>1
  <2>. HIDE DEF h, v, f1, r1
  <2>. QED
    BY <1>1, <1>2, <2>1 DEF OneStep, Dist
<1>. QED
  BY <1>2, <1>3, <1>4

\* Such pieces do not stand on a board.
NoHeavy(squares, c) ==
  \A i \in Square : squares[i] \notin {Make(Pawn, c), Make(Rook, c), Make(Queen, c)}

\* Attacks without them: a knight's come from the other colour of squares, a
\* bishop's from the same one.
LEMMA LightAttack ==
  ASSUME NEW squares, NEW x \in Square, NEW c \in {0, 1}, NoHeavy(squares, c),
         IsSquareAttacked(squares, x, c)
  PROVE  \E i \in Square :
           \/ squares[i] = Make(Knight, c) /\ SquareColor(i) # SquareColor(x)
           \/ squares[i] = Make(Bishop, c) /\ SquareColor(i) = SquareColor(x)
           \/ squares[i] = Make(King, c) /\ OneStep(x, i)
<1>1. CASE \E i \in PawnSquares[c][x] : squares[i] = Make(Pawn, c)
  <2>1. PICK i \in PawnSquares[c][x] : squares[i] = Make(Pawn, c)
    BY <1>1
  <2>2. i \in Square
    BY DEF PawnSquares
  <2>. QED
    BY <2>1, <2>2 DEF NoHeavy
<1>2. CASE \E i \in KnightSquares[x] : squares[i] = Make(Knight, c)
  BY <1>2, KnightColor DEF KnightSquares
<1>3. CASE ScanRayFor(squares, x, Diagonals, {Make(Bishop, c), Make(Queen, c)})
  <2>1. PICK d \in Diagonals : \E k \in Ray[x][d] :
          squares[x + k * d] \in {Make(Bishop, c), Make(Queen, c)}
    BY <1>3 DEF ScanRayFor
  <2>2. PICK k \in Ray[x][d] : squares[x + k * d] \in {Make(Bishop, c), Make(Queen, c)}
    BY <2>1
  <2>3. x + k * d \in Square /\ SquareColor(x + k * d) = SquareColor(x)
    BY BishopColor
  <2>. QED
    BY <2>2, <2>3 DEF NoHeavy
<1>4. CASE ScanRayFor(squares, x, Orthogonals, {Make(Rook, c), Make(Queen, c)})
  <2>1. PICK d \in Orthogonals : \E k \in Ray[x][d] :
          squares[x + k * d] \in {Make(Rook, c), Make(Queen, c)}
    BY <1>4 DEF ScanRayFor
  <2>2. PICK k \in Ray[x][d] : squares[x + k * d] \in {Make(Rook, c), Make(Queen, c)}
    BY <2>1
  <2>3. k \in 1..7 /\ k \in 1..k /\ k \in Walk(x, d)
    BY DEF Ray, Walk
  <2>4. x + k * d \in Square
    BY <2>3 DEF Walk
  <2>. QED
    BY <2>2, <2>4 DEF NoHeavy
<1>5. CASE \E i \in Neighbours[x] : squares[i] = Make(King, c)
  BY <1>5 DEF Neighbours
<1>. QED
  BY <1>1, <1>2, <1>3, <1>4, <1>5 DEF IsSquareAttacked

\* Nobody is mated there: a king steps off the colour of squares its bishops
\* stand on, or back to the colour a knight attacks from.
LEMMA NoMate ==
  ASSUME NEW s, Typed(s), InOrder(s), Scarce(s), InCheck(s.squares, s.side_to_move)
  PROVE  AnyLegal(s)
<1>. DEFINE c == s.side_to_move
            f == s.squares
            knight == Make(Knight, 1 - c)
            bishop == Make(Bishop, 1 - c)
<1>1. c \in {0, 1} /\ 1 - c \in {0, 1} /\ f \in [Square -> 0..12]
  BY DEF Typed
<1>2. PICK k \in Square : Kings(f, c) = {k}
  BY <1>1 DEF InOrder, KingsInOrder
<1>3. PICK o \in Square : Kings(f, 1 - c) = {o}
  BY <1>1 DEF InOrder, KingsInOrder
<1>4. /\ f[k] = Make(King, c) /\ f[o] = Make(King, 1 - c) /\ o # k
  <2>1. f[k] = Make(King, c) /\ f[o] = Make(King, 1 - c)
    BY <1>2, <1>3 DEF Kings
  <2>2. Make(King, c) # Make(King, 1 - c)
    BY <1>1 DEF Make, King
  <2>. QED
    BY <2>1, <2>2
<1>5. ~OneStep(k, o)
  <2>. SUFFICES ASSUME OneStep(k, o) PROVE FALSE
    OBVIOUS
  <2>1. k \in Neighbours[o]
    BY <1>4, DistSymmetric, SquareOf DEF Neighbours, OneStep
  <2>2. IsSquareAttacked(f, o, c)
    BY <1>4, <2>1 DEF IsSquareAttacked
  <2>3. KingSquare(f, 1 - c) = o /\ 1 - (1 - c) = c
    BY <1>1, <1>3, TheKing
  <2>4. InCheck(f, 1 - c)
    BY <2>2, <2>3 DEF InCheck
  <2>. QED
    BY <2>4 DEF InOrder, KingsInOrder
<1>6. \A i \in Square : \/ f[i] = EMPTY \/ i = k \/ i = o \/ MinorAt(s, i)
  <2>1. \A i \in Square : KingAt(s, i) => i \in Kings(f, c) \cup Kings(f, 1 - c)
    BY <1>1 DEF KingAt, Kings
  <2>. QED
    BY <1>2, <1>3, <2>1 DEF Scarce
<1>7. NoHeavy(f, 1 - c)
  <2>1. \A i \in Square : s.squares[i] \in {0, 2, 3, 6, 8, 9, 12}
    <3>1. /\ EMPTY = 0 /\ Make(King, 0) = 6 /\ Make(King, 1) = 12
          /\ Make(Knight, 0) = 2 /\ Make(Knight, 1) = 8
          /\ Make(Bishop, 0) = 3 /\ Make(Bishop, 1) = 9
      BY DEF EMPTY, Make, King, Knight, Bishop
    <3>. QED
      BY <3>1 DEF Scarce, KingAt, MinorAt
  <2>2. {Make(Pawn, 1 - c), Make(Rook, 1 - c), Make(Queen, 1 - c)} \subseteq {1, 4, 5, 7, 10, 11}
    BY <1>1 DEF Make, Pawn, Rook, Queen
  <2>3. \A p \in {1, 4, 5, 7, 10, 11} : p \notin {0, 2, 3, 6, 8, 9, 12}
    OBVIOUS
  <2>. HIDE DEF c
  <2>. QED
    BY <2>1, <2>2, <2>3, Zenon DEF NoHeavy
<1>8. PICK a \in Square : \/ f[a] = knight /\ SquareColor(a) # SquareColor(k)
                          \/ f[a] = bishop /\ SquareColor(a) = SquareColor(k)
  <2>1. IsSquareAttacked(f, k, 1 - c)
    BY <1>1, <1>2, TheKing DEF InCheck
  <2>2. \A i \in Square : f[i] = Make(King, 1 - c) => i = o
    BY <1>3 DEF Kings
  <2>. QED
    BY <2>1, <2>2, <1>1, <1>5, <1>7, LightAttack
<1>9. knight # bishop /\ MinorAt(s, a)
  BY <1>1, <1>8 DEF MinorAt, Make, Knight, Bishop
\* With a bishop giving check every other minor piece is a bishop on its colour.
<1>10. \A m \in Square : MinorAt(s, m) =>
         \/ m = a
         \/ f[m] # knight /\ SquareColor(m) = SquareColor(k)
  <2>1. CASE OneMinor(s)
    BY <1>9, <2>1 DEF OneMinor
  <2>2. CASE TwinBishops(s)
    <3>1. PICK i \in Square, j \in Square :
            /\ f[i] = Make(Bishop, 0) /\ f[j] = Make(Bishop, 1)
            /\ SquareColor(i) = SquareColor(j)
            /\ \A m \in Square : MinorAt(s, m) => m \in {i, j}
      BY <2>2 DEF TwinBishops
    <3>2. f[i] # knight /\ f[j] # knight
      BY <1>1, <3>1 DEF Make, Knight, Bishop
    <3>3. SquareColor(a) = SquareColor(k) /\ a \in {i, j}
      BY <1>8, <1>9, <3>1, <3>2
    <3>. HIDE DEF knight
    <3>. QED
      BY <3>1, <3>2, <3>3
  <2>. QED
    BY <2>1, <2>2 DEF Scarce
\* The step away from the other king.
<1>11. PICK t \in Square : /\ t # k /\ OneStep(k, t) /\ ~OneStep(t, o)
                           /\ SquareColor(t) # SquareColor(k)
  BY <1>5, StepAway
<1>12. t # o
  BY <1>11, SquareOf DEF OneStep, Dist
<1>13. f[t] = EMPTY \/ t = a
  BY <1>6, <1>10, <1>11, <1>12
<1>14. Color(f[a]) # c
  BY <1>1, <1>8, MakeOf
<1>15. /\ f[k] # EMPTY /\ Color(f[k]) = c /\ Kind(f[k]) = King
  BY <1>1, <1>4, MakeOf
<1>16. Moved(s, k, t, 0) = [f EXCEPT ![k] = EMPTY, ![t] = Make(King, c)]
  BY <1>4, <1>15, PlainMove
<1>17. KingSafe(s, k, t, 0)
  <2>. DEFINE g == [f EXCEPT ![k] = EMPTY, ![t] = Make(King, c)]
  <2>1. /\ g[k] = EMPTY /\ g[t] = Make(King, c)
        /\ \A i \in Square \ {k, t} : g[i] = f[i]
    BY <1>1, <1>11
  <2>2. \A i \in Square, kind \in {Pawn, Knight, Bishop, Rook, Queen, King} :
          g[i] = Make(kind, 1 - c) => f[i] = Make(kind, 1 - c) /\ i \notin {k, t}
    <3>1. \A kind \in {Pawn, Knight, Bishop, Rook, Queen, King} :
            Make(kind, 1 - c) # EMPTY /\ Make(kind, 1 - c) # Make(King, c)
      BY <1>1, MakeOf
    <3>. HIDE DEF g
    <3>. QED
      BY <2>1, <3>1
  <2>. HIDE DEF g
  <2>3. Kings(g, c) = {t}
    <3>1. EMPTY # Make(King, c)
      BY <1>1, MakeOf
    <3>2. \A i \in Square \ {k} : f[i] # Make(King, c)
      BY <1>2 DEF Kings
    <3>. QED
      BY <2>1, <3>1, <3>2 DEF Kings
  <2>4. NoHeavy(g, 1 - c)
    BY <2>2, <1>7 DEF NoHeavy
  <2>5. ~IsSquareAttacked(g, t, 1 - c)
    <3>1. ASSUME NEW i \in Square, g[i] = knight, SquareColor(i) # SquareColor(t) PROVE FALSE
      <4>1. f[i] = knight /\ MinorAt(s, i)
        BY <3>1, <2>2, <1>1 DEF MinorAt
      <4>2. i = a /\ SquareColor(a) # SquareColor(k)
        BY <4>1, <1>8, <1>9, <1>10
      <4>3. \A m \in Square : SquareColor(m) \in {0, 1}
        BY SquareOf DEF SquareColor
      <4>. QED
        BY <3>1, <4>2, <4>3, <1>11
    <3>2. ASSUME NEW i \in Square, g[i] = bishop, SquareColor(i) = SquareColor(t) PROVE FALSE
      <4>1. f[i] = bishop /\ MinorAt(s, i)
        BY <3>2, <2>2, <1>1 DEF MinorAt
      <4>. QED
        BY <3>2, <4>1, <1>8, <1>9, <1>10, <1>11
    <3>3. ASSUME NEW i \in Square, g[i] = Make(King, 1 - c), OneStep(t, i) PROVE FALSE
      <4>1. i = o
        BY <3>3, <2>2, <1>3 DEF Kings
      <4>. QED
        BY <3>3, <4>1, <1>11
    <3>. QED
      BY <2>4, <3>1, <3>2, <3>3, <1>1, LightAttack
  <2>6. ~InCheck(g, c)
    BY <2>3, <2>5, TheKing DEF InCheck
  <2>. QED
    BY <1>16, <2>3, <2>6 DEF KingSafe, g
<1>18. Shape(s, k, t) /\ PromotionOk(s, k, t, 0) /\ 0 \in Promos(s, k, t)
  BY <1>11, <1>15 DEF Shape, ValidateKing, PromotionOk, Promotes, Promos, King, Pawn
<1>19. Legal(s, k, t, 0)
  <2>1. Own(s, k, t)
    BY <1>11, <1>13, <1>14, <1>15 DEF Own
  <2>2. Kings(Moved(s, k, t, 0), 1 - c) # {}
    BY <1>18, <2>1, OtherKing
  <2>. QED
    BY <1>11, <1>13, <1>14, <1>15, <1>17, <1>18, <2>2 DEF Legal
<1>. QED
  BY <1>15, <1>18, <1>19 DEF AnyLegal

=============================================================================
