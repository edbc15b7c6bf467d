--------------------------- MODULE ChessPlay_proofs ---------------------------
(***************************************************************************)
(* Proofs about ChessPlay, for every set of start positions and every       *)
(* length of game.                                                          *)
(***************************************************************************)
EXTENDS ChessPlay, ChessEngine_proofs, FiniteSetTheorems

-----------------------------------------------------------------------------
(* The history.                                                            *)

\* Every entry of the history, unpacked and replayed, gives the position the
\* account holds, whatever the start and however long the game.
THEOREM HistorySound == Spec => []HistoryReplays
<1>1. Init => HistoryReplays
  BY DEF Init, HistoryReplays
<1>2. HistoryReplays /\ [Next]_vars => HistoryReplays'
  <2>1. ASSUME NEW from \in Square, NEW to \in Square, NEW promotion \in Promotions,
               MakeMove(from, to, promotion)
        PROVE  HistoryReplays'
    <3>1. Unpack(packed') = [from |-> from, to |-> to, promotion |-> promotion]
      BY <2>1, LegalPromotion, PackUnpack DEF MakeMove
    <3>2. before' = chess /\ chess' = Apply(chess, from, to, promotion)
      BY <2>1 DEF MakeMove
    <3>. QED
      BY <3>1, <3>2 DEF HistoryReplays
  <2>2. ASSUME HistoryReplays, UNCHANGED vars PROVE HistoryReplays'
    BY <2>2 DEF vars, HistoryReplays
  <2>. QED
    BY <2>1, <2>2 DEF Next
<1>. QED
  BY <1>1, <1>2, PTL DEF Spec

-----------------------------------------------------------------------------
(* The fifty-move rule.                                                    *)

\* The counter is the history's count, and a game that goes on is below 100.
QuietInv == /\ FiftyMoveExact
            /\ chess.halfmove_clock \in Nat /\ ply \in Nat
            /\ ~Over(outcome) => quiet < 100

\* What a report says of the counter and of the capture.
LEMMA OutcomeFields ==
  ASSUME NEW s, NEW from, NEW to, NEW t
  PROVE  /\ Outcome(s, from, to, t).draw_50_move <=> t.halfmove_clock >= 100
         /\ Outcome(s, from, to, t).captured =
              IF IsEnPassant(s, from, to) THEN s.squares[EnPassantVictim(s, to)]
              ELSE s.squares[to]
BY DEF Outcome

\* The draw is reported on the hundredth quiet ply exactly, in every game.
THEOREM FiftyMoveSound == Spec => []FiftyMoveExact
<1>1. Init => QuietInv
  BY StartAssumption DEF Init, QuietInv, FiftyMoveExact
<1>2. QuietInv /\ [Next]_vars => QuietInv'
  <2>1. ASSUME QuietInv, NEW from \in Square, NEW to \in Square,
               NEW promotion \in Promotions, MakeMove(from, to, promotion)
        PROVE  QuietInv'
    <3>. DEFINE t == Apply(chess, from, to, promotion)
                resets == Kind(chess.squares[from]) = Pawn \/ IsCapture(chess, from, to)
    <3>1. /\ chess.halfmove_clock = quiet /\ quiet \in Nat /\ quiet < 100
          /\ ply \in Nat /\ ply' = ply + 1
          /\ chess' = t /\ outcome' = Outcome(chess, from, to, t)
          /\ quiet' = IF Kind(chess.squares[from]) = Pawn \/ outcome'.captured # EMPTY
                      THEN 0 ELSE quiet + 1
      BY <2>1 DEF QuietInv, FiftyMoveExact, MakeMove
    <3>2. t.halfmove_clock = IF resets THEN 0 ELSE quiet + 1
      BY <3>1 DEF Apply, SaturatingInc, MAX_U8
    <3>3. resets <=> Kind(chess.squares[from]) = Pawn \/ outcome'.captured # EMPTY
      BY <3>1, OutcomeFields DEF IsCapture, IsEnPassant, EnPassant, EMPTY
    <3>. HIDE DEF t, resets
    <3>4. outcome'.draw_50_move <=> t.halfmove_clock >= 100
      BY <3>1, OutcomeFields, Zenon
    <3>6. quiet' = t.halfmove_clock /\ t.halfmove_clock \in 0..100
      BY <3>1, <3>2, <3>3
    <3>7. ~Over(outcome)' => quiet' < 100
      BY <3>4, <3>6 DEF Over
    <3>. QED
      BY <3>1, <3>4, <3>6, <3>7 DEF QuietInv, FiftyMoveExact
  <2>2. ASSUME QuietInv, UNCHANGED vars PROVE QuietInv'
    BY <2>2 DEF vars, QuietInv, FiftyMoveExact, Over
  <2>. QED
    BY <2>1, <2>2 DEF Next
<1>3. QuietInv => FiftyMoveExact
  BY DEF QuietInv
<1>. QED
  BY <1>1, <1>2, <1>3, PTL DEF Spec

-----------------------------------------------------------------------------
(* Types.                                                                  *)

\* The state the engine leaves has the types of board.rs, whatever was played.
THEOREM PositionTyped == Spec => []TypeOK
<1>1. Init => TypeOK
  BY StartAssumption DEF Init, TypeOK, MAX_U8
<1>2. TypeOK /\ [Next]_vars => TypeOK'
  <2>1. ASSUME TypeOK, NEW from \in Square, NEW to \in Square,
               NEW promotion \in Promotions, MakeMove(from, to, promotion)
        PROVE  TypeOK'
    <3>. DEFINE t == Apply(chess, from, to, promotion)
                c == chess.side_to_move
                push == Kind(chess.squares[from]) = Pawn /\ DoublePush(chess, from, to)
    <3>1. chess' = t /\ PromotionOk(chess, from, to, promotion)
      BY <2>1 DEF MakeMove, Legal
    <3>2. Typed(t)
      <4>1. Typed(chess) /\ Legal(chess, from, to, promotion)
        BY <2>1 DEF TypeOK, Typed, MakeMove
      <4>. QED
        BY <4>1, TypedAfter
    <3>4. t.halfmove_clock \in 0..MAX_U8
      BY <2>1 DEF TypeOK, Apply, SaturatingInc, MAX_U8
    <3>5. t.fullmove_number \in 0..MAX_U16
      <4>1. MAX_U16 \in Nat
        BY DEF MAX_U16
      <4>2. chess.fullmove_number \in 0..MAX_U16
        BY <2>1 DEF TypeOK
      <4>3. SaturatingInc(chess.fullmove_number, MAX_U16) \in 0..MAX_U16
        BY <4>1, <4>2 DEF SaturatingInc
      <4>. QED
        BY <4>2, <4>3 DEF Apply
    <3>. HIDE DEF t
    <3>. QED
      BY <3>1, <3>2, <3>4, <3>5 DEF TypeOK, Typed
  <2>2. ASSUME TypeOK, UNCHANGED vars PROVE TypeOK'
    BY <2>2 DEF vars, TypeOK
  <2>. QED
    BY <2>1, <2>2 DEF Next
<1>. QED
  BY <1>1, <1>2, PTL DEF Spec

-----------------------------------------------------------------------------
(* Positions of a running game.                                            *)

OrderInv == TypeOK /\ InOrder(chess)

\* A typed position is one the lemmas about the engine speak of.
LEMMA TypedPosition == TypeOK => Typed(chess)
BY DEF TypeOK, Typed

\* Every position of every game is in order.
LEMMA OrderInvariance == Spec => []OrderInv
<1>1. Init => InOrder(chess)
  BY OrderAssumption DEF Init
<1>2. TypeOK /\ InOrder(chess) /\ [Next]_vars => InOrder(chess)'
  <2>1. ASSUME TypeOK, InOrder(chess), NEW from \in Square, NEW to \in Square,
               NEW promotion \in Promotions, MakeMove(from, to, promotion)
        PROVE  InOrder(chess)'
    <3>1. chess' = Apply(chess, from, to, promotion) /\ Legal(chess, from, to, promotion)
      BY <2>1 DEF MakeMove
    <3>2. InOrder(Apply(chess, from, to, promotion))
      BY <2>1, <3>1, TypedPosition, OrderKept
    <3>. QED
      BY <3>1, <3>2
  <2>2. ASSUME InOrder(chess), UNCHANGED vars PROVE InOrder(chess)'
    BY <2>2 DEF vars
  <2>. QED
    BY <2>1, <2>2 DEF Next
<1>. QED
  BY <1>1, <1>2, PositionTyped, PTL DEF Spec, OrderInv

\* Both kings are on the board and the side that has moved is not in check, in
\* every position of every game: the engine's king scans never fail.
THEOREM KingsSound == Spec => []KingsSafe
<1>1. OrderInv => KingsSafe
  BY DEF OrderInv, InOrder, KingsSafe
<1>. QED
  BY <1>1, OrderInvariance, PTL

\* A capture en passant always finds the pawn it takes.
THEOREM TargetSound == Spec => []EnPassantSound
<1>1. OrderInv => EnPassantSound
  BY DEF OrderInv, InOrder, EnPassantSound
<1>. QED
  BY <1>1, OrderInvariance, PTL

\* A right lives as long as its home squares are untouched.
RightsInv == RightsKnown(chess, touched)

\* Moves revoke the rights whose home squares they touch, and no others.
LEMMA RightsInvariance == Spec => []RightsInv
<1>1. Init => RightsInv
  BY StartAssumption DEF Init, RightsInv, RightsKnown, TouchedBefore, HomeSquares, Home, Rights
<1>2. OrderInv /\ RightsInv /\ [Next]_vars => RightsInv'
  <2>1. ASSUME OrderInv, RightsInv, NEW from \in Square, NEW to \in Square,
               NEW promotion \in Promotions, MakeMove(from, to, promotion)
        PROVE  RightsInv'
    <3>1. /\ Typed(chess) /\ InOrder(chess) /\ Legal(chess, from, to, promotion)
      BY <2>1, TypedPosition DEF OrderInv, MakeMove
    <3>2. chess' = Apply(chess, from, to, promotion) /\ touched' = touched \cup {from, to}
      BY <2>1 DEF MakeMove
    <3>3. RightsKnown(Apply(chess, from, to, promotion), touched \cup {from, to})
      BY <2>1, <3>1, RightsKnownAfter DEF RightsInv
    <3>. QED
      BY <3>2, <3>3 DEF RightsInv
  <2>2. ASSUME RightsInv, UNCHANGED vars PROVE RightsInv'
    BY <2>2 DEF vars, RightsInv, RightsKnown
  <2>. QED
    BY <2>1, <2>2 DEF Next
<1>. QED
  BY <1>1, <1>2, OrderInvariance, PTL DEF Spec

\* Castling rights are never lost too late or too early.
THEOREM RightsSound == Spec => []RightsMeanUntouched
<1>1. OrderInv /\ RightsInv => RightsMeanUntouched
  BY DEF OrderInv, InOrder, RightsInv, RightsKnown, RightsMeanUntouched
<1>. QED
  BY <1>1, OrderInvariance, RightsInvariance, PTL

-----------------------------------------------------------------------------
(* Verdicts.                                                               *)

\* What a report says of the position the move leads to.
LEMMA OutcomeVerdict ==
  ASSUME NEW s, NEW from, NEW to, NEW t
  PROVE  LET o == Outcome(s, from, to, t) check == InCheck(t.squares, t.side_to_move) IN
         /\ o.is_check <=> check
         /\ o.is_mate <=> check /\ ~AnyLegal(t)
         /\ o.is_stalemate <=> ~check /\ ~AnyLegal(t)
         /\ o.draw_50_move <=> t.halfmove_clock >= 100
         /\ o.draw_insufficient <=> IsInsufficientMaterial(t)
BY DEF Outcome

\* The last report is about the position on the board.
ReportInv ==
  /\ ply \in Nat
  /\ ply > 0 =>
       LET check == InCheck(chess.squares, chess.side_to_move) IN
       /\ outcome.is_check <=> check
       /\ outcome.is_mate <=> check /\ ~AnyLegal(chess)
       /\ outcome.is_stalemate <=> ~check /\ ~AnyLegal(chess)
       /\ outcome.draw_50_move <=> chess.halfmove_clock >= 100
       /\ outcome.draw_insufficient <=> IsInsufficientMaterial(chess)

\* Every report is about the position the move has led to.
LEMMA ReportInvariance == Spec => []ReportInv
<1>1. Init => ReportInv
  BY DEF Init, ReportInv
<1>2. ReportInv /\ [Next]_vars => ReportInv'
  <2>1. ASSUME ReportInv, NEW from \in Square, NEW to \in Square,
               NEW promotion \in Promotions, MakeMove(from, to, promotion)
        PROVE  ReportInv'
    <3>1. outcome' = Outcome(chess, from, to, chess') /\ ply' = ply + 1
      BY <2>1 DEF MakeMove
    <3>. QED
      BY <2>1, <3>1, OutcomeVerdict DEF ReportInv
  <2>2. ASSUME ReportInv, UNCHANGED vars PROVE ReportInv'
    BY <2>2 DEF vars, ReportInv
  <2>. QED
    BY <2>1, <2>2 DEF Next
<1>. QED
  BY <1>1, <1>2, PTL DEF Spec

\* The verdict apply_move reports is the one compute_status finds, on every
\* move of every game.
THEOREM VerdictsSound == Spec => []VerdictsAgree
<1>1. OrderInv /\ ReportInv => VerdictsAgree
  <2>1. OrderInv => Kings(chess.squares, chess.side_to_move) # {}
    BY DEF OrderInv, TypeOK, InOrder, KingsInOrder
  <2>. QED
    BY <2>1 DEF ReportInv, VerdictsAgree, ComputeStatus
<1>. QED
  BY <1>1, OrderInvariance, ReportInvariance, PTL

-----------------------------------------------------------------------------
(* The MovePlayed event.                                                   *)

\* What a report says of the move, and what its flags mean.
LEMMA OutcomeMove ==
  ASSUME NEW s, NEW from, NEW to, NEW t
  PROVE  LET o == Outcome(s, from, to, t) IN
         /\ o.piece = s.squares[from]
         /\ "EN_PASSANT" \in o.flags <=> IsEnPassant(s, from, to)
         /\ "CASTLE" \in o.flags <=> IsCastle(s, from, to)
BY DEF Outcome

\* The board a reader of the event draws over the board before the move.
Drawn(squares, from, to, promotion, piece, flags) ==
  LET color == Color(piece)
      placed == IF promotion = 0 THEN piece ELSE Make(promotion, color)
      plain == [squares EXCEPT ![from] = EMPTY, ![to] = placed]
  IN IF "EN_PASSANT" \in flags THEN [plain EXCEPT ![to - Dir(color)] = EMPTY]
     ELSE IF "CASTLE" \in flags
     THEN [plain EXCEPT ![Sq(IF to > from THEN 7 ELSE 0, RankOf(to))] = EMPTY,
                        ![(from + to) \div 2] = Make(Rook, color)]
     ELSE plain

\* It is the board the engine leaves.
LEMMA DrawnIsMoved ==
  ASSUME NEW s, Typed(s), InOrder(s), NEW from \in Square, NEW to \in Square,
         NEW promotion, Legal(s, from, to, promotion), NEW t,
         NEW o, o = Outcome(s, from, to, t)
  PROVE  Drawn(s.squares, from, to, promotion, o.piece, o.flags)
           = Moved(s, from, to, promotion)
<1>. DEFINE c == s.side_to_move
            placed == Placed(s, from, to, promotion)
            plain == [s.squares EXCEPT ![from] = EMPTY, ![to] = placed]
            files == CastlingFiles(KingSide(to))
            v == EnPassantVictim(s, to)
            r == Sq(files.rook, HomeRank(c))
            h == Sq(files.hop, HomeRank(c))
            corner == Sq(IF to > from THEN 7 ELSE 0, RankOf(to))
            middle == (from + to) \div 2
<1>1. /\ c \in {0, 1} /\ s.squares[from] \in 0..12 /\ s.squares[from] # EMPTY
      /\ Color(s.squares[from]) = c /\ PromotionOk(s, from, to, promotion)
  BY DEF Typed, Legal
<1>2. (IF promotion = 0 THEN s.squares[from] ELSE Make(promotion, c)) = placed
  BY <1>1 DEF PromotionOk, Placed, Knight, Bishop, Rook, Queen
<1>3. Drawn(s.squares, from, to, promotion, o.piece, o.flags) =
        IF IsEnPassant(s, from, to) THEN [plain EXCEPT ![v] = EMPTY]
        ELSE IF IsCastle(s, from, to)
        THEN [plain EXCEPT ![corner] = EMPTY, ![middle] = Make(Rook, c)]
        ELSE plain
  <2>1. /\ o.piece = s.squares[from]
        /\ "EN_PASSANT" \in o.flags <=> IsEnPassant(s, from, to)
        /\ "CASTLE" \in o.flags <=> IsCastle(s, from, to)
    BY OutcomeMove
  <2>. HIDE DEF placed
  <2>. QED
    BY <1>1, <1>2, <2>1 DEF Drawn, EnPassantVictim
<1>4. Moved(s, from, to, promotion) =
        IF IsEnPassant(s, from, to) THEN [plain EXCEPT ![v] = EMPTY]
        ELSE IF IsCastle(s, from, to)
        THEN [plain EXCEPT ![r] = EMPTY, ![h] = Make(Rook, c)]
        ELSE plain
  BY DEF Moved, Placed
<1>5. IsCastle(s, from, to) => corner = r /\ middle = h
  <2>. SUFFICES ASSUME IsCastle(s, from, to) PROVE corner = r /\ middle = h
    OBVIOUS
  <2>1. s.squares[from] = Make(King, c) /\ Castles(s, from, to)
    BY <1>1, PieceOf DEF IsCastle
  <2>2. /\ from = Sq(4, HomeRank(c))
        /\ to = Sq(IF KingSide(to) THEN 6 ELSE 2, HomeRank(c))
    BY <2>1, CastlingFromHome
  <2>. QED
    BY <1>1, <2>2 DEF CastlingFiles, HomeRank, Sq, RankOf
<1>. HIDE DEF plain, corner, middle, r, h, v
<1>6. IsCastle(s, from, to) => [plain EXCEPT ![corner] = EMPTY, ![middle] = Make(Rook, c)]
                                 = [plain EXCEPT ![r] = EMPTY, ![h] = Make(Rook, c)]
  BY <1>5, Zenon
<1>. QED
  BY <1>3, <1>4, <1>6, Zenon

\* MovePlayed alone redraws the board, castling, captures en passant and
\* promotions included, on every move of every game.
THEOREM EventSound == Spec => []EventRedraws
<1>1. Init => ply \in Nat /\ EventRedraws
  BY DEF Init, EventRedraws
<1>2. OrderInv /\ ply \in Nat /\ EventRedraws /\ [Next]_vars => (ply \in Nat /\ EventRedraws)'
  <2>1. ASSUME OrderInv, ply \in Nat, NEW from \in Square, NEW to \in Square,
               NEW promotion \in Promotions, MakeMove(from, to, promotion)
        PROVE  (ply \in Nat /\ EventRedraws)'
    <3>1. /\ Typed(chess) /\ InOrder(chess) /\ Legal(chess, from, to, promotion)
      BY <2>1, TypedPosition DEF OrderInv, MakeMove
    <3>2. /\ before' = chess /\ chess'.squares = Moved(chess, from, to, promotion)
          /\ outcome' = Outcome(chess, from, to, chess') /\ ply' = ply + 1
          /\ event' = MovePlayed(chess, from, to, promotion, outcome')
      BY <2>1 DEF MakeMove, Apply
    <3>3. /\ event'.from_sq = from /\ event'.to_sq = to /\ event'.promotion = promotion
          /\ event'.piece = outcome'.piece /\ event'.flags = outcome'.flags
          /\ event'.color = Color(outcome'.piece)
      <4>1. outcome'.piece = chess.squares[from]
        BY <3>2, OutcomeMove
      <4>. QED
        BY <3>1, <3>2, <4>1 DEF MovePlayed, Legal
    <3>4. Drawn(chess.squares, from, to, promotion, event'.piece, event'.flags)
            = chess'.squares
      BY <3>1, <3>2, <3>3, DrawnIsMoved
    <3>. QED
      BY <2>1, <3>2, <3>3, <3>4 DEF EventRedraws, Drawn
  <2>2. ASSUME ply \in Nat, EventRedraws, UNCHANGED vars PROVE (ply \in Nat /\ EventRedraws)'
    BY <2>2 DEF vars, EventRedraws
  <2>. QED
    BY <2>1, <2>2 DEF Next
<1>. QED
  BY <1>1, <1>2, OrderInvariance, PTL DEF Spec

-----------------------------------------------------------------------------
(* Material.                                                               *)

Count(squares, p) == Cardinality({i \in Square : squares[i] = p})
Is(a, p) == IF a = p THEN 1 ELSE 0
SameBut(f, g, i) == \A j \in Square \ {i} : g[j] = f[j]
Recounted(f, g, i, p) == Count(g, p) = Count(f, p) - Is(f[i], p) + Is(g[i], p)

\* A board has finitely many squares.
LEMMA CountIsNat ==
  ASSUME NEW f, NEW p
  PROVE  IsFiniteSet({i \in Square : f[i] = p}) /\ Count(f, p) \in Nat
<1>. DEFINE S == {i \in Square : f[i] = p}
<1>1. IsFiniteSet(0..63)
  <2>1. 0 \in Int /\ 63 \in Int
    OBVIOUS
  <2>. QED
    BY <2>1, FS_Interval, Zenon
<1>2. S \in SUBSET (0..63)
  BY DEF Square
<1>3. IsFiniteSet(S)
  BY <1>1, <1>2, FS_Subset
<1>. QED
  BY <1>3, FS_CardinalityType DEF Count

\* A write to a square takes one piece away and adds one.
LEMMA CountAfterWrite ==
  ASSUME NEW f, NEW g, NEW i \in Square, NEW p, SameBut(f, g, i)
  PROVE  Recounted(f, g, i, p)
<1>. DEFINE S == {j \in Square : f[j] = p}
            T == {j \in Square : g[j] = p}
<1>1. IsFiniteSet(S) /\ Cardinality(S) \in Nat
  BY CountIsNat DEF Count
<1>2. CASE g[i] = p
  <2>1. T = S \cup {i}
    BY <1>2 DEF SameBut
  <2>2. Cardinality(T) = IF i \in S THEN Cardinality(S) ELSE Cardinality(S) + 1
    BY <1>1, <2>1, FS_AddElement
  <2>. QED
    BY <1>1, <1>2, <2>2 DEF Count, Is, Recounted
<1>3. CASE g[i] # p
  <2>1. T = S \ {i}
    BY <1>3 DEF SameBut
  <2>2. Cardinality(T) = IF i \in S THEN Cardinality(S) - 1 ELSE Cardinality(S)
    BY <1>1, <2>1, FS_RemoveElement
  <2>. QED
    BY <1>1, <1>3, <2>2 DEF Count, Is, Recounted
<1>. QED
  BY <1>2, <1>3

\* What a report calls the captured piece.
Captured(s, from, to) ==
  IF IsEnPassant(s, from, to) THEN s.squares[EnPassantVictim(s, to)] ELSE s.squares[to]

\* A legal move takes the captured piece off the board and may exchange the
\* piece that moved; castling changes no count.
LEMMA CountAfterMove ==
  ASSUME NEW s, Typed(s), InOrder(s), NEW from \in Square, NEW to \in Square,
         NEW promotion, Legal(s, from, to, promotion), NEW p \in 1..12
  PROVE  /\ Count(s.squares, p) \in Nat
         /\ Count(Moved(s, from, to, promotion), p) =
              Count(s.squares, p) - Is(s.squares[from], p) - Is(Captured(s, from, to), p)
                + Is(Placed(s, from, to, promotion), p)
<1>. DEFINE c == s.side_to_move
            f == s.squares
            placed == Placed(s, from, to, promotion)
            lifted == [f EXCEPT ![from] = EMPTY]
            plain == [lifted EXCEPT ![to] = placed]
            files == CastlingFiles(KingSide(to))
            v == EnPassantVictim(s, to)
            r == Sq(files.rook, HomeRank(c))
            h == Sq(files.hop, HomeRank(c))
            after == Moved(s, from, to, promotion)
<1>1. /\ c \in {0, 1} /\ f \in [Square -> 0..12] /\ from # to
      /\ f[from] # EMPTY /\ Color(f[from]) = c /\ EMPTY \in 0..12
  BY DEF Typed, Legal, EMPTY
<1>2. placed \in 0..12
  BY PlacedPiece
<1>3. /\ lifted[to] = f[to] /\ lifted[from] = EMPTY
      /\ SameBut(f, lifted, from)
  BY <1>1 DEF SameBut
<1>4. /\ plain[to] = placed /\ DOMAIN plain = Square
      /\ SameBut(lifted, plain, to)
  BY <1>1 DEF SameBut
<1>5. plain = [f EXCEPT ![from] = EMPTY, ![to] = placed]
  BY <1>1
<1>6. after = IF IsEnPassant(s, from, to) THEN [plain EXCEPT ![v] = EMPTY]
              ELSE IF IsCastle(s, from, to)
              THEN [plain EXCEPT ![r] = EMPTY, ![h] = Make(Rook, c)]
              ELSE plain
  BY <1>5 DEF Moved, Placed
<1>7. Is(EMPTY, p) = 0 /\ \A a : Is(a, p) \in {0, 1}
  BY DEF Is, EMPTY
<1>. HIDE DEF lifted, plain, placed, after
<1>8. /\ Count(f, p) \in Nat
      /\ Count(plain, p) = Count(f, p) - Is(f[from], p) - Is(f[to], p) + Is(placed, p)
  <2>1. Recounted(f, lifted, from, p)
    BY <1>3, CountAfterWrite, Zenon
  <2>2. Recounted(lifted, plain, to, p)
    BY <1>4, CountAfterWrite, Zenon
  <2>3. Count(f, p) \in Nat
    BY CountIsNat, Zenon
  <2>. HIDE DEF f
  <2>. QED
    BY <1>3, <1>4, <1>7, <2>1, <2>2, <2>3 DEF Recounted
<1>9. CASE IsEnPassant(s, from, to)
  <2>1. v \in Square \ {from, to} /\ f[to] = EMPTY /\ Captured(s, from, to) = f[v]
    BY <1>9, VictimIsPawn DEF IsEnPassant, EnPassant, Captured
  <2>. HIDE DEF v
  <2>2. after[v] = EMPTY /\ SameBut(plain, after, v)
    BY <1>4, <1>6, <1>9, <2>1 DEF SameBut
  <2>3. Recounted(plain, after, v, p)
    BY <2>1, <2>2, CountAfterWrite, Zenon
  <2>4. plain[v] = f[v]
    BY <1>3, <1>4, <2>1 DEF SameBut
  <2>5. Count(after, p) = Count(f, p) - Is(f[from], p) - Is(Captured(s, from, to), p)
                            + Is(placed, p)
    <3>. HIDE DEF f
    <3>. QED
      BY <1>7, <1>8, <2>1, <2>2, <2>3, <2>4 DEF Recounted
  <2>. QED
    BY <1>8, <2>5 DEF placed, after
<1>10. CASE ~IsEnPassant(s, from, to) /\ IsCastle(s, from, to)
  <2>1. f[from] = Make(King, c) /\ Castles(s, from, to)
    BY <1>1, <1>10, PieceOf DEF IsCastle
  <2>2. /\ from = Sq(4, HomeRank(c))
        /\ to = Sq(IF KingSide(to) THEN 6 ELSE 2, HomeRank(c))
        /\ f[to] = EMPTY /\ f[h] = EMPTY /\ f[r] = Make(Rook, c)
    BY <2>1, CastlingFromHome
  <2>3. r \in Square \ {from, to, h} /\ h \in Square \ {from, to}
    BY <1>1, <2>2 DEF CastlingFiles, HomeRank, Sq, Square
  <2>. DEFINE half == [plain EXCEPT ![r] = EMPTY]
  <2>. HIDE DEF r, h
  <2>4. plain[h] = EMPTY /\ plain[r] = Make(Rook, c)
    BY <1>3, <1>4, <2>2, <2>3 DEF SameBut
  <2>5. /\ half[r] = EMPTY /\ half[h] = EMPTY
        /\ SameBut(plain, half, r)
    BY <1>4, <2>3, <2>4 DEF SameBut
  <2>6. after[h] = Make(Rook, c) /\ SameBut(half, after, h)
    BY <1>4, <1>6, <1>10, <2>3 DEF SameBut
  <2>. HIDE DEF half
  <2>7. Recounted(plain, half, r, p)
    BY <2>3, <2>5, CountAfterWrite, Zenon
  <2>8. Recounted(half, after, h, p)
    BY <2>3, <2>6, CountAfterWrite, Zenon
  <2>9. Captured(s, from, to) = EMPTY
    BY <1>10, <2>2 DEF Captured
  <2>10. Count(after, p) = Count(f, p) - Is(f[from], p) - Is(Captured(s, from, to), p)
                             + Is(placed, p)
    <3>. HIDE DEF f
    <3>. QED
      BY <1>7, <1>8, <2>2, <2>4, <2>5, <2>6, <2>7, <2>8, <2>9 DEF Recounted
  <2>. QED
    BY <1>8, <2>10 DEF placed, after
<1>11. CASE ~IsEnPassant(s, from, to) /\ ~IsCastle(s, from, to)
  BY <1>6, <1>7, <1>8, <1>11, CountIsNat DEF Captured, placed, after
<1>. QED
  BY <1>9, <1>10, <1>11

\* The piece taken, if there is one, is the opponent's, and the report has one
\* exactly when the move is a capture.
LEMMA CapturedPiece ==
  ASSUME NEW s, Typed(s), InOrder(s), NEW from \in Square, NEW to \in Square,
         NEW promotion, Legal(s, from, to, promotion)
  PROVE  LET piece == Captured(s, from, to) IN
         /\ piece # EMPTY <=> IsCapture(s, from, to)
         /\ piece # EMPTY => Color(piece) # s.side_to_move
<1>1. CASE IsEnPassant(s, from, to)
  <2>1. /\ s.squares[EnPassantVictim(s, to)] = Make(Pawn, 1 - s.side_to_move)
        /\ s.side_to_move \in {0, 1}
    BY <1>1, VictimIsPawn DEF IsEnPassant, Typed
  <2>2. /\ Make(Pawn, 1 - s.side_to_move) # EMPTY
        /\ Color(Make(Pawn, 1 - s.side_to_move)) # s.side_to_move
    BY <2>1, MakeOf
  <2>. QED
    BY <1>1, <2>1, <2>2 DEF Captured, IsCapture
<1>2. CASE ~IsEnPassant(s, from, to)
  BY <1>2 DEF Captured, IsCapture, Legal
<1>. QED
  BY <1>1, <1>2

\* CaptureReported of a move from s to t reported as o, an outcome or an event.
Material(s, t, o) ==
  LET promoted(p) == "PROMOTION" \in o.flags /\ p = Make(Pawn, s.side_to_move)
      gained == {p \in 1..12 : Count(t.squares, p) = Count(s.squares, p) + 1}
      lost == {p \in 1..12 : Count(t.squares, p) = Count(s.squares, p) - 1}
  IN /\ o.captured # EMPTY <=> "CAPTURE" \in o.flags
     /\ lost = {p \in 1..12 : p = o.captured \/ promoted(p)}
     /\ Cardinality(gained) = IF "PROMOTION" \in o.flags THEN 1 ELSE 0

\* What a report says of material.
LEMMA OutcomeMaterial ==
  ASSUME NEW s, NEW from, NEW to, NEW t
  PROVE  LET o == Outcome(s, from, to, t) IN
         /\ o.captured = Captured(s, from, to)
         /\ "CAPTURE" \in o.flags <=> IsCapture(s, from, to)
         /\ "PROMOTION" \in o.flags <=> Promotes(s, from, to)
BY DEF Outcome, Captured

\* It holds of every legal move.
LEMMA MaterialOfMove ==
  ASSUME NEW s, Typed(s), InOrder(s), NEW from \in Square, NEW to \in Square,
         NEW promotion, Legal(s, from, to, promotion),
         NEW t, t.squares = Moved(s, from, to, promotion),
         NEW o, o = Outcome(s, from, to, t)
  PROVE  Material(s, t, o)
<1>. DEFINE c == s.side_to_move
            piece == s.squares[from]
            taken == Captured(s, from, to)
            placed == Placed(s, from, to, promotion)
            gained == {p \in 1..12 : Count(t.squares, p) = Count(s.squares, p) + 1}
            lost == {p \in 1..12 : Count(t.squares, p) = Count(s.squares, p) - 1}
<1>1. /\ o.captured = taken
      /\ "CAPTURE" \in o.flags <=> IsCapture(s, from, to)
      /\ "PROMOTION" \in o.flags <=> Promotes(s, from, to)
  BY OutcomeMaterial
<1>2. /\ taken # EMPTY <=> IsCapture(s, from, to)
      /\ taken # EMPTY => Color(taken) # c
  BY CapturedPiece
<1>3. /\ c \in {0, 1} /\ piece \in 1..12 /\ piece # EMPTY /\ Color(piece) = c
      /\ PromotionOk(s, from, to, promotion)
  BY DEF Typed, Legal, EMPTY
<1>4. placed \in 1..12 /\ Color(placed) = c
  BY PlacedPiece
<1>5. \A p \in 1..12 : /\ Count(s.squares, p) \in Nat
                       /\ Count(t.squares, p) = Count(s.squares, p) - Is(piece, p)
                                                  - Is(taken, p) + Is(placed, p)
  BY CountAfterMove
<1>6. taken # piece /\ taken # placed
  BY <1>2, <1>3, <1>4 DEF EMPTY
<1>7. IF Promotes(s, from, to) THEN piece = Make(Pawn, c) /\ placed # piece
                               ELSE placed = piece
  <2>1. CASE Promotes(s, from, to)
    <3>1. piece = Make(Pawn, c)
      BY <1>3, <2>1, PieceOf DEF Promotes
    <3>2. placed = Make(promotion, c) /\ promotion \in {Knight, Bishop, Rook, Queen}
      BY <1>3, <2>1 DEF Placed, PromotionOk
    <3>. QED
      BY <1>3, <2>1, <3>1, <3>2 DEF Make, Pawn, Knight, Bishop, Rook, Queen
  <2>2. CASE ~Promotes(s, from, to)
    BY <2>2 DEF Placed
  <2>. QED
    BY <2>1, <2>2
<1>. HIDE DEF c, piece, taken, placed
<1>8. \A p \in 1..12 : p \in lost <=> p = taken \/ (Promotes(s, from, to) /\ p = piece)
  BY <1>5, <1>6, <1>7 DEF Is
<1>9. gained = IF Promotes(s, from, to) THEN {placed} ELSE {}
  BY <1>4, <1>5, <1>6, <1>7 DEF Is
<1>10. Cardinality(gained) = IF Promotes(s, from, to) THEN 1 ELSE 0
  <2>. HIDE DEF gained
  <2>. QED
    BY <1>9, FS_EmptySet, FS_Singleton
<1>11. lost = {p \in 1..12 : \/ p = o.captured
                             \/ "PROMOTION" \in o.flags /\ p = Make(Pawn, s.side_to_move)}
  BY <1>1, <1>7, <1>8 DEF c
<1>. QED
  BY <1>1, <1>2, <1>10, <1>11 DEF Material

\* The captured piece of the report is the one that leaves the board, and
\* nothing else leaves it, on every move of every game.
THEOREM CaptureSound == Spec => []CaptureReported
<1>1. Init => CaptureReported
  <2>. SUFFICES ASSUME Init PROVE CaptureReported
    OBVIOUS
  <2>1. before = chess /\ event.captured = EMPTY /\ event.flags = {}
    BY DEF Init, NoEvent
  <2>2. \A p \in 1..12 : Count(chess.squares, p) \in Nat
    BY CountIsNat
  <2>3. Material(before, chess, event)
    <3>1. \A p \in 1..12 : /\ Count(chess.squares, p) # Count(before.squares, p) + 1
                           /\ Count(chess.squares, p) # Count(before.squares, p) - 1
      BY <2>1, <2>2
    <3>2. {p \in 1..12 : Count(chess.squares, p) = Count(before.squares, p) + 1} = {}
      BY <3>1
    <3>. QED
      BY <2>1, <3>1, <3>2, FS_EmptySet DEF Material, EMPTY
  <2>. QED
    BY <2>3 DEF Material, CaptureReported, Count
<1>2. OrderInv /\ CaptureReported /\ [Next]_vars => CaptureReported'
  <2>1. ASSUME OrderInv, NEW from \in Square, NEW to \in Square,
               NEW promotion \in Promotions, MakeMove(from, to, promotion)
        PROVE  CaptureReported'
    <3>1. /\ Typed(chess) /\ InOrder(chess) /\ Legal(chess, from, to, promotion)
      BY <2>1, TypedPosition DEF OrderInv, MakeMove
    <3>2. /\ before' = chess /\ chess'.squares = Moved(chess, from, to, promotion)
          /\ outcome' = Outcome(chess, from, to, chess')
          /\ event'.captured = outcome'.captured /\ event'.flags = outcome'.flags
      BY <2>1 DEF MakeMove, Apply, MovePlayed
    <3>3. Material(chess, chess', outcome')
      BY <3>1, <3>2, MaterialOfMove
    <3>4. Material(chess, chess', event')
      BY <3>2, <3>3 DEF Material
    <3>. QED
      BY <3>2, <3>4 DEF Material, CaptureReported, Count
  <2>2. ASSUME CaptureReported, UNCHANGED vars PROVE CaptureReported'
    BY <2>2 DEF vars, CaptureReported
  <2>. QED
    BY <2>1, <2>2 DEF Next
<1>. QED
  BY <1>1, <1>2, OrderInvariance, PTL DEF Spec

-----------------------------------------------------------------------------
(* The engine against the laws, in every game.                             *)

\* The target is the square the boards say a pawn has passed over.
PassedInv == ply \in Nat /\ PassedOver = TargetCoord(chess)

\* The target is set by a double push and reset by every other move.
LEMMA PassedInvariance == Spec => []PassedInv
<1>1. Init => PassedInv
  BY DEF Init, PassedInv, PassedOver, TargetCoord
<1>2. OrderInv /\ PassedInv /\ [Next]_vars => PassedInv'
  <2>1. ASSUME OrderInv, PassedInv, NEW from \in Square, NEW to \in Square,
               NEW promotion \in Promotions, MakeMove(from, to, promotion)
        PROVE  PassedInv'
    <3>. DEFINE c == chess.side_to_move
                push == Kind(chess.squares[from]) = Pawn /\ DoublePush(chess, from, to)
                left == Vacated(chess, chess')
                entered == Entered(chess, chess')
    <3>1. /\ Typed(chess) /\ InOrder(chess) /\ Legal(chess, from, to, promotion)
          /\ chess' = Apply(chess, from, to, promotion) /\ before' = chess
          /\ ply' = ply + 1 /\ ply \in Nat
      BY <2>1, TypedPosition DEF OrderInv, MakeMove, PassedInv
    <3>2. /\ chess'.squares = Moved(chess, from, to, promotion)
          /\ chess'.en_passant = IF push THEN from + Dir(c) ELSE None
      BY <3>1 DEF Apply
    <3>3. PassedOver' =
            IF \E f, t \in Square : /\ left = {f} /\ entered = {t} /\ Dist(f, t) = 16
                                    /\ Kind(chess'.squares[t]) = Pawn
            THEN Coord((CHOOSE f \in left : TRUE) + Dir(c))
            ELSE IF ply' = 0 /\ chess'.en_passant # None THEN Coord(chess'.en_passant)
            ELSE Rules!Nowhere
      BY <3>1 DEF PassedOver, Vacated, Entered
    <3>4. /\ push <=> \E f, t \in Square : /\ left = {f} /\ entered = {t}
                                           /\ Dist(f, t) = 16
                                           /\ Kind(chess'.squares[t]) = Pawn
          /\ push => left = {from}
      BY <3>1, <3>2, PushSeen
    <3>5. ply' # 0 /\ ply' \in Nat
      BY <3>1
    <3>6. push => from + Dir(c) # None
      BY <3>1 DEF DoublePush, Typed, Dir, None, Square, RankOf, StartRank
    <3>. HIDE DEF push, left, entered, c
    <3>7. PassedOver' = IF push THEN Coord(from + Dir(c)) ELSE Rules!Nowhere
      BY <3>3, <3>4, <3>5
    <3>8. TargetCoord(chess)' = IF push THEN Coord(from + Dir(c)) ELSE Rules!Nowhere
      BY <3>2, <3>6 DEF TargetCoord
    <3>. QED
      BY <3>5, <3>7, <3>8 DEF PassedInv
  <2>2. ASSUME PassedInv, UNCHANGED vars PROVE PassedInv'
    BY <2>2 DEF vars, PassedInv, PassedOver, TargetCoord
  <2>. QED
    BY <2>1, <2>2 DEF Next
<1>. QED
  BY <1>1, <1>2, OrderInvariance, PTL DEF Spec

\* apply_move accepts a move exactly when the laws of chess allow it, in every
\* position of every game.
THEOREM EngineSound == Spec => []EngineAgrees
<1>1. OrderInv /\ RightsInv /\ PassedInv => EngineAgrees
  <2>. SUFFICES ASSUME OrderInv, RightsInv, PassedInv PROVE EngineAgrees
    OBVIOUS
  <2>1. Typed(chess) /\ InOrder(chess)
    BY TypedPosition DEF OrderInv
  <2>2. RightsKnown(chess, touched)
    BY DEF RightsInv
  <2>3. PassedOver = TargetCoord(chess)
    BY DEF PassedInv
  <2>4. {Coord(i) : i \in Square \ touched} = StillCoords(touched)
    BY DEF StillCoords
  <2>5. BoardOf(chess) \in Rules!Boards
    BY <2>1, BoardShown
  <2>6. ASSUME NEW from \in Square, NEW promotion \in 0..6
        PROVE  {Coord(to) : to \in {i \in Square : Legal(chess, from, i, promotion)}} =
                 Rules!Reach(BoardOf(chess), ColorName(chess.side_to_move), PassedOver,
                             {Coord(i) : i \in Square \ touched}, Coord(from),
                             KindName(promotion))
    BY <2>1, <2>2, <2>3, <2>4, ReachAgrees
  <2>. QED
    BY <2>5, <2>6 DEF EngineAgrees
<1>. QED
  BY <1>1, OrderInvariance, RightsInvariance, PassedInvariance, PTL

\* Check, mate and stalemate are reported when the laws of chess say so, on every
\* move of every game.
THEOREM LawfulSound == Spec => []VerdictsLawful
<1>1. OrderInv /\ RightsInv /\ PassedInv /\ ReportInv => VerdictsLawful
  <2>. SUFFICES ASSUME OrderInv, RightsInv, PassedInv, ReportInv PROVE VerdictsLawful
    OBVIOUS
  <2>. DEFINE b == BoardOf(chess)
              color == ColorName(chess.side_to_move)
              still == {Coord(i) : i \in Square \ touched}
              check == InCheck(chess.squares, chess.side_to_move)
  <2>1. still = StillCoords(touched) /\ PassedOver = TargetCoord(chess)
    BY DEF StillCoords, PassedInv
  <2>2. /\ check <=> Rules!Checked(b, color)
        /\ check /\ ~AnyLegal(chess) <=> Rules!Checkmate(b, color, PassedOver, still)
        /\ ~check /\ ~AnyLegal(chess) <=> Rules!Stalemate(b, color, PassedOver, still)
    BY <2>1, TypedPosition, VerdictsAreLaws DEF OrderInv, RightsInv
  <2>3. ply > 0 => /\ outcome.is_check <=> check
                   /\ outcome.is_mate <=> check /\ ~AnyLegal(chess)
                   /\ outcome.is_stalemate <=> ~check /\ ~AnyLegal(chess)
    BY DEF ReportInv
  <2>4. VerdictsLawful <=>
          (ply > 0 => /\ outcome.is_check <=> Rules!Checked(b, color)
                      /\ outcome.is_mate <=> Rules!Checkmate(b, color, PassedOver, still)
                      /\ outcome.is_stalemate
                           <=> Rules!Stalemate(b, color, PassedOver, still))
    BY DEF VerdictsLawful
  <2>. HIDE DEF b, color, still, check
  <2>. QED
    BY <2>2, <2>3, <2>4
<1>. QED
  BY <1>1, OrderInvariance, RightsInvariance, PassedInvariance, ReportInvariance, PTL

-----------------------------------------------------------------------------
(* The draw for want of material.                                          *)

\* A dead position has no mate and no way out.
LEMMA DeadIsDead ==
  ASSUME NEW s, Typed(s), InOrder(s), IsInsufficientMaterial(s)
  PROVE  /\ InCheck(s.squares, s.side_to_move) => AnyLegal(s)
         /\ \A from \in Square, to \in Square : \A promotion :
              Legal(s, from, to, promotion) =>
                LET t == Apply(s, from, to, promotion) IN
                Typed(t) /\ InOrder(t) /\ IsInsufficientMaterial(t)
<1>1. Scarce(s)
  BY ScarceIs
<1>2. InCheck(s.squares, s.side_to_move) => AnyLegal(s)
  BY <1>1, NoMate
<1>3. ASSUME NEW from \in Square, NEW to \in Square, NEW promotion,
             Legal(s, from, to, promotion)
      PROVE  LET t == Apply(s, from, to, promotion) IN
             Typed(t) /\ InOrder(t) /\ IsInsufficientMaterial(t)
  <2>. DEFINE t == Apply(s, from, to, promotion)
  <2>1. Typed(t) /\ InOrder(t)
    BY <1>3, TypedAfter, OrderKept
  <2>2. t.squares = Moved(s, from, to, promotion)
    BY DEF Apply
  <2>. HIDE DEF t
  <2>3. Scarce(t)
    BY <1>1, <1>3, <2>2, ScarceKept
  <2>4. IsInsufficientMaterial(t)
    BY <2>1, <2>3, ScarceIs
  <2>. QED
    BY <2>1, <2>4 DEF t
<1>. QED
  BY <1>2, <1>3

\* In every position the engine draws for want of material nobody is mated, and
\* no legal move leads out of such positions.
THEOREM DeadSound == Spec => []DrawIsDead
<1>1. OrderInv => DrawIsDead
  BY TypedPosition, DeadIsDead DEF OrderInv, DrawIsDead
<1>. QED
  BY <1>1, OrderInvariance, PTL

\* Legal moves without end, as if the draw had not been given.
PlayedOn == \E from \in Square, to \in Square, promotion \in 0..MAX_U8 :
              /\ Legal(chess, from, to, promotion)
              /\ chess' = Apply(chess, from, to, promotion)

\* Playing on from such a position, by any series of legal moves of any length,
\* never mates: the draw takes a win from nobody.
THEOREM DeadForever ==
  Typed(chess) /\ InOrder(chess) /\ IsInsufficientMaterial(chess) /\ [][PlayedOn]_chess
    => [](InCheck(chess.squares, chess.side_to_move) => AnyLegal(chess))
<1>. DEFINE Dead == Typed(chess) /\ InOrder(chess) /\ IsInsufficientMaterial(chess)
            Parried == InCheck(chess.squares, chess.side_to_move) => AnyLegal(chess)
<1>1. Dead => Parried
  BY DeadIsDead
<1>2. Dead /\ [PlayedOn]_chess => Dead'
  <2>1. ASSUME Dead, PlayedOn PROVE Dead'
    BY <2>1, DeadIsDead DEF PlayedOn
  <2>2. ASSUME Dead, chess' = chess PROVE Dead'
    BY <2>2
  <2>. QED
    BY <2>1, <2>2
<1>. HIDE DEF Dead, Parried
<1>3. Dead /\ [][PlayedOn]_chess => []Parried
  BY <1>1, <1>2, PTL
<1>. QED
  BY <1>3 DEF Dead, Parried

=============================================================================
