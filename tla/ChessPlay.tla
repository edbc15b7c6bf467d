------------------------------- MODULE ChessPlay -------------------------------
(***************************************************************************)
(* A game as make_move drives the engine: from a start position, one legal  *)
(* move after the other until the engine reports an end.  The engine's      *)
(* verdicts and its bookkeeping are compared with ChessRules and with what  *)
(* has happened since the start.                                            *)
(***************************************************************************)
EXTENDS ChessView, FiniteSets

CONSTANTS
  Starts,      \* positions to start from: Initial, or some game's Game.chess
  Promotions,  \* values of MakeMoveArgs.mv.promotion
  MaxPly       \* bound on the plies played from a start position

ASSUME PlyAssumption == MaxPly \in Nat /\ Promotions \subseteq 0..MAX_U8
\* Typed positions of a running game: the fifty moves are not yet complete.
ASSUME StartAssumption ==
  \A s \in Starts : /\ s.squares \in [Square -> 0..12] /\ s.side_to_move \in {0, 1}
                    /\ s.castling_rights \subseteq Rights
                    /\ s.en_passant \in Square \cup {None}
                    /\ s.halfmove_clock \in 0..99 /\ s.fullmove_number \in 0..MAX_U16
ASSUME OrderAssumption == \A s \in Starts : InOrder(s)

VARIABLES
  chess,    \* Game.chess
  outcome,  \* what the last apply_move returned
  packed,   \* the last entry of Game.move_history
  event,    \* the last MovePlayed event
  before,   \* history: the position the last move was played in
  ply,      \* history: plies played
  touched,  \* history: squares a piece has left or entered
  quiet     \* history: plies since the last capture or pawn move

vars == <<chess, outcome, packed, event, before, ply, touched, quiet>>

NoOutcome ==
  [piece |-> EMPTY, captured |-> EMPTY, flags |-> {}, is_check |-> FALSE,
   is_mate |-> FALSE, is_stalemate |-> FALSE, draw_50_move |-> FALSE,
   draw_insufficient |-> FALSE]

NoEvent ==
  [color |-> 0, from_sq |-> 0, to_sq |-> 0, piece |-> EMPTY, captured |-> EMPTY,
   promotion |-> 0, flags |-> {}]

\* The event of an accepted move: the squares and the promotion as submitted, the
\* colour as it was before the move, the rest as the engine reports it.
MovePlayed(s, from, to, promotion, o) ==
  [color |-> s.side_to_move, from_sq |-> from, to_sq |-> to, piece |-> o.piece,
   captured |-> o.captured, promotion |-> promotion, flags |-> o.flags]

Over(o) == o.is_mate \/ o.is_stalemate \/ o.draw_50_move \/ o.draw_insufficient

\* make_move: the engine accepts the move, and the game has not ended.
MakeMove(from, to, promotion) ==
  /\ ~Over(outcome)
  /\ Legal(chess, from, to, promotion)
  /\ LET next == Apply(chess, from, to, promotion) IN
     /\ chess' = next
     /\ outcome' = Outcome(chess, from, to, next)
  /\ packed' = Pack(from, to, promotion)
  /\ event' = MovePlayed(chess, from, to, promotion, outcome')
  /\ before' = chess
  /\ ply' = ply + 1
  /\ touched' = touched \cup {from, to}
  /\ quiet' = IF Kind(chess.squares[from]) = Pawn \/ outcome'.captured # EMPTY
              THEN 0 ELSE quiet + 1

\* A start position without a right is one in which that rook, or the king when
\* both rights are gone, has moved before.
TouchedBefore(s) ==
  LET gone(set) == set \cap s.castling_rights = {} IN
  (IF "W_KING_SIDE" \in s.castling_rights THEN {} ELSE {7})
  \cup (IF "W_QUEEN_SIDE" \in s.castling_rights THEN {} ELSE {0})
  \cup (IF "B_KING_SIDE" \in s.castling_rights THEN {} ELSE {63})
  \cup (IF "B_QUEEN_SIDE" \in s.castling_rights THEN {} ELSE {56})
  \cup (IF gone({"W_KING_SIDE", "W_QUEEN_SIDE"}) THEN {4} ELSE {})
  \cup (IF gone({"B_KING_SIDE", "B_QUEEN_SIDE"}) THEN {60} ELSE {})

Init ==
  /\ chess \in Starts
  /\ outcome = NoOutcome
  /\ packed = 0
  /\ event = NoEvent
  /\ before = chess
  /\ ply = 0
  /\ touched = TouchedBefore(chess)
  /\ quiet = chess.halfmove_clock

Next == /\ ply < MaxPly
        /\ \E from \in Square, to \in Square, promotion \in Promotions :
             MakeMove(from, to, promotion)

Spec == Init /\ [][Next]_vars

\* The square the last move's pawn passed over, from the move itself.
PassedOver ==
  LET left == {i \in Square : before.squares[i] # EMPTY /\ chess.squares[i] = EMPTY}
      entered == {i \in Square : before.squares[i] = EMPTY /\ chess.squares[i] # EMPTY}
  IN IF \E f, t \in Square : /\ left = {f} /\ entered = {t} /\ Dist(f, t) = 16
                             /\ Kind(chess.squares[t]) = Pawn
     THEN Coord((CHOOSE f \in left : TRUE) + Dir(before.side_to_move))
     ELSE IF ply = 0 /\ chess.en_passant # None THEN Coord(chess.en_passant)
     ELSE Rules!Nowhere

-----------------------------------------------------------------------------
(* Properties.                                                             *)

\* The engine's state has the shape of board.rs's ChessState.
TypeOK ==
  /\ chess.squares \in [Square -> 0..12] /\ chess.side_to_move \in {0, 1}
  /\ chess.castling_rights \subseteq Rights
  /\ chess.en_passant \in Square \cup {None}
  /\ chess.halfmove_clock \in 0..MAX_U8 /\ chess.fullmove_number \in 0..MAX_U16

\* Pins, discovered checks, castling through attack, en passant exposing the
\* king, promotions: in every position reached, apply_move accepts a move
\* exactly when the laws of chess allow it, the board being the one the moves
\* so far led to and castling rights judged by which pieces have ever moved.
EngineAgrees ==
  LET b == BoardOf(chess)
      color == ColorName(chess.side_to_move)
      ep == PassedOver
      still == {Coord(i) : i \in Square \ touched}
  IN /\ b \in Rules!Boards
     /\ \A from \in Square, promotion \in 0..6 :
          {Coord(to) : to \in {i \in Square : Legal(chess, from, i, promotion)}} =
            Rules!Reach(b, color, ep, still, Coord(from), KindName(promotion))

\* Whoever has just moved is not in check, and both kings are on the board, so
\* the king scans of the engine never fail.
KingsSafe == KingsInOrder(chess)

\* A castling right survives exactly as long as its king and rook have not
\* moved and nothing was captured on their squares, and both are still there.
RightsMeanUntouched ==
  /\ RightsInOrder(chess)
  /\ \A right \in Rights :
       right \in chess.castling_rights <=> HomeSquares(right) \cap touched = {}

\* An en-passant target is the empty square an opposing pawn has just passed.
EnPassantSound == TargetInOrder(chess)

\* The report of apply_move and the recomputation of compute_status, which
\* make_move falls back on, give the same verdict on every move.
VerdictsAgree ==
  ply > 0 =>
    ComputeStatus(chess) =
      IF outcome.is_mate THEN "Checkmate"
      ELSE IF outcome.is_stalemate THEN "Stalemate"
      ELSE IF outcome.draw_50_move THEN "FiftyMove"
      ELSE IF outcome.draw_insufficient THEN "InsufficientMaterial"
      ELSE "Ongoing"

\* Check, mate and stalemate are reported when the laws of chess say so: the
\* candidates the probe tries are all the moves there are, and a mate that only
\* a capture en passant or a promotion parries is none.
VerdictsLawful ==
  LET b == BoardOf(chess)
      color == ColorName(chess.side_to_move)
      still == {Coord(i) : i \in Square \ touched}
  IN ply > 0 =>
     /\ outcome.is_check <=> Rules!Checked(b, color)
     /\ outcome.is_mate <=> Rules!Checkmate(b, color, PassedOver, still)
     /\ outcome.is_stalemate <=> Rules!Stalemate(b, color, PassedOver, still)

\* Nobody loses a win to the draw for want of material: in such a position nobody
\* is mated, and no legal move leads out of such positions.
DrawIsDead ==
  IsInsufficientMaterial(chess) =>
    /\ InCheck(chess.squares, chess.side_to_move) => AnyLegal(chess)
    /\ \A from \in Square, to \in Square, promotion \in Promotions :
         Legal(chess, from, to, promotion) =>
           IsInsufficientMaterial(Apply(chess, from, to, promotion))

\* The fifty-move draw is reported on the hundredth quiet ply, not a ply sooner
\* or later, and the u8 counter never gets further.
FiftyMoveExact ==
  /\ chess.halfmove_clock = quiet /\ quiet =< 100
  /\ ply > 0 => (outcome.draw_50_move <=> quiet = 100)

\* What the event tells clients about material is what happened on the board:
\* a capture removes the reported piece and nothing else leaves the board.
CaptureReported ==
  LET count(s, p) == Cardinality({i \in Square : s.squares[i] = p})
      promoted(p) == "PROMOTION" \in event.flags
                       /\ p = Make(Pawn, before.side_to_move)
      gained == {p \in 1..12 : count(chess, p) = count(before, p) + 1}
      lost == {p \in 1..12 : count(chess, p) = count(before, p) - 1}
  IN /\ event.captured # EMPTY <=> "CAPTURE" \in event.flags
     /\ lost = {p \in 1..12 : p = event.captured \/ promoted(p)}
     /\ Cardinality(gained) = IF "PROMOTION" \in event.flags THEN 1 ELSE 0

\* An overlay that knows no rules can follow the game: the fields of a MovePlayed
\* event and nothing else, drawn over the board of the event before, give the
\* board of the account, castling and captures en passant included.
EventRedraws ==
  ply > 0 =>
    LET from == event.from_sq
        to == event.to_sq
        drawn == IF event.promotion = 0 THEN event.piece
                 ELSE Make(event.promotion, event.color)
        plain == [before.squares EXCEPT ![from] = EMPTY, ![to] = drawn]
        corner == Sq(IF to > from THEN 7 ELSE 0, RankOf(to))
    IN chess.squares =
         IF "EN_PASSANT" \in event.flags
         THEN [plain EXCEPT ![to - Dir(event.color)] = EMPTY]
         ELSE IF "CASTLE" \in event.flags
         THEN [plain EXCEPT ![corner] = EMPTY,
                            ![(from + to) \div 2] = Make(Rook, event.color)]
         ELSE plain

\* The history can be replayed: the entry make_move pushes, unpacked and applied
\* to the position before it, gives the position the account now holds.
HistoryReplays ==
  ply > 0 => LET move == Unpack(packed) IN
             Apply(before, move.from, move.to, move.promotion) = chess

=============================================================================
