------------------------------ MODULE BoardMatch ------------------------------
(***************************************************************************)
(* The program with the rules engine inside: every Game account holds its   *)
(* ChessState and its move history, and make_move records the verdict       *)
(* apply_move reports instead of any MoveOutcome.  What players send is      *)
(* bounded to the moves of Lines, in the order of a line, and to one the    *)
(* engine refuses.                                                          *)
(***************************************************************************)
EXTENDS ChessProgram, ChessView

CONSTANT Lines  \* sequences of moves, each a record of from, to, promotion

\* Game.move_nonce and ChessState.fullmove_number have the same width.
ASSUME SameWidthAssumption == U16_MAX = MAX_U16
ASSUME LinesAssumption ==
  Lines \subseteq Seq([from : Square, to : Square, promotion : 0..MAX_U8])

VARIABLES
  board,   \* Game.chess of every address
  history  \* Game.move_history

boardVars == <<vars, board, history>>

\* A move the engine refuses in every position.
Refused == [from |-> 0, to |-> 0, promotion |-> 0]

\* Bound on the moves a player may send next: those that continue a line and,
\* at any time, a refused one (make_move looks at the flag before the move).
Candidates(g) ==
  LET played == history[g] n == Len(played)
      Packed(mv) == Pack(mv.from, mv.to, mv.promotion)
  IN {Refused}
     \cup {line[n + 1] : line \in {l \in Lines :
                                    /\ n < Len(l)
                                    /\ \A i \in 1..n : Packed(l[i]) = played[i]}}

\* Seeded fault: the verdict on the position before the move is used.
VerdictOfMover(mv, s, t) ==
  LET o == Outcome(s, mv.from, mv.to, t)
      status == ComputeStatus(s)
  IN [is_check |-> o.is_check, is_mate |-> status = "Checkmate",
      is_stalemate |-> status = "Stalemate", draw_50_move |-> status = "FiftyMove",
      draw_insufficient |-> status = "InsufficientMaterial"]

\* What make_move acts on: the report of apply_move and, when that reports no
\* end, the draws compute_status finds on the new position.
Verdict(mv, s, t) ==
  LET o == Outcome(s, mv.from, mv.to, t)
      again(draw) == ~Terminal(o) /\ ComputeStatus(t) = draw
  IN [is_check |-> o.is_check, is_mate |-> o.is_mate, is_stalemate |-> o.is_stalemate,
      draw_50_move |-> o.draw_50_move \/ again("FiftyMove"),
      draw_insufficient |-> o.draw_insufficient \/ again("InsufficientMaterial")]

\* make_move on the board.  The flag is looked at before the move is.
PlayMove(g, mover, nonce, mv) ==
  LET G == game[g] c == G.side_to_move
      next == Apply(board[g], mv.from, mv.to, mv.promotion) IN
  /\ Active(g)
  /\ IsPlayer(G, mover) /\ ColorOf(G, mover) = c
  /\ nonce = G.move_nonce
  /\ \/ /\ FlagFallen(G)
        /\ LoseOnTime(g)
        /\ Log("make_move", g, <<"GameEnded">>)
        /\ UNCHANGED <<board, history>>
     \/ /\ ~FlagFallen(G)
        /\ Legal(board[g], mv.from, mv.to, mv.promotion)
        /\ Len(history[g]) < MAX_MOVE_HISTORY
        /\ RecordMove(g, Verdict(mv, board[g], next))
        /\ board' = [board EXCEPT ![g] = next]
        /\ history' = [history EXCEPT ![g] =
                         Append(@, Pack(mv.from, mv.to, mv.promotion))]
  /\ UNCHANGED <<stream, now, used, stray>>

\* An account is created with the opening position and an empty history.
SetUp(creator, sid, tc, w) ==
  LET g == <<creator, sid>> IN
  /\ CreateGame(creator, sid, tc, w)
  /\ board' = [board EXCEPT ![g] = Initial]
  /\ history' = [history EXCEPT ![g] = <<>>]

\* close_game takes the account away; nothing reads the address's board then.
Remove(g, closer) ==
  /\ CloseGame(g, closer)
  /\ board' = [board EXCEPT ![g] = Initial]
  /\ history' = [history EXCEPT ![g] = <<>>]

\* The instructions that leave the board alone.
OffBoard(g) ==
  /\ \/ \E w \in Wallets :
          JoinGame(g, w) \/ ResignGame(g, w) \/ OfferDraw(g, w) \/ AcceptDraw(g, w)
     \/ SyncClock(g)
     \/ \E kind \in ReactionKinds, register \in BOOLEAN : RecordReaction(g, kind, register)
     \/ \E w \in Wallets, amount \in Deposits : Deposit(w, g, amount)
  /\ UNCHANGED <<board, history>>

BoardInit == /\ Init
             /\ board = [g \in GameIds |-> Initial]
             /\ history = [g \in GameIds |-> <<>>]

BoardNext ==
  \/ \E creator \in Creators, sid \in SessionIds, tc \in TimeControls, w \in Wagers :
       SetUp(creator, sid, tc, w)
  \/ \E g \in GameIds : \E w \in Wallets :
       \/ \E nonce \in 0..MAX_MOVE_HISTORY, mv \in Candidates(g) : PlayMove(g, w, nonce, mv)
       \/ Remove(g, w)
  \/ \E g \in GameIds : OffBoard(g)
  \/ Tick /\ UNCHANGED <<board, history>>

BoardSpec == BoardInit /\ [][BoardNext]_boardVars

-----------------------------------------------------------------------------
(* Properties.                                                             *)

Verdicts == {"Checkmate", "Stalemate", "FiftyMove", "InsufficientMaterial"}

\* A game goes on exactly as long as the laws of chess let it: no position on
\* which compute_status gives a verdict is ever played on from, resigned or
\* flagged, the verdict is what the account records, and it is recorded only if
\* the position bears it out.  The order of make_move's branches decides.
VerdictTaken ==
  \A g \in GameIds : LET G == game[g] status == ComputeStatus(board[g]) IN
    Exists(g) => IF G.end_reason \in Verdicts THEN status = G.end_reason
                                              ELSE status = "Ongoing"

\* What a reader of the account makes of its history: every entry unpacked and
\* played from the opening, one after the other.
Replayed(h) ==
  LET position[n \in 0..Len(h)] ==
        IF n = 0 THEN Initial
        ELSE LET mv == Unpack(h[n]) IN
             Apply(position[n - 1], mv.from, mv.to, mv.promotion)
  IN position[Len(h)]

\* The history of an account, replayed from the opening by whoever reads it,
\* gives the account's position, also of a game that ended on time or by
\* agreement and of one created where another was closed.
HistoryTellsBoard ==
  \A g \in GameIds : Exists(g) => Replayed(history[g]) = board[g]

\* What the laws ask of the past, as the history tells it: the squares that have
\* been left or entered, and the one the last move's pawn has passed over.
Touched(h) == UNION {{Unpack(h[i]).from, Unpack(h[i]).to} : i \in 1..Len(h)}
Passed(h, s) ==
  LET mv == Unpack(h[Len(h)]) IN
  IF Len(h) > 0 /\ Kind(s.squares[mv.to]) = Pawn /\ Dist(mv.from, mv.to) = 16
  THEN Coord((mv.from + mv.to) \div 2) ELSE Rules!Nowhere

\* Whoever loses a stake by checkmate is mated by the laws of chess, given the
\* board and the moves in the account; and with mate or stalemate on the board
\* no game goes on, nor ends for any other reason.
EndsByTheLaws ==
  \A g \in GameIds :
    LET s == board[g]
        b == BoardOf(s)
        color == ColorName(s.side_to_move)
        ep == Passed(history[g], s)
        still == {Coord(i) : i \in Square \ Touched(history[g])}
    IN Exists(g) =>
       /\ game[g].end_reason = "Checkmate" <=> Rules!Checkmate(b, color, ep, still)
       /\ game[g].end_reason = "Stalemate" <=> Rules!Stalemate(b, color, ep, still)

\* Five counters of one account, written by three modules, tell the same story:
\* the nonce, the length of the history, the plies played, the move number and
\* the side to move, on the board and in the handlers' eyes.
CountersInStep ==
  \A g \in GameIds : LET G == game[g] n == Len(history[g]) IN
    Exists(g) => /\ G.plies = n /\ G.move_nonce = n
                 /\ board[g].side_to_move = G.side_to_move
                 /\ board[g].side_to_move = n % 2
                 /\ board[g].fullmove_number = 1 + (n \div 2)

=============================================================================
