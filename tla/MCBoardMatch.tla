----------------------------- MODULE MCBoardMatch -----------------------------
(***************************************************************************)
(* Games for BoardMatch: whole lines from the opening to each verdict, and  *)
(* to a promotion, a castling and a capture en passant.                     *)
(***************************************************************************)
EXTENDS BoardMatch

CONSTANTS alice, bob

MCWallets == {alice, bob}
MCCreators == {alice}
OneSession == {1}
NoAmount == {}
NoPurse == [w \in Wallets |-> 0]
Timed1s == {[initial_ms |-> 1000, increment_ms |-> 0]}

Move(from, to) == [from |-> from, to |-> to, promotion |-> 0]
\* A line of moves without promotions, written as pairs of squares.
Line(pairs) == [i \in 1..Len(pairs) |-> Move(pairs[i][1], pairs[i][2])]

FoolsMate == Line(<<<<13, 21>>, <<52, 36>>, <<14, 30>>, <<59, 31>>>>)

\* Stalemate after ten moves.
StalemateLine ==
  Line(<<<<12, 20>>, <<48, 32>>, <<3, 39>>, <<56, 40>>, <<39, 32>>, <<55, 39>>,
         <<32, 50>>, <<40, 47>>, <<15, 31>>, <<53, 45>>, <<50, 51>>, <<60, 53>>,
         <<51, 49>>, <<59, 19>>, <<49, 57>>, <<19, 55>>, <<57, 58>>, <<53, 46>>,
         <<58, 44>>>>)

\* The knights go out and back until fifty moves have passed.
FiftyMoves ==
  LET tour == <<<<6, 21>>, <<62, 45>>, <<21, 6>>, <<45, 62>>>> IN
  Line([i \in 1..101 |-> tour[1 + ((i - 1) % 4)]])

\* Everything is captured but the kings and a bishop.
BareKings ==
  Line(<<<<12, 28>>, <<51, 35>>, <<28, 35>>, <<59, 35>>, <<5, 19>>, <<35, 8>>,
         <<19, 55>>, <<8, 9>>, <<55, 62>>, <<63, 15>>, <<0, 48>>, <<15, 14>>,
         <<48, 49>>, <<14, 13>>, <<2, 9>>, <<13, 11>>, <<9, 54>>, <<11, 10>>,
         <<3, 10>>, <<58, 49>>, <<10, 50>>, <<49, 7>>, <<62, 53>>, <<60, 53>>,
         <<50, 57>>, <<56, 57>>, <<54, 61>>, <<57, 1>>, <<4, 13>>, <<1, 6>>,
         <<61, 52>>, <<53, 52>>, <<13, 6>>>>)

\* A pawn takes its way to a corner and becomes a knight.
PromotionLine ==
  Line(<<<<15, 31>>, <<54, 38>>, <<31, 38>>, <<55, 47>>, <<38, 47>>, <<61, 54>>,
         <<47, 54>>, <<48, 40>>>>)
  \o <<[from |-> 54, to |-> 63, promotion |-> Knight]>>

EnPassantLine == Line(<<<<12, 28>>, <<48, 40>>, <<28, 36>>, <<51, 35>>, <<36, 43>>>>)

CastlingLine ==
  Line(<<<<12, 28>>, <<52, 36>>, <<6, 21>>, <<62, 45>>, <<5, 26>>, <<61, 34>>, <<4, 6>>>>)

Games == {FoolsMate, StalemateLine, FiftyMoves, BareKings, PromotionLine, EnPassantLine,
          CastlingLine}

=============================================================================
