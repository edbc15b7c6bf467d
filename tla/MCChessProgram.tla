--------------------------- MODULE MCChessProgram ---------------------------
(***************************************************************************)
(* Small instances of ChessProgram for TLC.                                *)
(***************************************************************************)
EXTENDS MatchRefinement, Lamports

CONSTANTS alice, bob, carol

\* Alice creates the games; Bob and Carol can join, watch and donate.
MCWallets == {alice, bob, carol}
MCCreators == {alice}
TwoPlayers == {alice, bob}
TwoCreators == {alice, bob}
OneSession == {1}
TwoSessions == {1, 2}

Tc(initial, increment) == [initial_ms |-> initial, increment_ms |-> increment]
Casual == {Tc(0, 0)}
\* 2.5 s and an increment of 1 s: a flag falls between two ticks.
Blitz == {Tc(2500, 1000)}
\* ... and 2 s without increment: a flag falls exactly at a tick.
ClockControls == {Tc(2500, 1000), Tc(2000, 0)}
\* One time control validate rejects, beside a casual and a timed one.
AllControls == {Tc(0, 0), Tc(2000, 1000), Tc(24 * 60 * 60 * 1000 + 1, 0)}
CasualAndTimed == {Tc(0, 0), Tc(2000, 1000)}

NoAmount == {}
FundsOf(a, b, c) ==
  [w \in Wallets |-> IF w = alice THEN a ELSE IF w = bob THEN b ELSE c]
\* Enough for one game of Alice's at a stake of 2, and for one to spare.
Purse == FundsOf(7, 3, 2)
\* Enough to hold a stake in two games at once.
TwoPurses == FundsOf(3, 3, 0)
NoPurse == FundsOf(0, 0, 0)

=============================================================================
