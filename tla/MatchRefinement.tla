--------------------------- MODULE MatchRefinement ---------------------------
(***************************************************************************)
(* The program keeps the promise of WagerMatch: forget the vaults, the     *)
(* clocks and the boards, and every instruction is a step of WagerMatch or *)
(* changes nothing a player was promised.                                  *)
(***************************************************************************)
EXTENDS ChessProgram

\* The match an account stands for.
MatchOf(G) == [phase |-> G.status, white |-> G.player[0], black |-> G.player[1],
               stake |-> G.wager_per_side, outcome |-> G.result]

Promise == INSTANCE WagerMatch WITH
  Venues <- GameIds, Stakes <- Wagers, Gifts <- Deposits,
  Rent <- GameRent + StreamRent,
  match <- [g \in GameIds |-> MatchOf(game[g])], purse <- wallet, gifts <- stray

\* The nine instructions implement the match the players were promised: every
\* stake that join_game and create_game take comes back out of settle_wager or
\* close_game, to the right player, exactly once and in the step that says so,
\* whatever else happens at the vault's address.
KeepsPromise == Promise!Spec

=============================================================================
