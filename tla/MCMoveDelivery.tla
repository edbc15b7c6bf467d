--------------------------- MODULE MCMoveDelivery ---------------------------
(***************************************************************************)
(* Small instances of MoveDelivery for TLC: one address of Alice's, where  *)
(* Bob joins.                                                              *)
(***************************************************************************)
EXTENDS MoveDelivery, TLC

CONSTANTS alice, bob, r1, r2, r3

MCWallets == {alice, bob}
MCCreators == {alice}
OneSession == {1}
TwoRequests == {r1, r2}
OneRequest == {r3}

\* One second: a move that is executed late loses on time.
Timed1s == {[initial_ms |-> 1000, increment_ms |-> 0]}

NoAmount == {}
NoPurse == [w \in Wallets |-> 0]

\* Requests for moves are interchangeable.
RequestSymmetry == Permutations(MoveIds)

\* What the instructions and these properties read: not the log, nor how a
\* finished game came out.
Unfinished(G) == [G EXCEPT !.result = "Ongoing", !.end_reason = "None"]
WhatIsRead == <<[g \in GameIds |-> Unfinished(game[g])], stream, vault, wallet, now,
                used, stray, life, client>>

=============================================================================
