------------------------ MODULE MatchRefinement_proofs ------------------------
(***************************************************************************)
(* ChessProgram implements WagerMatch, for every value of its constants.   *)
(***************************************************************************)
EXTENDS MatchRefinement, ChessProgram_proofs

USE DEF Colors, GameIds, Times

\* The matches all accounts stand for.
Matches == [g \in GameIds |-> MatchOf(game[g])]

\* A match, field by field.
Match(phase, white, black, stake, outcome) ==
  [phase |-> phase, white |-> white, black |-> black, stake |-> stake, outcome |-> outcome]

\* One account that changes is one match that changes.
LEMMA MatchesExcept ==
  ASSUME game \in [GameIds -> Account], NEW g \in GameIds, NEW H,
         game' = [game EXCEPT ![g] = H]
  PROVE  /\ Matches' = [Matches EXCEPT ![g] = MatchOf(H)]
         /\ Matches[g] = MatchOf(game[g])
<1>1. \A h \in GameIds : MatchOf(game'[h]) = IF h = g THEN MatchOf(H) ELSE MatchOf(game[h])
  OBVIOUS
<1>2. Matches' = [h \in GameIds |-> MatchOf(game'[h])]
  BY DEF Matches, MatchOf
<1>. QED
  BY <1>1, <1>2 DEF Matches

\* Every settlement of a running game concludes the match it stands for.
LEMMA EndConcludes ==
  ASSUME IInv, NEW g \in GameIds, Active(g),
         NEW G \in Account, G.wager_per_side = game[g].wager_per_side,
         G.player = game[g].player, NEW result \in {"WhiteWins", "BlackWins", "Draw"},
         NEW reason, EndGame(g, G, result, reason), stray' = stray
  PROVE  Promise!Conclude(g, result)
<1>. DEFINE w == G.wager_per_side
            white == G.player[0]
            black == G.player[1]
            share(c) == Share(g, G, result, c)
            F == FinalizeGame(G, result, reason)
            M == MatchOf(game[g])
<1>0. TypeOK /\ SeatsTaken /\ VaultExact /\ game \in [GameIds -> Account] /\ game[g] \in Account
  BY DEF IInv, TypeOK
<1>1. /\ white \in Wallets /\ black \in Wallets /\ white # black /\ w \in Nat
  <2>1. white \in Wallets /\ black \in Wallets /\ white # black
    BY <1>0, TwoPlayers
  <2>2. w \in Nat
    BY DEF Account
  <2>. QED
    BY <2>1, <2>2
<1>2. /\ share(0) = IF result = "Draw" THEN w ELSE IF result = "WhiteWins" THEN 2 * w ELSE 0
      /\ share(1) = IF result = "Draw" THEN w ELSE IF result = "BlackWins" THEN 2 * w ELSE 0
  <2>1. Payout(g, G) = 2 * w
    BY <1>0, PotIsPaid
  <2>2. w = (2 * w) \div 2 /\ 2 * w - w = w
    BY <1>1
  <2>. HIDE DEF w
  <2>. QED
    BY <2>1, <2>2 DEF Share, Wins
<1>3. M.phase = "Active" /\ M.white = white /\ M.black = black /\ M.stake = w
  BY DEF MatchOf, Active
<1>4. wallet' = [wallet EXCEPT ![white] = @ + Promise!Reward(M, result, "WhiteWins"),
                               ![black] = @ + Promise!Reward(M, result, "BlackWins")]
  <2>1. wallet' = [wallet EXCEPT ![white] = @ + share(0), ![black] = @ + share(1)]
    BY DEF EndGame, SettleWager
  <2>2. /\ share(0) = Promise!Reward(M, result, "WhiteWins")
        /\ share(1) = Promise!Reward(M, result, "BlackWins")
    BY <1>2, <1>3 DEF Promise!Reward
  <2>. HIDE DEF share, white, black, M
  <2>. QED
    BY <2>1, <2>2
<1>5. MatchOf(F) = [M EXCEPT !.phase = "Finished", !.outcome = result]
  <2>1. /\ F.status = "Finished" /\ F.result = result
        /\ F.player = game[g].player /\ F.wager_per_side = game[g].wager_per_side
    BY DEF FinalizeGame, Account
  <2>2. MatchOf(F) = Match("Finished", white, black, w, result)
    <3>. HIDE DEF F
    <3>. QED
      BY <2>1 DEF MatchOf, Match
  <2>3. M = Match(game[g].status, white, black, w, game[g].result)
    BY DEF MatchOf, Match
  <2>. DEFINE N == [M EXCEPT !.phase = "Finished"]
  <2>. HIDE DEF F, M, white, black, w
  <2>4. N = Match("Finished", white, black, w, game[g].result)
    BY <2>3 DEF Match
  <2>. HIDE DEF N
  <2>5. [N EXCEPT !.outcome = result] = Match("Finished", white, black, w, result)
    BY <2>4 DEF Match
  <2>. QED
    BY <2>2, <2>5 DEF N
<1>6. Matches' = [Matches EXCEPT ![g] = MatchOf(F)] /\ Matches[g] = M
  BY <1>0, MatchesExcept DEF EndGame
<1>7. Matches' = [Matches EXCEPT ![g].phase = "Finished", ![g].outcome = result]
  <2>. HIDE DEF M, F
  <2>. QED
    BY <1>5, <1>6 DEF Matches
<1>. QED
  BY <1>3, <1>4, <1>6, <1>7 DEF Promise!Conclude, Matches

\* Transactions that promise and pay nobody anything.
LEMMA Stutters ==
  ASSUME game \in [GameIds -> Account], NEW g \in GameIds, NEW H,
         game' = [game EXCEPT ![g] = H], MatchOf(H) = MatchOf(game[g]),
         wallet' = wallet, stray' = stray
  PROVE  UNCHANGED Promise!vars
<1>1. Matches' = [Matches EXCEPT ![g] = Matches[g]]
  BY MatchesExcept
<1>2. Matches' = Matches
  BY <1>1 DEF Matches
<1>. QED
  BY <1>2 DEF Promise!vars, Matches

\* A fallen flag concludes the match for the player who waits.
LEMMA FlagConcludes ==
  ASSUME IInv, NEW g \in GameIds, Active(g), LoseOnTime(g), stray' = stray
  PROVE  Promise!Conclude(g, Wins(1 - game[g].side_to_move))
<1>. DEFINE c == game[g].side_to_move
            G == [game[g] EXCEPT !.clock_ms[c] = 0]
<1>1. game[g] \in Account /\ [game[g].clock_ms EXCEPT ![c] = 0] \in [Colors -> Nat]
  BY DEF IInv, TypeOK, Account
<1>2. /\ G \in Account /\ G.wager_per_side = game[g].wager_per_side
      /\ G.player = game[g].player
  BY <1>1 DEF Account
<1>3. EndGame(g, G, Wins(1 - c), "Timeout")
  BY DEF LoseOnTime
<1>4. Wins(1 - c) \in {"WhiteWins", "BlackWins", "Draw"}
  BY DEF Wins
<1>. HIDE DEF G, c
<1>5. Promise!Conclude(g, Wins(1 - c))
  BY <1>2, <1>3, <1>4, EndConcludes
<1>. QED
  BY <1>5 DEF c

\* Every transaction is a step of the match it touches, or changes none.
LEMMA PromiseStep ==
  ASSUME IInv, [Next]_vars
  PROVE  [Promise!Next]_Promise!vars
<1>0. /\ TypeOK /\ game \in [GameIds -> Account] /\ wallet \in [Wallets -> 0..U64_MAX]
      /\ \A g \in GameIds : game[g] \in Account
  BY DEF IInv, TypeOK
<1>. DEFINE Concludes(g) == \E r \in {"WhiteWins", "BlackWins", "Draw"} : Promise!Conclude(g, r)
<1>c. ASSUME NEW g \in GameIds, Concludes(g) PROVE Promise!Next
  BY <1>c DEF Promise!Next
<1>1. ASSUME NEW creator \in Creators, NEW sid \in SessionIds,
             NEW tc \in TimeControls, NEW w \in Wagers, CreateGame(creator, sid, tc, w)
      PROVE  Promise!Next
  <2>. DEFINE g == <<creator, sid>>
              H == NewGame(creator, tc, w)
  <2>1. /\ g \in GameIds /\ creator \in Wallets /\ w \in Nat
        /\ wallet[creator] \in Nat /\ GameRent + StreamRent \in Nat
    BY <1>0, WalletsAssumption, MoneyAssumption, WidthAssumption
  <2>2. /\ game' = [game EXCEPT ![g] = H] /\ stray' = stray /\ game[g].status = "NoAccount"
        /\ Stake(creator, g, w, GameRent + StreamRent)
    BY <1>1 DEF CreateGame, Exists
  <2>3. MatchOf(H) = [phase |-> "WaitingForOpponent", white |-> creator, black |-> Nobody,
                      stake |-> w, outcome |-> "Ongoing"]
    BY DEF MatchOf, NewGame
  <2>. HIDE DEF g, H
  <2>4. /\ Matches' = [Matches EXCEPT ![g] = MatchOf(H)]
        /\ Matches[g].phase = "NoAccount"
    <3>1. Matches' = [Matches EXCEPT ![g] = MatchOf(H)] /\ Matches[g] = MatchOf(game[g])
      BY <1>0, <2>1, <2>2, MatchesExcept
    <3>. QED
      BY <2>2, <3>1 DEF MatchOf
  <2>5. /\ wallet[creator] >= w + (GameRent + StreamRent)
        /\ wallet' = [wallet EXCEPT ![creator] = @ - (w + (GameRent + StreamRent))]
    <3>. DEFINE rent == GameRent + StreamRent
    <3>1. /\ wallet[creator] >= rent + w
          /\ wallet' = [wallet EXCEPT ![creator] = wallet[creator] - rent - w]
      BY <2>2 DEF Stake
    <3>2. rent \in Nat
      BY <2>1
    <3>. HIDE DEF rent
    <3>3. wallet[creator] - rent - w = wallet[creator] - (w + rent)
      BY <2>1, <3>2
    <3>4. wallet[creator] >= w + rent
      BY <2>1, <3>1, <3>2
    <3>5. wallet' = [wallet EXCEPT ![creator] = @ - (w + rent)]
      BY <3>1, <3>3
    <3>. QED
      BY <3>4, <3>5 DEF rent
  <2>6. Promise!Offer(g, creator, w)
    BY <2>2, <2>3, <2>4, <2>5 DEF Promise!Offer, Matches
  <2>. QED
    BY <2>1, <2>6 DEF Promise!Next
<1>2. ASSUME NEW g \in GameIds, NEW b \in Wallets, JoinGame(g, b)
      PROVE  Promise!Next
  <2>. DEFINE H == [game[g] EXCEPT !.player = [game[g].player EXCEPT ![1] = b],
                                   !.status = "Active", !.last_move_ts = now]
              M == MatchOf(game[g])
  <2>1. /\ game' = [game EXCEPT ![g] = H] /\ stray' = stray
    BY <1>0, <1>2 DEF JoinGame, Account
  <2>2. /\ M.phase = "WaitingForOpponent" /\ b # M.white /\ M.stake \in Nat
        /\ M.stake = game[g].wager_per_side
    BY <1>0, <1>2 DEF JoinGame, MatchOf, Account
  <2>3. MatchOf(H) = [M EXCEPT !.phase = "Active", !.black = b]
    <3>1. game[g] \in Account /\ game[g].player \in [Colors -> Wallets \cup {Nobody}]
      BY <1>0 DEF Account
    <3>2. /\ H.status = "Active" /\ H.player[0] = game[g].player[0] /\ H.player[1] = b
          /\ H.wager_per_side = game[g].wager_per_side /\ H.result = game[g].result
      BY <3>1 DEF Account
    <3>. DEFINE G == game[g]
    <3>3. MatchOf(H) = Match("Active", G.player[0], b, G.wager_per_side, G.result)
      <4>. HIDE DEF H
      <4>. QED
        BY <3>2 DEF MatchOf, Match
    <3>4. M = Match(G.status, G.player[0], G.player[1], G.wager_per_side, G.result)
      BY DEF MatchOf, Match
    <3>. DEFINE N == [M EXCEPT !.phase = "Active"]
    <3>. HIDE DEF H, M, G
    <3>5. N = Match("Active", G.player[0], G.player[1], G.wager_per_side, G.result)
      BY <3>4 DEF Match
    <3>. HIDE DEF N
    <3>6. [N EXCEPT !.black = b] = Match("Active", G.player[0], b, G.wager_per_side, G.result)
      BY <3>5 DEF Match
    <3>. QED
      BY <3>3, <3>6 DEF N
  <2>4. /\ wallet[b] >= M.stake /\ wallet' = [wallet EXCEPT ![b] = @ - M.stake]
    <3>1. Stake(b, g, M.stake, 0)
      BY <1>2, <2>2 DEF JoinGame
    <3>2. wallet[b] \in Nat /\ M.stake \in Nat
      BY <1>0, <2>2, WidthAssumption
    <3>. HIDE DEF M
    <3>3. /\ wallet[b] >= 0 + M.stake
          /\ wallet' = [wallet EXCEPT ![b] = wallet[b] - 0 - M.stake]
      BY <3>1 DEF Stake
    <3>4. wallet[b] - 0 - M.stake = wallet[b] - M.stake /\ 0 + M.stake = M.stake
      BY <3>2
    <3>. QED
      BY <3>3, <3>4
  <2>. HIDE DEF H, M
  <2>5. Matches' = [Matches EXCEPT ![g] = MatchOf(H)] /\ Matches[g] = M
    BY <1>0, <2>1, MatchesExcept DEF M
  <2>6. Matches' = [Matches EXCEPT ![g].phase = "Active", ![g].black = b]
    BY <2>3, <2>5 DEF Matches
  <2>7. Promise!Accept(g, b)
    BY <2>1, <2>2, <2>4, <2>5, <2>6 DEF Promise!Accept, Matches
  <2>. QED
    BY <2>7 DEF Promise!Next
<1>3. ASSUME NEW g \in GameIds, NEW w \in Wallets, NEW nonce \in 0..MAX_MOVE_HISTORY,
             MakeMove(g, w, nonce)
      PROVE  [Promise!Next]_Promise!vars
  <2>0. Active(g) /\ stray' = stray
    BY <1>3 DEF MakeMove
  <2>1. CASE FlagFallen(game[g])
    <3>1. LoseOnTime(g)
      BY <1>3, <2>1 DEF MakeMove
    <3>2. Wins(1 - game[g].side_to_move) \in {"WhiteWins", "BlackWins", "Draw"}
      BY DEF Wins
    <3>. QED
      BY <1>c, <2>0, <3>1, <3>2, FlagConcludes
  <2>2. CASE ~FlagFallen(game[g])
    <3>. DEFINE G == Played(game[g])
                c == game[g].side_to_move
    <3>1. PICK o \in MoveOutcome : RecordMove(g, o)
      BY <1>3, <2>2 DEF MakeMove
    <3>2. /\ G \in Account /\ G.wager_per_side = game[g].wager_per_side
          /\ G.player = game[g].player /\ G.status = game[g].status
          /\ G.result = game[g].result
      <4>1. game[g] \in Account /\ game[g].plies < MAX_MOVE_HISTORY
        BY <1>0, <1>3, <2>2 DEF MakeMove
      <4>2. G \in Account
        BY <1>0, <4>1, PlayedType DEF TypeOK
      <4>3. /\ G.wager_per_side = game[g].wager_per_side /\ G.status = game[g].status
            /\ G.player = game[g].player /\ G.result = game[g].result
        BY <4>1 DEF Played, Account
      <4>. QED
        BY <4>2, <4>3
    <3>3. ResultOf(o, c) \in {"WhiteWins", "BlackWins", "Draw"}
      BY DEF ResultOf, Wins
    <3>4. CASE Terminal(o)
      <4>1. EndGame(g, G, ResultOf(o, c), ReasonOf(o))
        BY <3>1, <3>4 DEF RecordMove
      <4>. HIDE DEF G, c
      <4>2. Promise!Conclude(g, ResultOf(o, c))
        BY <2>0, <3>2, <3>3, <4>1, EndConcludes
      <4>. QED
        BY <1>c, <3>3, <4>2
    <3>5. CASE ~Terminal(o)
      <4>1. game' = [game EXCEPT ![g] = G] /\ wallet' = wallet
        BY <3>1, <3>5 DEF RecordMove
      <4>2. MatchOf(G) = MatchOf(game[g])
        <5>. HIDE DEF G
        <5>. QED
          BY <3>2 DEF MatchOf
      <4>. HIDE DEF G
      <4>. QED
        BY <1>0, <2>0, <4>1, <4>2, Stutters
    <3>. QED
      BY <3>4, <3>5
  <2>. QED
    BY <2>1, <2>2
<1>4. ASSUME NEW g \in GameIds, NEW w \in Wallets, ResignGame(g, w)
      PROVE  Promise!Next
  <2>. DEFINE result == Wins(1 - ColorOf(game[g], w))
  <2>1. Active(g) /\ EndGame(g, game[g], result, "Resignation") /\ stray' = stray
    BY <1>4 DEF ResignGame
  <2>2. result \in {"WhiteWins", "BlackWins", "Draw"}
    BY DEF Wins
  <2>. HIDE DEF result
  <2>3. Promise!Conclude(g, result)
    BY <1>0, <2>1, <2>2, EndConcludes
  <2>. QED
    BY <1>c, <2>2, <2>3
<1>5. ASSUME NEW g \in GameIds, NEW w \in Wallets, OfferDraw(g, w)
      PROVE  UNCHANGED Promise!vars
  <2>. DEFINE H == [game[g] EXCEPT !.draw_offer = w]
  <2>1. game' = [game EXCEPT ![g] = H] /\ wallet' = wallet /\ stray' = stray
    BY <1>5 DEF OfferDraw
  <2>2. MatchOf(H) = MatchOf(game[g])
    BY <1>0 DEF MatchOf, Account
  <2>. HIDE DEF H
  <2>. QED
    BY <1>0, <2>1, <2>2, Stutters
<1>6. ASSUME NEW g \in GameIds, NEW w \in Wallets, AcceptDraw(g, w)
      PROVE  Promise!Next
  <2>1. Active(g) /\ EndGame(g, game[g], "Draw", "DrawAgreed") /\ stray' = stray
    BY <1>6 DEF AcceptDraw
  <2>2. Promise!Conclude(g, "Draw")
    BY <1>0, <2>1, EndConcludes
  <2>. QED
    BY <1>c, <2>2
<1>7. ASSUME NEW g \in GameIds, NEW w \in Wallets, CloseGame(g, w)
      PROVE  Promise!Next
  <2>. DEFINE M == MatchOf(game[g])
              refund == vault[g] + GameRent + StreamRent
              owed == IF M.phase = "WaitingForOpponent" THEN M.stake ELSE 0
  <2>1. /\ game' = [game EXCEPT ![g] = NoGame] /\ stray' = [stray EXCEPT ![g] = 0]
        /\ wallet' = [wallet EXCEPT ![g[1]] = @ + refund]
        /\ game[g].status \in {"WaitingForOpponent", "Finished"}
    BY <1>7 DEF CloseGame
  <2>2. M.white = g[1] /\ g[1] \in Wallets /\ M.phase \in {"WaitingForOpponent", "Finished"}
    BY <2>1, WalletsAssumption DEF IInv, SeatsTaken, Exists, MatchOf
  <2>3. /\ vault[g] = owed + stray[g] /\ vault[g] \in Int /\ stray[g] \in Int
        /\ owed \in Int /\ wallet[g[1]] \in Int /\ GameRent \in Int /\ StreamRent \in Int
    <3>1. vault[g] = owed + stray[g]
      BY <2>1 DEF IInv, VaultExact, Escrow, MatchOf
    <3>2. vault[g] \in Int /\ stray[g] \in Int /\ wallet[g[1]] \in Int
      BY <1>0, <2>2, WidthAssumption DEF TypeOK
    <3>3. owed \in Int
      BY <1>0 DEF Account, MatchOf
    <3>. QED
      BY <3>1, <3>2, <3>3, MoneyAssumption
  <2>4. wallet' = [wallet EXCEPT ![M.white] = @ + owed + (GameRent + StreamRent) + stray[g]]
    <3>. HIDE DEF owed, M
    <3>1. wallet[g[1]] + refund = wallet[g[1]] + owed + (GameRent + StreamRent) + stray[g]
      BY <2>3
    <3>. QED
      BY <2>1, <2>2, <3>1
  <2>5. MatchOf(NoGame) = Promise!NoMatch
    BY DEF MatchOf, NoGame, Promise!NoMatch
  <2>. HIDE DEF M
  <2>6. Matches' = [Matches EXCEPT ![g] = Promise!NoMatch] /\ Matches[g] = M
    BY <1>0, <2>1, <2>5, MatchesExcept DEF M
  <2>7. Promise!Clear(g)
    BY <2>1, <2>2, <2>4, <2>6 DEF Promise!Clear, Matches
  <2>. QED
    BY <2>7 DEF Promise!Next
<1>8. ASSUME NEW g \in GameIds, NEW w \in Wallets, NEW amount \in Deposits,
             Deposit(w, g, amount)
      PROVE  Promise!Next
  <2>1. /\ amount \in Nat /\ wallet[w] \in Nat
    BY <1>0, MoneyAssumption, WidthAssumption
  <2>2. /\ wallet[w] >= 0 + amount
        /\ wallet' = [wallet EXCEPT ![w] = wallet[w] - 0 - amount]
        /\ stray' = [stray EXCEPT ![g] = @ + amount] /\ game' = game
    BY <1>8 DEF Deposit, Stake
  <2>3. wallet[w] >= amount /\ wallet' = [wallet EXCEPT ![w] = @ - amount]
    <3>1. wallet[w] - 0 - amount = wallet[w] - amount /\ 0 + amount = amount
      BY <2>1
    <3>. QED
      BY <2>2, <3>1
  <2>4. Matches' = Matches
    BY <2>2 DEF Matches, MatchOf
  <2>5. Promise!Give(g, w, amount)
    BY <2>2, <2>3, <2>4 DEF Promise!Give, Matches
  <2>. QED
    BY <2>5 DEF Promise!Next
<1>9. ASSUME NEW g \in GameIds, SyncClock(g)
      PROVE  [Promise!Next]_Promise!vars
  <2>0. Active(g) /\ stray' = stray
    BY <1>9 DEF SyncClock
  <2>1. CASE LoseOnTime(g)
    <3>1. Wins(1 - game[g].side_to_move) \in {"WhiteWins", "BlackWins", "Draw"}
      BY DEF Wins
    <3>. QED
      BY <1>c, <2>0, <2>1, <3>1, FlagConcludes
  <2>2. CASE game' = game /\ wallet' = wallet
    <3>1. Matches' = Matches
      BY <2>2 DEF Matches, MatchOf
    <3>. QED
      BY <2>0, <2>2, <3>1 DEF Promise!vars, Matches
  <2>. QED
    BY <1>9, <2>1, <2>2 DEF SyncClock
<1>10. ASSUME NEW g \in GameIds, NEW kind \in ReactionKinds, NEW register \in BOOLEAN,
              RecordReaction(g, kind, register)
       PROVE  UNCHANGED Promise!vars
  <2>. DEFINE n == IF register THEN SaturatingAdd(game[g].spectators, U32_MAX)
                               ELSE game[g].spectators
              H == [game[g] EXCEPT !.spectators = n]
  <2>1. game' = [game EXCEPT ![g] = H] /\ wallet' = wallet /\ stray' = stray
    BY <1>10 DEF RecordReaction
  <2>2. MatchOf(H) = MatchOf(game[g])
    <3>. HIDE DEF n
    <3>. QED
      BY <1>0 DEF MatchOf, Account
  <2>. HIDE DEF H
  <2>. QED
    BY <1>0, <2>1, <2>2, Stutters
<1>11. CASE Tick \/ UNCHANGED vars
  <2>1. game' = game /\ wallet' = wallet /\ stray' = stray
    BY <1>11 DEF Tick, vars
  <2>2. Matches' = Matches
    BY <2>1 DEF Matches, MatchOf
  <2>. QED
    BY <2>1, <2>2 DEF Promise!vars, Matches
<1>. QED
  BY <1>1, <1>2, <1>3, <1>4, <1>5, <1>6, <1>7, <1>8, <1>9, <1>10, <1>11
     DEF Next, GameStep

\* For every number of players, sessions and lamports, and whatever strangers send
\* to the vaults, the program is an implementation of WagerMatch: no sequence of
\* transactions pays a stake twice, to the wrong player, or not at all.
THEOREM PromiseKept == Spec => KeepsPromise
<1>1. Init => Promise!Init
  <2>. SUFFICES ASSUME Init PROVE Promise!Init
    OBVIOUS
  <2>1. \A g \in GameIds : MatchOf(game[g]) = Promise!NoMatch
    BY DEF Init, MatchOf, NoGame, Promise!NoMatch
  <2>2. wallet \in [Wallets -> Nat]
    BY MoneyAssumption, WidthAssumption DEF Init
  <2>. QED
    BY <2>1, <2>2 DEF Init, Promise!Init
<1>2. IInv /\ [Next]_vars => [Promise!Next]_Promise!vars
  BY PromiseStep
<1>. QED
  BY <1>1, <1>2, Invariance, PTL DEF Spec, KeepsPromise, Promise!Spec

=============================================================================
