------------------------ MODULE ChessProgram_proofs ------------------------
(***************************************************************************)
(* Proofs about ChessProgram, for every value of its constants.            *)
(***************************************************************************)
EXTENDS ChessProgram, TLAPS

USE DEF Colors, GameIds, Times

-----------------------------------------------------------------------------
(* The operators the instructions are built from.                          *)

\* The elapsed time is a number of milliseconds, however the clock moved.
LEMMA ElapsedType ==
  ASSUME now \in Times, NEW G \in Account
  PROVE  ElapsedMs(G) \in Nat
BY TimeAssumption DEF ElapsedMs, Account

\* A settlement pays at most what the vault holds, all of it in two shares.
LEMMA ShareBounds ==
  ASSUME NEW g \in GameIds, vault[g] \in Nat, NEW G \in Account,
         NEW result \in {"WhiteWins", "BlackWins", "Draw"}
  PROVE  /\ Payout(g, G) \in Nat /\ Payout(g, G) =< vault[g]
         /\ \A c \in Colors : Share(g, G, result, c) \in Nat
         /\ Share(g, G, result, 0) + Share(g, G, result, 1) = Payout(g, G)
<1>1. G.wager_per_side \in Nat
  BY DEF Account
<1>2. Payout(g, G) \in Nat /\ Payout(g, G) =< vault[g]
  BY <1>1, WidthAssumption DEF Payout
<1>3. CASE result = "Draw"
  <2>. DEFINE half == Payout(g, G) \div 2
  <2>1. /\ Share(g, G, result, 0) = half
        /\ Share(g, G, result, 1) = Payout(g, G) - half
    BY <1>3 DEF Share
  <2>2. half \in Nat /\ half =< Payout(g, G)
    BY <1>2
  <2>. HIDE DEF half
  <2>. QED
    BY <1>2, <2>1, <2>2
<1>4. CASE result = "WhiteWins"
  BY <1>2, <1>4 DEF Share, Wins
<1>5. CASE result = "BlackWins"
  BY <1>2, <1>5 DEF Share, Wins
<1>. QED
  BY <1>2, <1>3, <1>4, <1>5

\* The account a game ends with is an account, whatever the way it ends.
LEMMA FinalizeType ==
  ASSUME NEW G \in Account, NEW result \in Results, NEW reason \in Reasons
  PROVE  FinalizeGame(G, result, reason) \in Account
BY DEF FinalizeGame, Account, Statuses

\* A move that fits in the history leaves an account.
LEMMA PlayedType ==
  ASSUME now \in Times, NEW G \in Account, G.plies < MAX_MOVE_HISTORY
  PROVE  Played(G) \in Account
<1>1. ClockAfterMove(G) \in Nat
  BY ElapsedType, TimeAssumption DEF ClockAfterMove, Account
<1>2. /\ G.plies + 1 \in 0..MAX_MOVE_HISTORY
      /\ (G.move_nonce + 1) % (U16_MAX + 1) \in 0..U16_MAX
      /\ 1 - G.side_to_move \in Colors
  BY WidthAssumption DEF Account
<1>3. [G.clock_ms EXCEPT ![G.side_to_move] = ClockAfterMove(G)] \in [Colors -> Nat]
  BY <1>1 DEF Account
<1>. QED
  BY <1>2, <1>3 DEF Played, Account

\* The account create_game writes ...
LEMMA NewGameType ==
  ASSUME now \in Times, NEW creator \in Wallets, NEW tc \in TimeControls,
         NEW w \in Nat
  PROVE  NewGame(creator, tc, w) \in Account
<1>1. tc.initial_ms \in Nat
  BY TimeAssumption
<1>2. 0 \in 0..MAX_MOVE_HISTORY /\ 0 \in 0..U32_MAX /\ 0 \in 0..U16_MAX
  BY WidthAssumption
<1>. QED
  BY <1>1, <1>2, WalletsAssumption DEF NewGame, Account, Statuses, Results, Reasons

\* ... and what an address reads as without one.
LEMMA NoGameType == NoGame \in Account /\ NoSession \in Session
<1>1. (CHOOSE t \in TimeControls : TRUE) \in TimeControls
  BY TimeAssumption
<1>2. /\ 0 \in 0..MAX_MOVE_HISTORY /\ 0 \in Times /\ 0 \in 0..U32_MAX
      /\ 0 \in 0..U16_MAX /\ 0 \in 0..U64_MAX
  BY TimeAssumption, WidthAssumption
<1>. QED
  BY <1>1, <1>2 DEF NoGame, Account, Statuses, Results, Reasons, NoSession, Session

-----------------------------------------------------------------------------
(* Types.                                                                  *)

\* A transfer into a vault keeps balances within u64.
LEMMA StakeType ==
  ASSUME TypeOK, NEW from \in Wallets, NEW g \in GameIds, NEW amount \in Nat,
         NEW rent \in Nat, Stake(from, g, amount, rent)
  PROVE  /\ vault' \in [GameIds -> 0..U64_MAX]
         /\ wallet' \in [Wallets -> 0..U64_MAX]
<1>1. vault[g] \in 0..U64_MAX /\ wallet[from] \in 0..U64_MAX
  BY DEF TypeOK
<1>2. vault[g] + amount \in 0..U64_MAX /\ wallet[from] - rent - amount \in 0..U64_MAX
  BY <1>1, WidthAssumption DEF Stake
<1>. QED
  BY <1>2 DEF Stake, TypeOK

\* The players of a running game are two different wallets.
LEMMA TwoPlayers ==
  ASSUME TypeOK, SeatsTaken, NEW g \in GameIds, Active(g)
  PROVE  /\ game[g] \in Account
         /\ game[g].player[0] \in Wallets /\ game[g].player[1] \in Wallets
         /\ game[g].player[0] # game[g].player[1]
<1>1. game[g] \in Account /\ game[g].player \in [Colors -> Wallets \cup {Nobody}]
  BY DEF TypeOK, Account
<1>2. Exists(g) /\ game[g].status # "WaitingForOpponent"
  BY DEF Active, Exists
<1>3. g[1] \in Wallets
  BY WalletsAssumption
<1>4. /\ game[g].player[0] = g[1] /\ game[g].player[1] # game[g].player[0]
      /\ game[g].player[1] # Nobody
  BY <1>2 DEF SeatsTaken
<1>. QED
  BY <1>1, <1>3, <1>4

\* A settlement keeps balances within u64.
LEMMA SettleType ==
  ASSUME TypeOK, NEW g \in GameIds, NEW G \in Account,
         G.player[0] \in Wallets, G.player[1] \in Wallets,
         G.player[0] # G.player[1],
         NEW result \in {"WhiteWins", "BlackWins", "Draw"},
         SettleWager(g, G, result)
  PROVE  /\ vault' \in [GameIds -> 0..U64_MAX]
         /\ wallet' \in [Wallets -> 0..U64_MAX]
<1>1. vault[g] \in 0..U64_MAX
  BY DEF TypeOK
<1>2. /\ Payout(g, G) \in Nat /\ Payout(g, G) =< vault[g]
      /\ \A c \in Colors : Share(g, G, result, c) \in Nat
  BY <1>1, ShareBounds
<1>3. vault[g] - Payout(g, G) \in 0..U64_MAX
  BY <1>1, <1>2, WidthAssumption
<1>4. \A c \in Colors : /\ wallet[G.player[c]] \in 0..U64_MAX
                       /\ wallet[G.player[c]] + Share(g, G, result, c) =< U64_MAX
  BY DEF TypeOK, SettleWager
<1>5. \A c \in Colors : wallet[G.player[c]] + Share(g, G, result, c) \in 0..U64_MAX
  BY <1>2, <1>4, WidthAssumption
<1>6. vault' \in [GameIds -> 0..U64_MAX]
  BY <1>3 DEF SettleWager, TypeOK
<1>7. wallet' = [wallet EXCEPT
         ![G.player[0]] = wallet[G.player[0]] + Share(g, G, result, 0),
         ![G.player[1]] = wallet[G.player[1]] + Share(g, G, result, 1)]
  BY DEF SettleWager
<1>. QED
  BY <1>5, <1>6, <1>7 DEF TypeOK

\* Ending a running game, whichever instruction does it, keeps every type.
LEMMA EndGameType ==
  ASSUME TypeOK, SeatsTaken, NEW g \in GameIds, Active(g),
         NEW G \in Account, G.player = game[g].player,
         NEW result \in {"WhiteWins", "BlackWins", "Draw"}, NEW reason \in Reasons,
         EndGame(g, G, result, reason)
  PROVE  /\ game' \in [GameIds -> Account]
         /\ vault' \in [GameIds -> 0..U64_MAX]
         /\ wallet' \in [Wallets -> 0..U64_MAX]
<1>1. FinalizeGame(G, result, reason) \in Account
  BY FinalizeType DEF Results
<1>2. game' \in [GameIds -> Account]
  BY <1>1 DEF EndGame, TypeOK
<1>. QED
  BY <1>2, TwoPlayers, SettleType DEF EndGame

\* A flag that falls keeps every type.
LEMMA LoseOnTimeType ==
  ASSUME TypeOK, SeatsTaken, NEW g \in GameIds, Active(g), LoseOnTime(g)
  PROVE  /\ game' \in [GameIds -> Account]
         /\ vault' \in [GameIds -> 0..U64_MAX]
         /\ wallet' \in [Wallets -> 0..U64_MAX]
<1>. DEFINE c == game[g].side_to_move
            G == [game[g] EXCEPT !.clock_ms[c] = 0]
<1>1. game[g] \in Account /\ c \in Colors
  BY DEF TypeOK, Account
<1>2. [game[g].clock_ms EXCEPT ![c] = 0] \in [Colors -> Nat]
  BY <1>1 DEF Account
<1>3. G \in Account /\ G.player = game[g].player
  BY <1>1, <1>2 DEF Account
<1>4. Wins(1 - c) \in {"WhiteWins", "BlackWins", "Draw"} /\ "Timeout" \in Reasons
  BY DEF Wins, Reasons
<1>5. EndGame(g, G, Wins(1 - c), "Timeout")
  BY DEF LoseOnTime
<1>. HIDE DEF G, c
<1>. QED
  BY <1>3, <1>4, <1>5, EndGameType

\* Short lists of events are sequences of events.
LEMMA EventLists ==
  /\ <<>> \in Seq(EventTypes)
  /\ \A a, b, c \in EventTypes : /\ <<a>> \in Seq(EventTypes)
                                 /\ <<a, b>> \in Seq(EventTypes)
                                 /\ <<a, b, c>> \in Seq(EventTypes)
OBVIOUS

\* The events of a move are events.
LEMMA MoveEventsType ==
  ASSUME NEW o \in MoveOutcome
  PROVE  MoveEvents(o) \in Seq(EventTypes)
<1>. DEFINE check == IF o.is_check /\ ~o.is_mate THEN <<"CheckEvent">> ELSE <<>>
            ending == IF o.is_mate THEN <<"CheckmateEvent", "GameEnded">>
                      ELSE IF o.is_stalemate
                           THEN <<"StalemateEvent", "DrawEvent", "GameEnded">>
                      ELSE IF Terminal(o) THEN <<"DrawEvent", "GameEnded">> ELSE <<>>
<1>. DEFINE types == {"MovePlayed", "CheckEvent", "CheckmateEvent", "GameEnded",
                      "StalemateEvent", "DrawEvent"}
<1>0. types \subseteq EventTypes
  BY DEF EventTypes
<1>1. <<"MovePlayed">> \in Seq(EventTypes) /\ check \in Seq(EventTypes)
  BY <1>0, EventLists
<1>2. ending \in Seq(EventTypes)
  BY <1>0, EventLists
<1>3. MoveEvents(o) = <<"MovePlayed">> \o check \o ending
  BY DEF MoveEvents
<1>. HIDE DEF check, ending
<1>. QED
  BY <1>1, <1>2, <1>3

\* Every transaction keeps the declared types.
LEMMA TypeStep == TypeOK /\ SeatsTaken /\ [Next]_vars => TypeOK'
<1>. SUFFICES ASSUME TypeOK, SeatsTaken, [Next]_vars PROVE TypeOK'
  OBVIOUS
<1>. DEFINE LogType(l) == l \in [ix : Instructions, game : GameIds \cup {Nobody},
                                 events : Seq(EventTypes)]
<1>1. ASSUME NEW creator \in Creators, NEW sid \in SessionIds,
             NEW tc \in TimeControls, NEW w \in Wagers, CreateGame(creator, sid, tc, w)
      PROVE  TypeOK'
  <2>. DEFINE g == <<creator, sid>>
  <2>1. g \in GameIds /\ creator \in Wallets /\ w \in Nat /\ GameRent + StreamRent \in Nat
    BY WalletsAssumption, MoneyAssumption
  <2>2. NewGame(creator, tc, w) \in Account /\ NoSession \in Session
    BY <2>1, NewGameType, NoGameType DEF TypeOK
  <2>3. game' \in [GameIds -> Account] /\ stream' \in [GameIds -> Session]
    BY <1>1, <2>1, <2>2 DEF CreateGame, TypeOK
  <2>4. vault' \in [GameIds -> 0..U64_MAX] /\ wallet' \in [Wallets -> 0..U64_MAX]
    BY <1>1, <2>1, StakeType DEF CreateGame
  <2>5. LogType(log')
    BY <1>1, <2>1 DEF CreateGame, Log, Instructions, EventTypes
  <2>. QED
    BY <1>1, <2>3, <2>4, <2>5 DEF CreateGame, TypeOK
<1>2. ASSUME NEW g \in GameIds, NEW w \in Wallets, JoinGame(g, w)
      PROVE  TypeOK'
  <2>1. game[g] \in Account /\ game[g].wager_per_side \in Nat
    BY DEF TypeOK, Account
  <2>2. game' = [game EXCEPT ![g] =
           [game[g] EXCEPT !.player = [game[g].player EXCEPT ![1] = w],
                           !.status = "Active", !.last_move_ts = now]]
    BY <1>2, <2>1 DEF JoinGame, Account, TypeOK
  <2>3. [game[g].player EXCEPT ![1] = w] \in [Colors -> Wallets \cup {Nobody}]
    BY <2>1 DEF Account
  <2>4. game' \in [GameIds -> Account]
    BY <2>1, <2>2, <2>3 DEF Account, Statuses, TypeOK
  <2>5. vault' \in [GameIds -> 0..U64_MAX] /\ wallet' \in [Wallets -> 0..U64_MAX]
    BY <1>2, <2>1, StakeType DEF JoinGame
  <2>6. LogType(log')
    BY <1>2 DEF JoinGame, Log, Instructions, EventTypes
  <2>7. used' \in [GameIds -> [Colors -> Int]]
    BY <1>2 DEF JoinGame, TypeOK, NoTime
  <2>. QED
    BY <1>2, <2>4, <2>5, <2>6, <2>7 DEF JoinGame, TypeOK
<1>3. ASSUME NEW g \in GameIds, NEW w \in Wallets, NEW nonce \in 0..MAX_MOVE_HISTORY,
             MakeMove(g, w, nonce)
      PROVE  TypeOK'
  <2>1. game[g] \in Account /\ game[g].side_to_move \in Colors
    BY DEF TypeOK, Account
  <2>2. CASE FlagFallen(game[g])
    <3>1. /\ LoseOnTime(g) /\ Active(g)
          /\ Log("make_move", g, <<"GameEnded">>)
      BY <1>3, <2>2 DEF MakeMove, RecordMove
    <3>2. LogType(log')
      BY <3>1 DEF Log, Instructions, EventTypes
    <3>. QED
      BY <1>3, <3>1, <3>2, LoseOnTimeType DEF MakeMove, RecordMove, TypeOK
  <2>3. CASE ~FlagFallen(game[g])
    <3>. DEFINE G == game[g]
                c == G.side_to_move
    <3>1. G.plies < MAX_MOVE_HISTORY /\ Active(g)
      BY <1>3, <2>3 DEF MakeMove, RecordMove
    <3>2. PICK o \in MoveOutcome :
            /\ \/ /\ Terminal(o)
                  /\ EndGame(g, Played(G), ResultOf(o, c), ReasonOf(o))
               \/ /\ ~Terminal(o)
                  /\ game' = [game EXCEPT ![g] = Played(G)]
                  /\ UNCHANGED <<vault, wallet>>
            /\ Log("make_move", g, MoveEvents(o))
      BY <1>3, <2>3 DEF MakeMove, RecordMove
    <3>3. Played(G) \in Account /\ Played(G).player = G.player
      <4>1. Played(G) \in Account
        BY <2>1, <3>1, PlayedType DEF TypeOK
      <4>2. Played(G).player = G.player
        BY <2>1 DEF Played, Account
      <4>. QED
        BY <4>1, <4>2
    <3>4. ResultOf(o, c) \in {"WhiteWins", "BlackWins", "Draw"} /\ ReasonOf(o) \in Reasons
      BY DEF ResultOf, ReasonOf, Wins, Reasons
    <3>5. /\ game' \in [GameIds -> Account] /\ vault' \in [GameIds -> 0..U64_MAX]
          /\ wallet' \in [Wallets -> 0..U64_MAX]
      <4>1. CASE Terminal(o)
        BY <3>1, <3>2, <3>3, <3>4, <4>1, EndGameType
      <4>2. CASE ~Terminal(o)
        BY <3>2, <3>3, <4>2 DEF TypeOK
      <4>. QED
        BY <4>1, <4>2
    <3>6. LogType(log')
      BY <3>2, MoveEventsType DEF Log, Instructions
    <3>. QED
      BY <1>3, <3>5, <3>6 DEF MakeMove, RecordMove, TypeOK
  <2>. QED
    BY <2>2, <2>3
<1>4. ASSUME NEW g \in GameIds, NEW w \in Wallets, ResignGame(g, w)
      PROVE  TypeOK'
  <2>. DEFINE result == Wins(1 - ColorOf(game[g], w))
  <2>1. game[g] \in Account /\ Active(g) /\ EndGame(g, game[g], result, "Resignation")
    BY <1>4 DEF ResignGame, TypeOK
  <2>2. result \in {"WhiteWins", "BlackWins", "Draw"} /\ "Resignation" \in Reasons
    BY DEF Wins, Reasons
  <2>3. LogType(log')
    BY <1>4 DEF ResignGame, Log, Instructions, EventTypes
  <2>4. /\ game' \in [GameIds -> Account] /\ vault' \in [GameIds -> 0..U64_MAX]
        /\ wallet' \in [Wallets -> 0..U64_MAX]
    <3>. HIDE DEF result
    <3>. QED
      BY <2>1, <2>2, EndGameType
  <2>. QED
    BY <1>4, <2>3, <2>4 DEF ResignGame, TypeOK
<1>5. ASSUME NEW g \in GameIds, NEW w \in Wallets, OfferDraw(g, w)
      PROVE  TypeOK'
  <2>0. game[g] \in Account
    BY DEF TypeOK
  <2>1. game' \in [GameIds -> Account]
    BY <1>5, <2>0 DEF OfferDraw, TypeOK, Account
  <2>2. LogType(log')
    BY <1>5 DEF OfferDraw, Log, Instructions, EventTypes
  <2>. QED
    BY <1>5, <2>1, <2>2 DEF OfferDraw, TypeOK
<1>6. ASSUME NEW g \in GameIds, NEW w \in Wallets, AcceptDraw(g, w)
      PROVE  TypeOK'
  <2>1. game[g] \in Account /\ Active(g) /\ EndGame(g, game[g], "Draw", "DrawAgreed")
    BY <1>6 DEF AcceptDraw, TypeOK
  <2>2. "DrawAgreed" \in Reasons
    BY DEF Reasons
  <2>3. LogType(log')
    BY <1>6 DEF AcceptDraw, Log, Instructions, EventTypes
  <2>. QED
    BY <1>6, <2>1, <2>2, <2>3, EndGameType DEF AcceptDraw, TypeOK
<1>7. ASSUME NEW g \in GameIds, NEW w \in Wallets, CloseGame(g, w)
      PROVE  TypeOK'
  <2>. DEFINE refund == vault[g] + GameRent + StreamRent
  <2>1. g[1] \in Wallets
    BY WalletsAssumption
  <2>2. wallet[g[1]] + refund \in 0..U64_MAX
    <3>1. wallet[g[1]] \in Nat /\ refund \in Nat
      BY <2>1, MoneyAssumption, WidthAssumption DEF TypeOK
    <3>2. wallet[g[1]] + refund =< U64_MAX
      BY <1>7 DEF CloseGame
    <3>. QED
      BY <3>1, <3>2, WidthAssumption
  <2>3. wallet' \in [Wallets -> 0..U64_MAX]
    BY <1>7, <2>1, <2>2 DEF CloseGame, TypeOK
  <2>4. /\ vault' \in [GameIds -> 0..U64_MAX] /\ stray' \in [GameIds -> Nat]
        /\ used' \in [GameIds -> [Colors -> Int]]
    BY <1>7, WidthAssumption DEF CloseGame, TypeOK, NoTime
  <2>5. LogType(log')
    BY <1>7 DEF CloseGame, Log, Instructions
  <2>. QED
    BY <1>7, <2>3, <2>4, <2>5, NoGameType DEF CloseGame, TypeOK
<1>8. ASSUME NEW g \in GameIds, NEW w \in Wallets, NEW amount \in Deposits,
             Deposit(w, g, amount)
      PROVE  TypeOK'
  <2>1. amount \in Nat
    BY MoneyAssumption
  <2>2. vault' \in [GameIds -> 0..U64_MAX] /\ wallet' \in [Wallets -> 0..U64_MAX]
    BY <1>8, <2>1, StakeType DEF Deposit
  <2>3. stray' \in [GameIds -> Nat]
    BY <1>8, <2>1 DEF Deposit, TypeOK
  <2>4. LogType(log')
    BY <1>8 DEF Deposit, Log, Instructions
  <2>. QED
    BY <1>8, <2>2, <2>3, <2>4 DEF Deposit, TypeOK
<1>9. ASSUME NEW g \in GameIds, SyncClock(g)
      PROVE  TypeOK'
  <2>1. LogType(log')
    <3>1. {"GameEnded", "ClockUpdated"} \subseteq EventTypes
      BY DEF EventTypes
    <3>. DEFINE update == IF Timed(game[g]) THEN <<"ClockUpdated">> ELSE <<>>
    <3>2. update \in Seq(EventTypes) /\ <<"GameEnded">> \in Seq(EventTypes)
      BY <3>1, EventLists
    <3>3. \/ log' = [ix |-> "sync_clock", game |-> g, events |-> <<"GameEnded">>]
          \/ log' = [ix |-> "sync_clock", game |-> g, events |-> update]
      BY <1>9 DEF SyncClock, Log
    <3>4. "sync_clock" \in Instructions /\ g \in GameIds \cup {Nobody}
      BY DEF Instructions
    <3>. HIDE DEF update
    <3>5. CASE log' = [ix |-> "sync_clock", game |-> g, events |-> update]
      BY <3>2, <3>4, <3>5
    <3>6. CASE log' = [ix |-> "sync_clock", game |-> g, events |-> <<"GameEnded">>]
      BY <3>2, <3>4, <3>6
    <3>. QED
      BY <3>3, <3>5, <3>6
  <2>2. /\ game' \in [GameIds -> Account] /\ vault' \in [GameIds -> 0..U64_MAX]
        /\ wallet' \in [Wallets -> 0..U64_MAX]
    BY <1>9, LoseOnTimeType DEF SyncClock, TypeOK
  <2>. QED
    BY <1>9, <2>1, <2>2 DEF SyncClock, TypeOK
<1>10. ASSUME NEW g \in GameIds, NEW kind \in ReactionKinds, NEW register \in BOOLEAN,
              RecordReaction(g, kind, register)
       PROVE  TypeOK'
  <2>1. \A max \in Nat : \A n \in 0..max : SaturatingAdd(n, max) \in 0..max
    BY DEF SaturatingAdd
  <2>2. game[g] \in Account /\ stream[g] \in Session
    BY DEF TypeOK
  <2>3. game' \in [GameIds -> Account]
    BY <1>10, <2>1, <2>2, WidthAssumption DEF RecordReaction, TypeOK, Account
  <2>4. stream' \in [GameIds -> Session]
    BY <1>10, <2>1, <2>2, WidthAssumption DEF RecordReaction, TypeOK, Session
  <2>5. LogType(log')
    <3>1. {"SpectatorJoined", "StreamReactionEvent"} \subseteq EventTypes
      BY DEF EventTypes
    <3>. DEFINE events == IF register THEN <<"SpectatorJoined", "StreamReactionEvent">>
                          ELSE <<"StreamReactionEvent">>
    <3>2. events \in Seq(EventTypes)
      BY <3>1, EventLists
    <3>3. log' = [ix |-> "record_reaction", game |-> g, events |-> events]
      BY <1>10 DEF RecordReaction, Log
    <3>. HIDE DEF events
    <3>. QED
      BY <3>2, <3>3 DEF Instructions
  <2>. QED
    BY <1>10, <2>3, <2>4, <2>5 DEF RecordReaction, TypeOK
<1>11. CASE Tick
  <2>1. \A g \in GameIds : game[g].side_to_move \in Colors /\ used[g] \in [Colors -> Int]
    BY DEF TypeOK, Account
  <2>2. now' - now \in Int
    BY <1>11, TimeAssumption DEF Tick, TypeOK
  <2>3. used' \in [GameIds -> [Colors -> Int]]
    BY <1>11, <2>1, <2>2 DEF Tick
  <2>. QED
    BY <1>11, <2>3 DEF Tick, TypeOK, Log, Instructions
<1>12. CASE UNCHANGED vars
  BY <1>12 DEF vars, TypeOK
<1>. QED
  BY <1>1, <1>2, <1>3, <1>4, <1>5, <1>6, <1>7, <1>8, <1>9, <1>10, <1>11, <1>12
  DEF Next, GameStep

-----------------------------------------------------------------------------
(* What each instruction does to the accounts.                             *)

\* No instruction touches two accounts, and it changes the one it touches in
\* one of these ways.
Created(g) ==
  /\ ~Exists(g)
  /\ \E tc \in TimeControls, w \in Wagers : game'[g] = NewGame(g[1], tc, w)
Joined(g) ==
  /\ game[g].status = "WaitingForOpponent"
  /\ \E w \in Wallets :
       /\ w # game[g].player[0]
       /\ game'[g] = [game[g] EXCEPT !.player = [game[g].player EXCEPT ![1] = w],
                                     !.status = "Active", !.last_move_ts = now]
  /\ used'[g] = NoTime /\ now' = now
MovedOn(g) ==
  /\ Active(g) /\ ~FlagFallen(game[g]) /\ game[g].plies < MAX_MOVE_HISTORY
  /\ game'[g] = Played(game[g])
MovedLast(g) ==
  /\ Active(g) /\ ~FlagFallen(game[g]) /\ game[g].plies < MAX_MOVE_HISTORY
  /\ \E o \in MoveOutcome :
       game'[g] = FinalizeGame(Played(game[g]), ResultOf(o, game[g].side_to_move),
                               ReasonOf(o))
Flagged(g) ==
  /\ Active(g) /\ FlagFallen(game[g])
  /\ LET c == game[g].side_to_move IN
     game'[g] = FinalizeGame([game[g] EXCEPT !.clock_ms[c] = 0], Wins(1 - c), "Timeout")
Resigned(g) ==
  /\ Active(g)
  /\ \E c \in Colors : game'[g] = FinalizeGame(game[g], Wins(c), "Resignation")
Agreed(g) ==
  Active(g) /\ game'[g] = FinalizeGame(game[g], "Draw", "DrawAgreed")
Offered(g) ==
  /\ Active(g)
  /\ \E w \in Wallets : /\ IsPlayer(game[g], w)
                        /\ game'[g] = [game[g] EXCEPT !.draw_offer = w]
Watched(g) ==
  /\ Exists(g)
  /\ \E n \in 0..U32_MAX : game'[g] = [game[g] EXCEPT !.spectators = n]
Closed(g) ==
  /\ game[g].status \in {"WaitingForOpponent", "Finished"}
  /\ game'[g] = NoGame

AccountStep(g) ==
  \/ game'[g] = game[g]
  \/ Created(g) \/ Joined(g) \/ MovedOn(g) \/ MovedLast(g) \/ Flagged(g)
  \/ Resigned(g) \/ Agreed(g) \/ Offered(g) \/ Watched(g) \/ Closed(g)

\* The clock moves, and the time used with it, in no transaction of an instruction.
UsedStep(g) == \/ used'[g] = used[g] /\ now' = now
               \/ Joined(g) \/ Closed(g) \/ Tick

\* Every transaction is, for every address, one of those changes.
LEMMA AccountSteps ==
  TypeOK /\ [Next]_vars => \A g \in GameIds : AccountStep(g) /\ UsedStep(g)
<1>. SUFFICES ASSUME TypeOK, [Next]_vars, NEW h \in GameIds
              PROVE  AccountStep(h) /\ UsedStep(h)
  OBVIOUS
<1>. USE DEF AccountStep, UsedStep
<1>0. game[h] \in Account /\ game \in [GameIds -> Account] /\ used \in [GameIds -> [Colors -> Int]]
  BY DEF TypeOK
<1>1. ASSUME NEW creator \in Creators, NEW sid \in SessionIds,
             NEW tc \in TimeControls, NEW w \in Wagers, CreateGame(creator, sid, tc, w)
      PROVE  AccountStep(h) /\ UsedStep(h)
  <2>1. UsedStep(h)
    BY <1>1 DEF CreateGame
  <2>. DEFINE g == <<creator, sid>>
  <2>2. game' = [game EXCEPT ![g] = NewGame(g[1], tc, w)] /\ ~Exists(g)
    BY <1>1 DEF CreateGame
  <2>3. h = g \/ game'[h] = game[h]
    BY <1>0, <2>2
  <2>4. h = g => Created(h)
    <3>. HIDE DEF g
    <3>. QED
      BY <1>0, <2>2 DEF Created
  <2>. QED
    BY <2>1, <2>3, <2>4
<1>2. ASSUME NEW g \in GameIds, NEW w \in Wallets, JoinGame(g, w)
      PROVE  AccountStep(h) /\ UsedStep(h)
  <2>1. game[g] \in Account
    BY <1>0
  <2>. QED
    BY <1>0, <1>2, <2>1 DEF JoinGame, Joined, Account
<1>3. ASSUME NEW g \in GameIds, NEW w \in Wallets, NEW nonce \in 0..MAX_MOVE_HISTORY,
             MakeMove(g, w, nonce)
      PROVE  AccountStep(h) /\ UsedStep(h)
  BY <1>0, <1>3 DEF MakeMove, RecordMove, LoseOnTime, EndGame, Flagged, MovedOn, MovedLast
<1>4. ASSUME NEW g \in GameIds, NEW w \in Wallets, ResignGame(g, w)
      PROVE  AccountStep(h) /\ UsedStep(h)
  <2>1. 1 - ColorOf(game[g], w) \in Colors
    BY DEF ColorOf
  <2>. QED
    BY <1>0, <1>4, <2>1 DEF ResignGame, EndGame, Resigned
<1>5. ASSUME NEW g \in GameIds, NEW w \in Wallets, OfferDraw(g, w)
      PROVE  AccountStep(h) /\ UsedStep(h)
  BY <1>0, <1>5 DEF OfferDraw, Offered
<1>6. ASSUME NEW g \in GameIds, NEW w \in Wallets, AcceptDraw(g, w)
      PROVE  AccountStep(h) /\ UsedStep(h)
  BY <1>0, <1>6 DEF AcceptDraw, EndGame, Agreed
<1>7. ASSUME NEW g \in GameIds, NEW w \in Wallets, CloseGame(g, w)
      PROVE  AccountStep(h) /\ UsedStep(h)
  BY <1>0, <1>7 DEF CloseGame, Closed
<1>8. ASSUME NEW g \in GameIds, NEW w \in Wallets, NEW amount \in Deposits,
             Deposit(w, g, amount)
      PROVE  AccountStep(h) /\ UsedStep(h)
  BY <1>8 DEF Deposit
<1>9. ASSUME NEW g \in GameIds, SyncClock(g)
      PROVE  AccountStep(h) /\ UsedStep(h)
  BY <1>0, <1>9 DEF SyncClock, LoseOnTime, EndGame, Flagged
<1>10. ASSUME NEW g \in GameIds, NEW kind \in ReactionKinds, NEW register \in BOOLEAN,
              RecordReaction(g, kind, register)
       PROVE  AccountStep(h) /\ UsedStep(h)
  <2>1. game[g].spectators \in 0..U32_MAX
    BY <1>0 DEF Account
  <2>2. SaturatingAdd(game[g].spectators, U32_MAX) \in 0..U32_MAX
    BY <2>1, WidthAssumption DEF SaturatingAdd
  <2>. QED
    BY <1>0, <1>10, <2>1, <2>2 DEF RecordReaction, Watched
<1>11. CASE Tick
  BY <1>11 DEF Tick
<1>12. CASE UNCHANGED vars
  BY <1>12 DEF vars
<1>. QED
  BY <1>1, <1>2, <1>3, <1>4, <1>5, <1>6, <1>7, <1>8, <1>9, <1>10, <1>11, <1>12
  DEF Next, GameStep

\* An account just created, and an address just closed, start from scratch.
LEMMA FreshAccount ==
  ASSUME NEW g \in GameIds, Created(g) \/ Closed(g)
  PROVE  /\ game'[g].status \in {"WaitingForOpponent", "NoAccount"}
         /\ game'[g].result = "Ongoing" /\ game'[g].end_reason = "None"
         /\ game'[g].plies = 0 /\ game'[g].move_nonce = 0
         /\ game'[g].side_to_move = 0 /\ game'[g].draw_offer = Nobody
<1>1. CASE Created(g)
  <2>1. PICK tc \in TimeControls, w \in Wagers : game'[g] = NewGame(g[1], tc, w)
    BY <1>1 DEF Created
  <2>. QED
    BY <2>1 DEF NewGame
<1>2. CASE Closed(g)
  BY <1>2 DEF Closed, NoGame
<1>. QED
  BY <1>1, <1>2

-----------------------------------------------------------------------------
(* Invariants of one account.  Each follows from AccountSteps, case by case. *)

\* No change of an account upsets the seats.
LEMMA SeatsStep == TypeOK /\ SeatsTaken /\ [Next]_vars => SeatsTaken'
<1>. SUFFICES ASSUME TypeOK, SeatsTaken, [Next]_vars, NEW g \in GameIds, Exists(g)'
              PROVE  /\ game'[g].player[0] = g[1]
                     /\ game'[g].player[1] # game'[g].player[0]
                     /\ (game'[g].player[1] = Nobody
                           <=> game'[g].status = "WaitingForOpponent")
  BY DEF SeatsTaken
<1>1. /\ game[g] \in Account /\ g[1] \in Wallets /\ g[1] # Nobody
      /\ game[g].player \in [Colors -> Wallets \cup {Nobody}]
  BY WalletsAssumption DEF TypeOK, Account
<1>2. AccountStep(g)
  BY AccountSteps
<1>3. Exists(g) => /\ game[g].player[0] = g[1]
                   /\ game[g].player[1] # game[g].player[0]
                   /\ game[g].player[1] = Nobody <=> game[g].status = "WaitingForOpponent"
  BY DEF SeatsTaken
<1>4. CASE Created(g)
  BY <1>1, <1>4 DEF Created, NewGame
<1>5. CASE Joined(g)
  BY <1>1, <1>3, <1>5, WalletsAssumption DEF Joined, Exists, Account
<1>6. CASE Closed(g)
  BY <1>6 DEF Closed, NoGame, Exists
<1>7. CASE Active(g) /\ game'[g].player = game[g].player
           /\ game'[g].status \in {"Active", "Finished"}
  BY <1>3, <1>7 DEF Active, Exists
<1>8. CASE game'[g].player = game[g].player /\ game'[g].status = game[g].status
  BY <1>3, <1>8 DEF Exists
<1>9. CASE MovedOn(g) \/ MovedLast(g) \/ Flagged(g) \/ Resigned(g) \/ Agreed(g) \/ Offered(g)
  <2>1. Active(g) /\ game[g].status = "Active"
    BY <1>9 DEF MovedOn, MovedLast, Flagged, Resigned, Agreed, Offered, Active
  <2>2. game'[g].player = game[g].player /\ game'[g].status \in {"Active", "Finished"}
    BY <1>1, <1>9, <2>1 DEF MovedOn, MovedLast, Flagged, Resigned, Agreed, Offered,
                            Played, FinalizeGame, Account
  <2>. QED
    BY <1>7, <2>1, <2>2
<1>10. CASE Watched(g) \/ game'[g] = game[g]
  BY <1>1, <1>8, <1>10 DEF Watched, Account
<1>. QED
  BY <1>2, <1>4, <1>5, <1>6, <1>9, <1>10 DEF AccountStep

\* The nonce, the history and the side to move stay in step.
LEMMA NonceStep == TypeOK /\ NonceNamesPly /\ [Next]_vars => NonceNamesPly'
<1>. SUFFICES ASSUME TypeOK, NonceNamesPly, [Next]_vars, NEW g \in GameIds
              PROVE  /\ game'[g].move_nonce = game'[g].plies
                     /\ game'[g].side_to_move = game'[g].plies % 2
  BY DEF NonceNamesPly
<1>1. /\ game[g] \in Account
      /\ game[g].move_nonce = game[g].plies
      /\ game[g].side_to_move = game[g].plies % 2
  BY DEF TypeOK, NonceNamesPly
<1>2. AccountStep(g)
  BY AccountSteps
<1>3. ASSUME game[g].plies < MAX_MOVE_HISTORY
      PROVE  /\ Played(game[g]).move_nonce = Played(game[g]).plies
             /\ Played(game[g]).side_to_move = Played(game[g]).plies % 2
  <2>1. game[g].plies \in Nat /\ game[g].plies + 1 =< U16_MAX
    BY <1>1, <1>3, WidthAssumption DEF Account
  <2>2. /\ Played(game[g]).plies = game[g].plies + 1
        /\ Played(game[g]).move_nonce = (game[g].plies + 1) % (U16_MAX + 1)
        /\ Played(game[g]).side_to_move = 1 - (game[g].plies % 2)
    BY <1>1 DEF Played, Account
  <2>3. (game[g].plies + 1) % (U16_MAX + 1) = game[g].plies + 1
    BY <2>1, WidthAssumption
  <2>4. 1 - (game[g].plies % 2) = (game[g].plies + 1) % 2
    BY <2>1
  <2>. QED
    BY <2>2, <2>3, <2>4
<1>4. CASE MovedOn(g)
  BY <1>3, <1>4 DEF MovedOn
<1>5. CASE MovedLast(g)
  <2>1. /\ game'[g].move_nonce = Played(game[g]).move_nonce
        /\ game'[g].plies = Played(game[g]).plies
        /\ game'[g].side_to_move = Played(game[g]).side_to_move
    BY <1>1, <1>5 DEF MovedLast, FinalizeGame, Played, Account
  <2>. QED
    BY <1>3, <1>5, <2>1 DEF MovedLast
<1>6. CASE Created(g) \/ Closed(g)
  BY <1>6, FreshAccount
<1>7. CASE \/ game'[g] = game[g] \/ Joined(g) \/ Flagged(g) \/ Resigned(g)
           \/ Agreed(g) \/ Offered(g) \/ Watched(g)
  <2>1. /\ game'[g].move_nonce = game[g].move_nonce
        /\ game'[g].plies = game[g].plies
        /\ game'[g].side_to_move = game[g].side_to_move
    BY <1>1, <1>7 DEF Joined, Flagged, Resigned, Agreed, Offered, Watched,
                      FinalizeGame, Account
  <2>. QED
    BY <1>1, <2>1
<1>. QED
  BY <1>2, <1>4, <1>5, <1>6, <1>7 DEF AccountStep

\* No way to end a game records a result its reason does not imply.
LEMMA OutcomeStep == TypeOK /\ OutcomeFitsReason /\ [Next]_vars => OutcomeFitsReason'
<1>. DEFINE Fits(G) ==
       /\ G.status = "Finished" <=> G.result # "Ongoing"
       /\ G.result = "Ongoing" <=> G.end_reason = "None"
       /\ G.end_reason \in {"Checkmate", "Timeout"} => G.result = Wins(1 - G.side_to_move)
       /\ G.end_reason = "Resignation" => G.result # "Draw"
       /\ G.end_reason \in {"DrawAgreed", "Stalemate", "FiftyMove",
                            "InsufficientMaterial"} => G.result = "Draw"
<1>. SUFFICES ASSUME TypeOK, OutcomeFitsReason, [Next]_vars, NEW g \in GameIds
              PROVE  Fits(game'[g])
  BY DEF OutcomeFitsReason
<1>1. game[g] \in Account /\ game[g].side_to_move \in Colors
  BY DEF TypeOK, Account
<1>2. Fits(game[g])
  BY DEF OutcomeFitsReason
<1>3. AccountStep(g)
  BY AccountSteps
<1>4. CASE MovedOn(g)
  <2>1. game[g].status = "Active" /\ game'[g].status = "Active"
    BY <1>1, <1>4 DEF MovedOn, Active, Played, Account
  <2>2. game'[g].result = game[g].result /\ game'[g].end_reason = game[g].end_reason
    BY <1>1, <1>4 DEF MovedOn, Played, Account
  <2>. QED
    BY <1>2, <2>1, <2>2
<1>5. CASE MovedLast(g)
  <2>1. PICK o \in MoveOutcome :
          game'[g] = FinalizeGame(Played(game[g]), ResultOf(o, game[g].side_to_move),
                                  ReasonOf(o))
    BY <1>5 DEF MovedLast
  <2>2. /\ game'[g].status = "Finished" /\ game'[g].end_reason = ReasonOf(o)
        /\ game'[g].result = ResultOf(o, game[g].side_to_move)
        /\ game'[g].side_to_move = 1 - game[g].side_to_move
    BY <1>1, <2>1 DEF FinalizeGame, Played, Account
  <2>3. 1 - (1 - game[g].side_to_move) = game[g].side_to_move
    BY <1>1
  <2>. QED
    BY <2>2, <2>3 DEF ResultOf, ReasonOf, Wins
<1>6. CASE Flagged(g)
  <2>1. /\ game'[g].status = "Finished" /\ game'[g].end_reason = "Timeout"
        /\ game'[g].result = Wins(1 - game[g].side_to_move)
        /\ game'[g].side_to_move = game[g].side_to_move
    BY <1>1, <1>6 DEF Flagged, FinalizeGame, Account
  <2>. QED
    BY <2>1 DEF Wins
<1>7. CASE Resigned(g) \/ Agreed(g)
  <2>1. \/ /\ game'[g].status = "Finished" /\ game'[g].end_reason = "Resignation"
           /\ \E c \in Colors : game'[g].result = Wins(c)
        \/ /\ game'[g].status = "Finished" /\ game'[g].end_reason = "DrawAgreed"
           /\ game'[g].result = "Draw"
    BY <1>1, <1>7 DEF Resigned, Agreed, FinalizeGame, Account
  <2>. QED
    BY <2>1 DEF Wins
<1>8. CASE Created(g) \/ Closed(g)
  BY <1>8, FreshAccount
<1>9. CASE game'[g] = game[g] \/ Joined(g) \/ Offered(g) \/ Watched(g)
  <2>1. /\ game'[g].status = "Finished" <=> game[g].status = "Finished"
        /\ game'[g].result = game[g].result
        /\ game'[g].end_reason = game[g].end_reason
        /\ game'[g].side_to_move = game[g].side_to_move
    BY <1>1, <1>9 DEF Joined, Offered, Watched, Active, Account
  <2>. QED
    BY <1>2, <2>1
<1>. QED
  BY <1>3, <1>4, <1>5, <1>6, <1>7, <1>8, <1>9 DEF AccountStep

\* Every change of an account clears the offer, keeps it in a running game, or
\* makes one in a running game.
LEMMA OfferStep == TypeOK /\ OfferIsLive /\ [Next]_vars => OfferIsLive'
<1>. SUFFICES ASSUME TypeOK, OfferIsLive, [Next]_vars, NEW g \in GameIds,
                     game'[g].draw_offer # Nobody
              PROVE  /\ game'[g].status = "Active"
                     /\ IsPlayer(game'[g], game'[g].draw_offer)
  BY DEF OfferIsLive, Active
<1>1. game[g] \in Account
  BY DEF TypeOK
<1>2. game[g].draw_offer # Nobody =>
        game[g].status = "Active" /\ IsPlayer(game[g], game[g].draw_offer)
  BY DEF OfferIsLive, Active
<1>3. AccountStep(g)
  BY AccountSteps
<1>4. CASE MovedOn(g) \/ MovedLast(g) \/ Flagged(g) \/ Resigned(g) \/ Agreed(g)
  BY <1>1, <1>4 DEF MovedOn, MovedLast, Flagged, Resigned, Agreed, Played,
                    FinalizeGame, Account
<1>5. CASE Created(g) \/ Closed(g)
  BY <1>5, FreshAccount
<1>6. CASE Joined(g)
  <2>1. game'[g].draw_offer = game[g].draw_offer /\ game[g].status # "Active"
    BY <1>1, <1>6 DEF Joined, Account
  <2>. QED
    BY <1>2, <2>1
<1>7. CASE game'[g] = game[g] \/ Watched(g)
  <2>1. /\ game'[g].draw_offer = game[g].draw_offer
        /\ game'[g].status = game[g].status /\ game'[g].player = game[g].player
    BY <1>1, <1>7 DEF Watched, Account
  <2>. QED
    BY <1>2, <2>1 DEF IsPlayer
<1>8. CASE Offered(g)
  <2>1. PICK w \in Wallets : /\ IsPlayer(game[g], w)
                             /\ game'[g] = [game[g] EXCEPT !.draw_offer = w]
    BY <1>8 DEF Offered
  <2>2. /\ game'[g].status = game[g].status /\ game'[g].player = game[g].player
        /\ game'[g].draw_offer = w
    BY <1>1, <2>1 DEF Account
  <2>. QED
    BY <1>8, <2>1, <2>2 DEF Offered, Active, IsPlayer
<1>. QED
  BY <1>3, <1>4, <1>5, <1>6, <1>7, <1>8 DEF AccountStep

\* What a move does to the clocks: the mover had time left, pays what it used
\* and gains the increment; the opponent's clock is not touched.
LEMMA MoveClocks ==
  ASSUME now \in Times, NEW G \in Account, ~FlagFallen(G), Timed(G)
  PROVE  LET c == G.side_to_move d == 1 - c H == Played(G) IN
         /\ ElapsedMs(G) < G.clock_ms[c]
         /\ H.clock_ms[c] = G.clock_ms[c] - ElapsedMs(G) + G.time_control.increment_ms
         /\ H.clock_ms[d] = G.clock_ms[d]
         /\ H.time_control = G.time_control /\ H.plies = G.plies + 1
         /\ H.last_move_ts = now /\ H.side_to_move = d
         /\ c \in Colors /\ d \in Colors /\ c # d
<1>. DEFINE c == G.side_to_move
<1>1. /\ ElapsedMs(G) \in Nat /\ c \in Colors /\ G.clock_ms \in [Colors -> Nat]
      /\ G.time_control.increment_ms \in Nat
  BY ElapsedType, TimeAssumption DEF Account
<1>2. ElapsedMs(G) < G.clock_ms[c]
  BY <1>1 DEF FlagFallen
<1>3. ClockAfterMove(G) = G.clock_ms[c] - ElapsedMs(G) + G.time_control.increment_ms
  BY <1>1, <1>2 DEF ClockAfterMove
<1>4. /\ Played(G).clock_ms = [G.clock_ms EXCEPT ![c] = ClockAfterMove(G)]
      /\ Played(G).time_control = G.time_control /\ Played(G).plies = G.plies + 1
      /\ Played(G).last_move_ts = now /\ Played(G).side_to_move = 1 - c
  BY DEF Played, Account
<1>. QED
  BY <1>1, <1>2, <1>3, <1>4

\* A clock reaches zero only in the transaction that loses the game on time.
LEMMA ZeroClockStep ==
  TypeOK /\ ZeroClockMeansTimeout /\ [Next]_vars => ZeroClockMeansTimeout'
<1>. DEFINE Zero(G, c) == /\ G.status = "Finished" /\ G.end_reason = "Timeout"
                          /\ c = G.side_to_move
            Right(G) == G.status # "NoAccount" /\ Timed(G) =>
                          \A c \in Colors : G.clock_ms[c] = 0 <=> Zero(G, c)
<1>. SUFFICES ASSUME TypeOK, ZeroClockMeansTimeout, [Next]_vars, NEW g \in GameIds
              PROVE  Right(game'[g])
  BY DEF ZeroClockMeansTimeout, Exists
<1>1. /\ game[g] \in Account /\ game[g].side_to_move \in Colors /\ now \in Times
      /\ game[g].clock_ms \in [Colors -> Nat]
      /\ game[g].time_control.increment_ms \in Nat
  BY TimeAssumption DEF TypeOK, Account
<1>2. Right(game[g])
  BY DEF ZeroClockMeansTimeout, Exists
<1>3. AccountStep(g)
  BY AccountSteps
<1>4. CASE Created(g)
  <2>1. PICK tc \in TimeControls, w \in Wagers : game'[g] = NewGame(g[1], tc, w)
    BY <1>4 DEF Created
  <2>2. /\ game'[g].status = "WaitingForOpponent" /\ game'[g].time_control = tc
        /\ \A c \in Colors : game'[g].clock_ms[c] = tc.initial_ms
    BY <2>1 DEF NewGame
  <2>3. tc.initial_ms \in Nat
    BY TimeAssumption
  <2>. QED
    BY <2>2, <2>3 DEF Timed
<1>5. CASE Closed(g)
  BY <1>5 DEF Closed, NoGame
<1>6. CASE Joined(g)
  <2>1. /\ game'[g].status = "Active" /\ game[g].status = "WaitingForOpponent"
        /\ game'[g].clock_ms = game[g].clock_ms
        /\ game'[g].time_control = game[g].time_control
    BY <1>1, <1>6 DEF Joined, Account
  <2>. QED
    BY <1>2, <2>1 DEF Timed
<1>7. CASE MovedOn(g) \/ MovedLast(g)
  <2>1. /\ game'[g].clock_ms = Played(game[g]).clock_ms
        /\ game'[g].time_control = game[g].time_control
        /\ game'[g].status = "Active" \/ game'[g].end_reason # "Timeout"
        /\ game[g].status = "Active"
    <3>1. CASE MovedOn(g)
      BY <1>1, <3>1 DEF MovedOn, Played, Active, Account
    <3>2. CASE MovedLast(g)
      BY <1>1, <3>2 DEF MovedLast, Played, FinalizeGame, ReasonOf, Active, Account
    <3>. QED
      BY <1>7, <3>1, <3>2
  <2>2. ~FlagFallen(game[g])
    BY <1>7 DEF MovedOn, MovedLast
  <2>3. ASSUME Timed(game[g]) PROVE \A c \in Colors : game'[g].clock_ms[c] # 0
    <3>1. \A c \in Colors : game[g].clock_ms[c] # 0
      BY <1>2, <2>1, <2>3
    <3>2. ElapsedMs(game[g]) \in Nat
      BY <1>1, ElapsedType
    <3>. QED
      BY <1>1, <2>1, <2>2, <2>3, <3>1, <3>2, MoveClocks
  <2>. QED
    BY <2>1, <2>3 DEF Timed
<1>8. CASE Flagged(g)
  <2>. DEFINE s == game[g].side_to_move
  <2>1. /\ game'[g].status = "Finished" /\ game'[g].end_reason = "Timeout"
        /\ game'[g].side_to_move = s /\ game[g].status = "Active"
        /\ game'[g].time_control = game[g].time_control
        /\ game'[g].clock_ms = [game[g].clock_ms EXCEPT ![s] = 0]
    BY <1>1, <1>8 DEF Flagged, FinalizeGame, Active, Account
  <2>. QED
    BY <1>1, <1>2, <2>1 DEF Timed
<1>9. CASE Resigned(g) \/ Agreed(g)
  <2>1. /\ game'[g].status = "Finished" /\ game'[g].end_reason # "Timeout"
        /\ game[g].status = "Active"
        /\ game'[g].time_control = game[g].time_control
        /\ game'[g].clock_ms = game[g].clock_ms
    BY <1>1, <1>9 DEF Resigned, Agreed, FinalizeGame, Active, Account
  <2>. QED
    BY <1>2, <2>1 DEF Timed
<1>10. CASE game'[g] = game[g] \/ Offered(g) \/ Watched(g)
  <2>1. /\ game'[g].status = game[g].status
        /\ game'[g].end_reason = game[g].end_reason
        /\ game'[g].side_to_move = game[g].side_to_move
        /\ game'[g].time_control = game[g].time_control
        /\ game'[g].clock_ms = game[g].clock_ms
    BY <1>1, <1>10 DEF Offered, Watched, Account
  <2>. QED
    BY <1>2, <2>1 DEF Timed
<1>. QED
  BY <1>3, <1>4, <1>5, <1>6, <1>7, <1>8, <1>9, <1>10 DEF AccountStep

\* No instruction moves the cluster clock.
LEMMA ClockStep == [Next]_vars => Tick \/ now' = now
<1>1. ASSUME NEW g \in GameIds, GameStep(g) PROVE now' = now
  <2>1. ASSUME NEW w \in Wallets, JoinGame(g, w) PROVE now' = now
    BY <2>1 DEF JoinGame
  <2>2. ASSUME NEW w \in Wallets, NEW nonce \in 0..MAX_MOVE_HISTORY, MakeMove(g, w, nonce)
        PROVE  now' = now
    BY <2>2 DEF MakeMove, RecordMove
  <2>3. ASSUME NEW w \in Wallets, ResignGame(g, w) PROVE now' = now
    BY <2>3 DEF ResignGame
  <2>4. ASSUME NEW w \in Wallets, OfferDraw(g, w) PROVE now' = now
    BY <2>4 DEF OfferDraw
  <2>5. ASSUME NEW w \in Wallets, AcceptDraw(g, w) PROVE now' = now
    BY <2>5 DEF AcceptDraw
  <2>6. ASSUME NEW w \in Wallets, CloseGame(g, w) PROVE now' = now
    BY <2>6 DEF CloseGame
  <2>7. ASSUME NEW w \in Wallets, NEW amount \in Deposits, Deposit(w, g, amount)
        PROVE  now' = now
    BY <2>7 DEF Deposit
  <2>8. CASE SyncClock(g)
    BY <2>8 DEF SyncClock
  <2>9. ASSUME NEW kind \in ReactionKinds, NEW register \in BOOLEAN,
               RecordReaction(g, kind, register)
        PROVE  now' = now
    BY <2>9 DEF RecordReaction
  <2>. QED
    BY <1>1, <2>1, <2>2, <2>3, <2>4, <2>5, <2>6, <2>7, <2>8, <2>9 DEF GameStep
<1>2. ASSUME NEW creator \in Creators, NEW sid \in SessionIds,
             NEW tc \in TimeControls, NEW w \in Wagers, CreateGame(creator, sid, tc, w)
      PROVE  now' = now
  BY <1>2 DEF CreateGame
<1>. QED
  BY <1>1, <1>2 DEF Next, vars

\* On a monotone cluster clock no account carries a time stamp of the future.
NoFutureStamp == MaxSkew = 0 => \A g \in GameIds : game[g].last_move_ts =< now

\* Time stamps are copies of the clock, and the clock does not fall.
LEMMA StampStep == TypeOK /\ NoFutureStamp /\ [Next]_vars => NoFutureStamp'
<1>. SUFFICES ASSUME TypeOK, NoFutureStamp, [Next]_vars, MaxSkew = 0,
                     NEW g \in GameIds
              PROVE  game'[g].last_move_ts =< now'
  BY DEF NoFutureStamp
<1>1. /\ game[g] \in Account /\ now \in Int /\ game[g].last_move_ts \in Int
      /\ game[g].last_move_ts =< now /\ now >= 0
  BY TimeAssumption DEF TypeOK, Account, NoFutureStamp
<1>2. CASE Tick
  BY <1>1, <1>2, TimeAssumption DEF Tick
<1>3. CASE now' = now
  <2>1. AccountStep(g)
    BY AccountSteps
  <2>2. CASE Created(g)
    <3>1. PICK tc \in TimeControls, w \in Wagers : game'[g] = NewGame(g[1], tc, w)
      BY <2>2 DEF Created
    <3>. QED
      BY <1>1, <1>3, <3>1 DEF NewGame
  <2>3. CASE Closed(g)
    BY <1>1, <1>3, <2>3 DEF Closed, NoGame
  <2>4. CASE Joined(g) \/ MovedOn(g) \/ MovedLast(g)
    <3>1. CASE Joined(g)
      BY <1>1, <1>3, <3>1 DEF Joined, Account
    <3>2. CASE MovedOn(g)
      BY <1>1, <1>3, <3>2 DEF MovedOn, Played, Account
    <3>3. CASE MovedLast(g)
      <4>1. game'[g].last_move_ts = now
        BY <1>1, <3>3 DEF MovedLast, Played, FinalizeGame, Account
      <4>. QED
        BY <1>1, <1>3, <4>1
    <3>. QED
      BY <2>4, <3>1, <3>2, <3>3
  <2>5. CASE \/ game'[g] = game[g] \/ Flagged(g) \/ Resigned(g) \/ Agreed(g)
             \/ Offered(g) \/ Watched(g)
    BY <1>1, <1>3, <2>5 DEF Flagged, Resigned, Agreed, Offered, Watched,
                            FinalizeGame, Account
  <2>. QED
    BY <2>1, <2>2, <2>3, <2>4, <2>5 DEF AccountStep
<1>4. Tick \/ now' = now
  BY ClockStep
<1>. QED
  BY <1>2, <1>3, <1>4

\* Both clocks of a game that waits show the initial time, and no ply is played.
WaitingIsFresh ==
  \A g \in GameIds : game[g].status = "WaitingForOpponent" =>
    /\ game[g].plies = 0
    /\ \A c \in Colors : game[g].clock_ms[c] = game[g].time_control.initial_ms

\* Only create_game and record_reaction leave a game waiting.
LEMMA WaitingStep == TypeOK /\ WaitingIsFresh /\ [Next]_vars => WaitingIsFresh'
<1>. SUFFICES ASSUME TypeOK, WaitingIsFresh, [Next]_vars, NEW g \in GameIds,
                     game'[g].status = "WaitingForOpponent"
              PROVE  /\ game'[g].plies = 0
                     /\ \A c \in Colors :
                          game'[g].clock_ms[c] = game'[g].time_control.initial_ms
  BY DEF WaitingIsFresh
<1>1. game[g] \in Account /\ AccountStep(g)
  BY AccountSteps DEF TypeOK
<1>2. CASE Created(g)
  <2>1. PICK tc \in TimeControls, w \in Wagers : game'[g] = NewGame(g[1], tc, w)
    BY <1>2 DEF Created
  <2>. QED
    BY <2>1 DEF NewGame
<1>3. CASE game'[g] = game[g] \/ Watched(g)
  <2>1. /\ game'[g].status = game[g].status /\ game'[g].plies = game[g].plies
        /\ game'[g].clock_ms = game[g].clock_ms
        /\ game'[g].time_control = game[g].time_control
    BY <1>1, <1>3 DEF Watched, Account
  <2>. QED
    BY <2>1 DEF WaitingIsFresh
<1>4. CASE Joined(g) \/ Closed(g)
  <2>1. game'[g].status \in {"Active", "NoAccount"}
    <3>1. CASE Joined(g)
      BY <1>1, <3>1 DEF Joined, Account
    <3>2. CASE Closed(g)
      BY <3>2 DEF Closed, NoGame
    <3>. QED
      BY <1>4, <3>1, <3>2
  <2>. QED
    BY <2>1
<1>5. CASE MovedOn(g) \/ MovedLast(g) \/ Flagged(g) \/ Resigned(g) \/ Agreed(g) \/ Offered(g)
  <2>1. game'[g].status \in {"Active", "Finished"}
    BY <1>1, <1>5 DEF MovedOn, MovedLast, Flagged, Resigned, Agreed, Offered, Active,
                      Played, FinalizeGame, Account
  <2>. QED
    BY <2>1
<1>. QED
  BY <1>1, <1>2, <1>3, <1>4, <1>5 DEF AccountStep

\* A ply is a move of one colour: its count goes up, the other's does not.
LEMMA MovesCounted ==
  ASSUME NEW n \in Nat, NEW c \in Colors
  PROVE  /\ (n + 1 - c) \div 2 \in Nat
         /\ (n + 1 + 1 - c) \div 2 = (n + 1 - c) \div 2 + (IF c = n % 2 THEN 1 ELSE 0)
<1>1. CASE c = 0
  BY <1>1
<1>2. CASE c = 1
  BY <1>2
<1>. QED
  BY <1>1, <1>2

\* Time that passes on both sides of a difference.
LEMMA TurnGoesOn ==
  ASSUME NEW u \in Int, NEW n \in Int, NEW m \in Int, NEW l \in Int
  PROVE  (u + (m - n)) - (m - l) = u - (n - l)
OBVIOUS

\* Each player pays for its own time: a tick of the clock is time used by the side
\* to move, and a move takes from the mover's clock what its turn has lasted.
LEMMA TimeStep ==
  TypeOK /\ NoFutureStamp /\ WaitingIsFresh /\ NonceNamesPly /\ TimeConserved /\ [Next]_vars
    => TimeConserved'
<1>. DEFINE Charged(G, u, t, c) ==
       LET turn == IF c = G.side_to_move THEN t - G.last_move_ts ELSE 0
           charged == (u[c] - turn) * 1000
           budget == G.time_control.initial_ms + MovesOf(G, c) * G.time_control.increment_ms
       IN /\ G.clock_ms[c] =< budget - charged
          /\ MaxSkew = 0 => G.clock_ms[c] = budget - charged
<1>. SUFFICES ASSUME TypeOK, NoFutureStamp, WaitingIsFresh, NonceNamesPly, TimeConserved,
                     [Next]_vars, NEW g \in GameIds, NEW c \in Colors,
                     game'[g].status = "Active", Timed(game'[g])
              PROVE  Charged(game'[g], used'[g], now', c)
  BY DEF TimeConserved, Active
<1>. DEFINE G == game[g]
            inc == G.time_control.increment_ms
            moves == MovesOf(G, c)
<1>1. /\ G \in Account /\ G.side_to_move \in Colors
      /\ G.clock_ms \in [Colors -> Nat] /\ G.plies \in Nat
      /\ G.time_control \in TimeControls
      /\ G.last_move_ts \in Int /\ now \in Int /\ now \in Times
      /\ used[g] \in [Colors -> Int] /\ G.side_to_move = G.plies % 2
  <2>1. G \in Account /\ now \in Times /\ used[g] \in [Colors -> Int]
    BY DEF TypeOK
  <2>2. Times \subseteq Int /\ G.side_to_move = G.plies % 2
    BY TimeAssumption DEF NonceNamesPly
  <2>. HIDE DEF G
  <2>. QED
    BY <2>1, <2>2, WidthAssumption DEF Account
<1>2. inc \in Nat /\ G.time_control.initial_ms \in Nat
  BY <1>1, TimeAssumption
<1>3. moves \in Nat /\ moves * inc \in Nat
  <2>1. moves \in Nat
    BY <1>1, MovesCounted DEF MovesOf
  <2>2. \A m, i \in Nat : m * i \in Nat
    OBVIOUS
  <2>. HIDE DEF moves, inc
  <2>. QED
    BY <1>2, <2>1, <2>2
<1>4. G.status = "Active" /\ Timed(G) => Charged(G, used[g], now, c)
  BY DEF TimeConserved, Active
<1>5. AccountStep(g) /\ UsedStep(g)
  BY AccountSteps
<1>6. CASE Joined(g)
  <2>1. /\ G.status = "WaitingForOpponent" /\ used'[g][c] = 0 /\ now' = now
        /\ game'[g].last_move_ts = now /\ game'[g].clock_ms = G.clock_ms
        /\ game'[g].time_control = G.time_control /\ game'[g].plies = G.plies
    BY <1>1, <1>6 DEF Joined, Account, NoTime
  <2>2. G.plies = 0 /\ G.clock_ms[c] = G.time_control.initial_ms
    BY <2>1 DEF WaitingIsFresh
  <2>3. MovesOf(game'[g], c) = 0
    BY <2>1, <2>2 DEF MovesOf
  <2>4. MovesOf(game'[g], c) * inc = 0
    BY <1>2, <2>3
  <2>. QED
    BY <1>1, <1>2, <2>1, <2>2, <2>4
<1>7. CASE MovedOn(g)
  <2>1. /\ game'[g] = Played(G) /\ G.status = "Active" /\ ~FlagFallen(G)
    BY <1>7 DEF MovedOn, Active
  <2>. DEFINE H == game'[g]
              e == ElapsedMs(G)
              gap == (now - G.last_move_ts) * 1000
              mover == G.side_to_move
  <2>2. Timed(G)
    BY <1>1, <2>1 DEF Played, Timed, Account
  <2>3. /\ e \in Nat /\ gap \in Int /\ gap =< e
        /\ MaxSkew = 0 => e = gap
    BY <1>1, ElapsedType DEF ElapsedMs, NoFutureStamp
  <2>4. /\ H.clock_ms[mover] = G.clock_ms[mover] - e + inc
        /\ H.clock_ms[1 - mover] = G.clock_ms[1 - mover]
        /\ H.time_control = G.time_control
        /\ H.plies = G.plies + 1 /\ H.last_move_ts = now
    BY <1>1, <2>1, <2>2, MoveClocks
  <2>5. H.side_to_move = 1 - mover
    BY <1>1, <2>1 DEF Played, Account
  <2>6. used'[g] = used[g] /\ now' = now
    <3>1. ~Joined(g) /\ ~Closed(g)
      BY <2>1 DEF Joined, Closed
    <3>2. ~Tick
      BY <1>1, <2>4 DEF Tick
    <3>. QED
      BY <1>5, <3>1, <3>2 DEF UsedStep
  <2>7. MovesOf(H, c) = moves + (IF c = mover THEN 1 ELSE 0)
    BY <1>1, <2>4, MovesCounted DEF MovesOf
  <2>8. Charged(G, used[g], now, c)
    BY <1>4, <2>1, <2>2
  <2>9. CASE c = mover
    <3>. DEFINE spent == used[g][c] * 1000
                budget == G.time_control.initial_ms + moves * inc
                shown == G.clock_ms[c]
    <3>1. /\ spent \in Int /\ budget \in Int /\ shown \in Int
          /\ shown =< budget - (spent - gap)
          /\ MaxSkew = 0 => shown = budget - (spent - gap)
      BY <1>1, <1>2, <1>3, <2>8, <2>9
    <3>2. MovesOf(H, c) * inc = moves * inc + inc
      <4>1. \A m, i \in Nat : (m + 1) * i = m * i + i
        OBVIOUS
      <4>2. MovesOf(H, c) = moves + 1
        BY <2>7, <2>9
      <4>. HIDE DEF moves, inc, H
      <4>. QED
        BY <1>2, <1>3, <4>1, <4>2
    <3>3. /\ H.clock_ms[c] = shown - e + inc
          /\ H.time_control.initial_ms + MovesOf(H, c) * H.time_control.increment_ms
               = budget + inc
          /\ (used'[g][c] - (IF c = H.side_to_move THEN now' - H.last_move_ts ELSE 0)) * 1000
               = spent
      BY <1>1, <1>2, <1>3, <2>4, <2>5, <2>6, <2>9, <3>2
    <3>4. /\ shown - e + inc =< (budget + inc) - spent
          /\ MaxSkew = 0 => shown - e + inc = (budget + inc) - spent
      <4>. HIDE DEF budget, spent, shown, gap, e, inc
      <4>. QED
        BY <1>2, <2>3, <3>1
    <3>. HIDE DEF budget, spent, shown, gap, e, inc
    <3>. QED
      BY <3>3, <3>4
  <2>10. CASE c = 1 - mover
    <3>1. /\ H.clock_ms[c] = G.clock_ms[c] /\ H.time_control = G.time_control
          /\ MovesOf(H, c) = moves /\ c # mover
          /\ now' - H.last_move_ts = 0 /\ used'[g][c] = used[g][c]
      BY <1>1, <1>3, <2>4, <2>6, <2>7, <2>10
    <3>2. (IF c = H.side_to_move THEN now' - H.last_move_ts ELSE 0)
            = (IF c = mover THEN now - G.last_move_ts ELSE 0)
      BY <3>1
    <3>. QED
      BY <2>8, <3>1, <3>2
  <2>. QED
    BY <1>1, <2>9, <2>10
<1>8. CASE game'[g] = game[g] \/ Offered(g) \/ Watched(g)
  <2>1. /\ game'[g].status = G.status /\ game'[g].clock_ms = G.clock_ms
        /\ game'[g].last_move_ts = G.last_move_ts /\ game'[g].side_to_move = G.side_to_move
        /\ game'[g].time_control = G.time_control /\ game'[g].plies = G.plies
    BY <1>1, <1>8 DEF Offered, Watched, Account
  <2>2. Charged(G, used[g], now, c) /\ Active(g) /\ Timed(G)
    BY <1>4, <2>1 DEF Timed, Active
  <2>3. CASE used'[g] = used[g] /\ now' = now
    BY <2>1, <2>2, <2>3 DEF MovesOf
  <2>4. CASE Tick
    <3>1. /\ used'[g] = [used[g] EXCEPT ![G.side_to_move] = @ + (now' - now)]
          /\ now' \in Int
      BY <2>2, <2>4, TimeAssumption DEF Tick
    <3>2. CASE c = G.side_to_move
      <4>1. used'[g][c] = used[g][c] + (now' - now)
        BY <1>1, <3>1, <3>2
      <4>2. used'[g][c] - (now' - G.last_move_ts) = used[g][c] - (now - G.last_move_ts)
        <5>1. used[g][c] \in Int /\ now' \in Int /\ now \in Int /\ G.last_move_ts \in Int
          BY <1>1, <3>1
        <5>2. used[g][c] \in Int BY <5>1
        <5>3. now' \in Int BY <5>1
        <5>4. now \in Int BY <5>1
        <5>5. G.last_move_ts \in Int BY <5>1
        <5>6. \A n, m, l \in Int :  (used[g][c] + (m - n)) - (m - l) = used[g][c] - (n - l)
          BY <5>2, TurnGoesOn
        <5>7. \A m, l \in Int :  (used[g][c] + (m - now)) - (m - l) = used[g][c] - (now - l)
          BY <5>4, <5>6, Zenon
        <5>8. \A l \in Int :  (used[g][c] + (now' - now)) - (now' - l) = used[g][c] - (now - l)
          BY <5>3, <5>7, Zenon
        <5>. QED
          BY <4>1, <5>5, <5>8
      <4>. QED
        BY <2>1, <2>2, <3>2, <4>2 DEF MovesOf
    <3>3. CASE c # G.side_to_move
      <4>1. used'[g][c] = used[g][c]
        BY <1>1, <3>1, <3>3
      <4>. QED
        BY <2>1, <2>2, <3>3, <4>1 DEF MovesOf
    <3>. QED
      BY <3>2, <3>3
  <2>5. ~Joined(g) /\ ~Closed(g)
    BY <1>1, <2>1, <2>2 DEF Joined, Closed, Active
  <2>. QED
    BY <1>5, <2>3, <2>4, <2>5 DEF UsedStep
<1>9. CASE \/ Created(g) \/ Closed(g) \/ MovedLast(g) \/ Flagged(g)
           \/ Resigned(g) \/ Agreed(g)
  <2>1. game'[g].status # "Active"
    BY <1>1, <1>9, FreshAccount DEF MovedLast, Flagged, Resigned, Agreed,
                                    FinalizeGame, Played, Account
  <2>. QED
    BY <2>1
<1>. QED
  BY <1>5, <1>6, <1>7, <1>8, <1>9 DEF AccountStep

-----------------------------------------------------------------------------
(* Money.                                                                  *)

\* The vault of a running game holds the pot, and the pot fits in a u64: the
\* saturating product and the cap of settle_wager never bite.
LEMMA PotIsPaid ==
  ASSUME TypeOK, VaultExact, NEW g \in GameIds, Active(g), NEW G \in Account,
         G.wager_per_side = game[g].wager_per_side
  PROVE  Payout(g, G) = 2 * G.wager_per_side
<1>1. game[g] \in Account /\ vault[g] \in 0..U64_MAX /\ stray[g] \in Nat
  BY DEF TypeOK
<1>2. vault[g] = 2 * G.wager_per_side + stray[g]
  BY DEF VaultExact, Escrow, Active
<1>3. G.wager_per_side \in Nat
  BY DEF Account
<1>. QED
  BY <1>1, <1>2, <1>3, WidthAssumption DEF Payout

\* A transaction that leaves vaults and strays alone, and of the accounts at
\* most changes one without changing what it has in escrow.
LEMMA EscrowKept ==
  ASSUME TypeOK, VaultExact, NEW g \in GameIds, NEW H,
         game' = [game EXCEPT ![g] = H], Escrow(H) = Escrow(game[g]),
         vault' = vault, stray' = stray
  PROVE  VaultExact'
<1>. SUFFICES ASSUME NEW h \in GameIds
              PROVE  vault'[h] = Escrow(game'[h]) + stray'[h]
  BY DEF VaultExact, Escrow
<1>1. game \in [GameIds -> Account] /\ vault[h] = Escrow(game[h]) + stray[h]
  BY DEF TypeOK, VaultExact
<1>2. CASE h = g
  BY <1>1, <1>2
<1>3. CASE h # g
  BY <1>1, <1>3
<1>. QED
  BY <1>2, <1>3

\* Whatever ends a game takes exactly its two stakes out of the vault.
LEMMA EscrowPaid ==
  ASSUME TypeOK, VaultExact, NEW g \in GameIds, Active(g), NEW G \in Account,
         G.wager_per_side = game[g].wager_per_side,
         NEW result, NEW reason, EndGame(g, G, result, reason), stray' = stray
  PROVE  VaultExact'
<1>. SUFFICES ASSUME NEW h \in GameIds
              PROVE  vault'[h] = Escrow(game'[h]) + stray'[h]
  BY DEF VaultExact, Escrow
<1>1. /\ game \in [GameIds -> Account] /\ vault \in [GameIds -> 0..U64_MAX]
      /\ stray[g] \in Nat /\ vault[h] = Escrow(game[h]) + stray[h]
  BY DEF TypeOK, VaultExact
<1>2. CASE h = g
  <2>1. game'[g].status = "Finished"
    BY <1>1 DEF EndGame, FinalizeGame, Account
  <2>2. vault'[g] = vault[g] - 2 * G.wager_per_side
    BY <1>1, PotIsPaid DEF EndGame, SettleWager
  <2>3. vault[g] = 2 * G.wager_per_side + stray[g]
    BY <1>1, <1>2 DEF Escrow, Active
  <2>4. G.wager_per_side \in Nat
    BY DEF Account
  <2>. QED
    BY <1>1, <1>2, <2>1, <2>2, <2>3, <2>4 DEF Escrow
<1>3. CASE h # g
  BY <1>1, <1>3 DEF EndGame, SettleWager
<1>. QED
  BY <1>2, <1>3

\* A transfer into a vault comes with as much escrow or as much stray.
LEMMA EscrowFilled ==
  ASSUME TypeOK, VaultExact, NEW g \in GameIds, NEW from, NEW amount \in Nat, NEW rent,
         Stake(from, g, amount, rent),
         \A h \in GameIds : h # g => game'[h] = game[h] /\ stray'[h] = stray[h],
         Escrow(game[g]) \in Nat, stray'[g] \in Nat, Escrow(game'[g]) \in Nat,
         Escrow(game'[g]) + stray'[g] = Escrow(game[g]) + stray[g] + amount
  PROVE  VaultExact'
<1>. SUFFICES ASSUME NEW h \in GameIds
              PROVE  vault'[h] = Escrow(game'[h]) + stray'[h]
  BY DEF VaultExact, Escrow
<1>1. vault \in [GameIds -> 0..U64_MAX] /\ vault[h] = Escrow(game[h]) + stray[h]
  BY DEF TypeOK, VaultExact
<1>2. CASE h = g
  BY <1>1, <1>2 DEF Stake
<1>3. CASE h # g
  BY <1>1, <1>3 DEF Stake
<1>. QED
  BY <1>2, <1>3

\* A flag that falls is paid like any other end.
LEMMA EscrowFlagged ==
  ASSUME TypeOK, VaultExact, NEW g \in GameIds, Active(g), LoseOnTime(g), stray' = stray
  PROVE  VaultExact'
<1>. DEFINE c == game[g].side_to_move
            G == [game[g] EXCEPT !.clock_ms[c] = 0]
<1>1. game[g] \in Account /\ [game[g].clock_ms EXCEPT ![c] = 0] \in [Colors -> Nat]
  BY DEF TypeOK, Account
<1>2. G \in Account /\ G.wager_per_side = game[g].wager_per_side
  BY <1>1 DEF Account
<1>3. EndGame(g, G, Wins(1 - c), "Timeout")
  BY DEF LoseOnTime
<1>. HIDE DEF G, c
<1>. QED
  BY <1>2, <1>3, EscrowPaid

\* No transaction lets a vault and the stakes of its game drift apart.
LEMMA MoneyStep == TypeOK /\ VaultExact /\ [Next]_vars => VaultExact'
<1>. SUFFICES ASSUME TypeOK, VaultExact, [Next]_vars PROVE VaultExact'
  OBVIOUS
<1>1. ASSUME NEW creator \in Creators, NEW sid \in SessionIds,
             NEW tc \in TimeControls, NEW w \in Wagers, CreateGame(creator, sid, tc, w)
      PROVE  VaultExact'
  <2>. DEFINE g == <<creator, sid>>
  <2>1. g \in GameIds /\ w \in Nat /\ stray[g] \in Nat /\ stray' = stray
    BY <1>1, MoneyAssumption DEF TypeOK, CreateGame
  <2>2. Escrow(game[g]) = 0
    BY <1>1 DEF CreateGame, Exists, Escrow
  <2>3. game' = [game EXCEPT ![g] = NewGame(creator, tc, w)]
    BY <1>1 DEF CreateGame
  <2>4. Escrow(game'[g]) = w /\ \A h \in GameIds : h # g => game'[h] = game[h]
    <3>. HIDE DEF g
    <3>1. game'[g] = NewGame(creator, tc, w) /\ \A h \in GameIds : h # g => game'[h] = game[h]
      BY <2>1, <2>3 DEF TypeOK
    <3>. QED
      BY <3>1 DEF Escrow, NewGame
  <2>5. Stake(creator, g, w, GameRent + StreamRent)
    BY <1>1 DEF CreateGame
  <2>. HIDE DEF g
  <2>. QED
    BY <2>1, <2>2, <2>4, <2>5, EscrowFilled
<1>2. ASSUME NEW g \in GameIds, NEW b \in Wallets, JoinGame(g, b)
      PROVE  VaultExact'
  <2>. DEFINE w == game[g].wager_per_side
  <2>1. /\ game \in [GameIds -> Account] /\ game[g] \in Account /\ w \in Nat
        /\ stray[g] \in Nat /\ stray' = stray
    BY <1>2 DEF TypeOK, Account, JoinGame
  <2>2. game[g].status = "WaitingForOpponent" /\ Stake(b, g, w, 0)
    BY <1>2 DEF JoinGame
  <2>3. game'[g].status = "Active" /\ game'[g].wager_per_side = w
    BY <1>2, <2>1 DEF JoinGame, Account
  <2>4. \A h \in GameIds : h # g => game'[h] = game[h]
    BY <1>2, <2>1 DEF JoinGame
  <2>5. Escrow(game[g]) = w /\ Escrow(game'[g]) = 2 * w
    BY <2>2, <2>3 DEF Escrow
  <2>. HIDE DEF w
  <2>. QED
    BY <2>1, <2>2, <2>4, <2>5, EscrowFilled
<1>3. ASSUME NEW g \in GameIds, NEW w \in Wallets, NEW nonce \in 0..MAX_MOVE_HISTORY,
             MakeMove(g, w, nonce)
      PROVE  VaultExact'
  <2>1. game[g] \in Account /\ Active(g) /\ stray' = stray
    BY <1>3 DEF TypeOK, MakeMove, RecordMove
  <2>2. CASE FlagFallen(game[g])
    BY <1>3, <2>1, <2>2, EscrowFlagged DEF MakeMove, RecordMove
  <2>3. CASE ~FlagFallen(game[g])
    <3>. DEFINE G == Played(game[g])
                c == game[g].side_to_move
    <3>1. /\ G \in Account /\ G.wager_per_side = game[g].wager_per_side
          /\ G.status = game[g].status
      <4>1. game[g].plies < MAX_MOVE_HISTORY
        BY <1>3, <2>3 DEF MakeMove, RecordMove
      <4>2. G \in Account
        BY <2>1, <4>1, PlayedType DEF TypeOK
      <4>3. G.wager_per_side = game[g].wager_per_side /\ G.status = game[g].status
        BY <2>1 DEF Played, Account
      <4>. QED
        BY <4>2, <4>3
    <3>2. PICK o \in MoveOutcome :
            \/ EndGame(g, G, ResultOf(o, c), ReasonOf(o))
            \/ game' = [game EXCEPT ![g] = G] /\ vault' = vault
      BY <1>3, <2>3 DEF MakeMove, RecordMove
    <3>3. Escrow(G) = Escrow(game[g])
      BY <3>1 DEF Escrow
    <3>. HIDE DEF G
    <3>. QED
      BY <2>1, <3>1, <3>2, <3>3, EscrowPaid, EscrowKept
  <2>. QED
    BY <2>2, <2>3
<1>4. ASSUME NEW g \in GameIds, NEW w \in Wallets, ResignGame(g, w) \/ AcceptDraw(g, w)
      PROVE  VaultExact'
  <2>1. game[g] \in Account /\ Active(g) /\ stray' = stray
    BY <1>4 DEF TypeOK, ResignGame, AcceptDraw
  <2>2. \E result, reason : EndGame(g, game[g], result, reason)
    BY <1>4 DEF ResignGame, AcceptDraw
  <2>. QED
    BY <2>1, <2>2, EscrowPaid
<1>5. ASSUME NEW g \in GameIds, NEW w \in Wallets, OfferDraw(g, w)
      PROVE  VaultExact'
  <2>. DEFINE H == [game[g] EXCEPT !.draw_offer = w]
  <2>1. game[g] \in Account /\ game' = [game EXCEPT ![g] = H]
    BY <1>5 DEF TypeOK, OfferDraw
  <2>2. H.status = game[g].status /\ H.wager_per_side = game[g].wager_per_side
    BY <2>1 DEF Account
  <2>3. vault' = vault /\ stray' = stray /\ Escrow(H) = Escrow(game[g])
    BY <1>5, <2>2 DEF OfferDraw, Escrow
  <2>. HIDE DEF H
  <2>. QED
    BY <2>1, <2>3, EscrowKept
<1>6. ASSUME NEW g \in GameIds, NEW w \in Wallets, CloseGame(g, w)
      PROVE  VaultExact'
  <2>. SUFFICES ASSUME NEW h \in GameIds
                PROVE  vault'[h] = Escrow(game'[h]) + stray'[h]
    BY DEF VaultExact, Escrow
  <2>1. CASE h = g
    BY <1>6, <2>1 DEF CloseGame, TypeOK, Escrow, NoGame
  <2>2. CASE h # g
    BY <1>6, <2>2 DEF CloseGame, TypeOK, VaultExact
  <2>. QED
    BY <2>1, <2>2
<1>7. ASSUME NEW g \in GameIds, NEW w \in Wallets, NEW amount \in Deposits,
             Deposit(w, g, amount)
      PROVE  VaultExact'
  <2>1. game[g] \in Account /\ amount \in Nat /\ stray \in [GameIds -> Nat]
    BY MoneyAssumption DEF TypeOK
  <2>2. game' = game /\ stray' = [stray EXCEPT ![g] = @ + amount] /\ Stake(w, g, amount, 0)
    BY <1>7 DEF Deposit
  <2>3. Escrow(game[g]) \in Nat
    BY <2>1 DEF Escrow, Account
  <2>. QED
    BY <2>1, <2>2, <2>3, EscrowFilled
<1>8. ASSUME NEW g \in GameIds, SyncClock(g)
      PROVE  VaultExact'
  <2>1. Active(g) /\ stray' = stray /\ (LoseOnTime(g) \/ (game' = game /\ vault' = vault))
    BY <1>8 DEF SyncClock
  <2>. QED
    BY <2>1, EscrowFlagged DEF VaultExact, Escrow
<1>9. ASSUME NEW g \in GameIds, NEW kind \in ReactionKinds, NEW register \in BOOLEAN,
             RecordReaction(g, kind, register)
      PROVE  VaultExact'
  <2>. DEFINE n == IF register THEN SaturatingAdd(game[g].spectators, U32_MAX)
                   ELSE game[g].spectators
              H == [game[g] EXCEPT !.spectators = n]
  <2>1. game[g] \in Account /\ game' = [game EXCEPT ![g] = H]
    BY <1>9 DEF TypeOK, RecordReaction
  <2>2. H.status = game[g].status /\ H.wager_per_side = game[g].wager_per_side
    BY <2>1 DEF Account
  <2>3. vault' = vault /\ stray' = stray /\ Escrow(H) = Escrow(game[g])
    BY <1>9, <2>2 DEF RecordReaction, Escrow
  <2>. HIDE DEF H
  <2>. QED
    BY <2>1, <2>3, EscrowKept
<1>10. CASE Tick \/ UNCHANGED vars
  BY <1>10 DEF Tick, vars, VaultExact, Escrow
<1>. QED
  BY <1>1, <1>2, <1>3, <1>4, <1>5, <1>6, <1>7, <1>8, <1>9, <1>10 DEF Next, GameStep

-----------------------------------------------------------------------------
(* The invariant of the program, and what follows from it.                 *)

IInv == /\ TypeOK /\ SeatsTaken /\ VaultExact
        /\ NonceNamesPly /\ OutcomeFitsReason /\ OfferIsLive
        /\ ZeroClockMeansTimeout
        /\ NoFutureStamp /\ WaitingIsFresh /\ TimeConserved

\* The program starts in it ...
LEMMA Initially == Init => IInv
<1>. SUFFICES ASSUME Init PROVE IInv
  OBVIOUS
<1>1. /\ 0 \in Times /\ 0 \in 0..U64_MAX /\ 0 \in Nat
      /\ Funds \in [Wallets -> 0..U64_MAX] /\ <<>> \in Seq(EventTypes)
  BY TimeAssumption, WidthAssumption, MoneyAssumption, EventLists
<1>2. TypeOK
  BY <1>1, NoGameType DEF Init, TypeOK, Instructions, NoTime
<1>3. \A g \in GameIds : /\ game[g] = NoGame /\ vault[g] = 0 /\ stray[g] = 0
                         /\ game[g].status = "NoAccount" /\ game[g].last_move_ts = 0
  BY DEF Init, NoGame
<1>4. SeatsTaken /\ ZeroClockMeansTimeout
  BY <1>3 DEF SeatsTaken, ZeroClockMeansTimeout, Exists
<1>5. VaultExact
  BY <1>3 DEF VaultExact, Escrow
<1>6. NonceNamesPly /\ OutcomeFitsReason /\ OfferIsLive
  <2>1. /\ NoGame.move_nonce = 0 /\ NoGame.plies = 0 /\ NoGame.side_to_move = 0
        /\ NoGame.result = "Ongoing" /\ NoGame.end_reason = "None"
        /\ NoGame.draw_offer = Nobody
    BY DEF NoGame
  <2>. QED
    BY <1>3, <2>1 DEF NonceNamesPly, OutcomeFitsReason, OfferIsLive
<1>7. NoFutureStamp /\ WaitingIsFresh /\ TimeConserved
  BY <1>3 DEF Init, NoFutureStamp, WaitingIsFresh, TimeConserved, Active
<1>. QED
  BY <1>2, <1>4, <1>5, <1>6, <1>7 DEF IInv

\* ... and every transaction of any instruction, deposit or tick keeps it.
LEMMA Inductive == IInv /\ [Next]_vars => IInv'
BY TypeStep, SeatsStep, MoneyStep, NonceStep, OutcomeStep, OfferStep,
   ZeroClockStep, StampStep, WaitingStep, TimeStep DEF IInv

\* So the inductive invariant always holds.
THEOREM Invariance == Spec => []IInv
BY Initially, Inductive, PTL DEF Spec

\* Accounts, balances and the log keep the types the program declares.
THEOREM TypeCorrect == Spec => []TypeOK
<1>1. IInv => TypeOK
  BY DEF IInv
<1>. QED
  BY <1>1, Invariance, PTL

\* The two seats are always held by different wallets, white's by the creator.
THEOREM SeatsHeld == Spec => []SeatsTaken
<1>1. IInv => SeatsTaken
  BY DEF IInv
<1>. QED
  BY <1>1, Invariance, PTL

\* Whatever the stakes, deposits and interleaving, a vault holds exactly the
\* stakes of its unfinished game and what strangers sent to it.
THEOREM EscrowSound == Spec => []VaultExact
<1>1. IInv => VaultExact
  BY DEF IInv
<1>. QED
  BY <1>1, Invariance, PTL

\* However long the history may be (up to the u16 the nonce is stored in), a
\* nonce names one ply and one colour.
THEOREM NonceSound == Spec => []NonceNamesPly
<1>1. IInv => NonceNamesPly
  BY DEF IInv
<1>. QED
  BY <1>1, Invariance, PTL

\* A finished game records the result its end reason implies.
THEOREM OutcomeSound == Spec => []OutcomeFitsReason
<1>1. IInv => OutcomeFitsReason
  BY DEF IInv
<1>. QED
  BY <1>1, Invariance, PTL

\* A draw offer is always one a player of a running game made.
THEOREM OfferSound == Spec => []OfferIsLive
<1>1. IInv => OfferIsLive
  BY DEF IInv
<1>. QED
  BY <1>1, Invariance, PTL

\* For every time control and however the cluster clock jumps, a clock at zero
\* belongs to the player who lost on time.
THEOREM ClockSound == Spec => []ZeroClockMeansTimeout
<1>1. IInv => ZeroClockMeansTimeout
  BY DEF IInv
<1>. QED
  BY <1>1, Invariance, PTL

\* For every time control, each clock accounts for the time of its own player.
THEOREM TimeSound == Spec => []TimeConserved
<1>1. IInv => TimeConserved
  BY DEF IInv
<1>. QED
  BY <1>1, Invariance, PTL

-----------------------------------------------------------------------------
(* Action properties.                                                      *)

\* Every transaction moves a match forward only, and what was agreed stands.
THEOREM MatchForward == Spec => ForwardOnly
<1>1. IInv /\ [Next]_vars => [ForwardStep]_vars
  <2>. DEFINE Forward(G, H) ==
         LET step == <<G.status, H.status>> IN
         /\ G.status # H.status => step \in
              {<<"NoAccount", "WaitingForOpponent">>, <<"WaitingForOpponent", "Active">>,
               <<"Active", "Finished">>, <<"WaitingForOpponent", "NoAccount">>,
               <<"Finished", "NoAccount">>}
         /\ <<H.result, H.end_reason>> # <<G.result, G.end_reason>> =>
              step \in {<<"Active", "Finished">>, <<"Finished", "NoAccount">>}
         /\ G.status # "NoAccount" /\ H.status # "NoAccount" =>
              /\ H.wager_per_side = G.wager_per_side /\ H.time_control = G.time_control
              /\ H.player # G.player => step = <<"WaitingForOpponent", "Active">>
  <2>. SUFFICES ASSUME IInv, [Next]_vars, NEW g \in GameIds
                PROVE  Forward(game[g], game'[g])
    BY DEF ForwardStep, Exists
  <2>1. game[g] \in Account /\ AccountStep(g)
    BY AccountSteps DEF IInv, TypeOK
  <2>2. game[g].status # "Finished" => game[g].result = "Ongoing" /\ game[g].end_reason = "None"
    BY DEF IInv, OutcomeFitsReason
  <2>3. CASE Created(g)
    <3>1. /\ game[g].status = "NoAccount" /\ game'[g].status = "WaitingForOpponent"
          /\ game'[g].result = "Ongoing" /\ game'[g].end_reason = "None"
      BY <2>3, FreshAccount DEF Created, Exists, NewGame
    <3>. QED
      BY <2>2, <3>1
  <2>4. CASE Joined(g)
    <3>1. /\ game[g].status = "WaitingForOpponent" /\ game'[g].status = "Active"
          /\ game'[g].result = game[g].result /\ game'[g].end_reason = game[g].end_reason
          /\ game'[g].wager_per_side = game[g].wager_per_side
          /\ game'[g].time_control = game[g].time_control
      BY <2>1, <2>4 DEF Joined, Account
    <3>. QED
      BY <3>1
  <2>5. CASE MovedLast(g) \/ Flagged(g) \/ Resigned(g) \/ Agreed(g)
    <3>1. /\ game[g].status = "Active" /\ game'[g].status = "Finished"
          /\ game'[g].wager_per_side = game[g].wager_per_side
          /\ game'[g].time_control = game[g].time_control
          /\ game'[g].player = game[g].player
      <4>1. CASE MovedLast(g)
        BY <2>1, <4>1 DEF MovedLast, Active, FinalizeGame, Played, Account
      <4>2. CASE Flagged(g)
        BY <2>1, <4>2 DEF Flagged, Active, FinalizeGame, Account
      <4>3. CASE Resigned(g)
        BY <2>1, <4>3 DEF Resigned, Active, FinalizeGame, Account
      <4>4. CASE Agreed(g)
        BY <2>1, <4>4 DEF Agreed, Active, FinalizeGame, Account
      <4>. QED
        BY <2>5, <4>1, <4>2, <4>3, <4>4
    <3>. QED
      BY <3>1
  <2>6. CASE Closed(g)
    <3>1. /\ game[g].status \in {"WaitingForOpponent", "Finished"}
          /\ game'[g].status = "NoAccount"
          /\ game'[g].result = "Ongoing" /\ game'[g].end_reason = "None"
      BY <2>6, FreshAccount DEF Closed, NoGame
    <3>. QED
      BY <2>2, <3>1
  <2>7. CASE game'[g] = game[g] \/ MovedOn(g) \/ Offered(g) \/ Watched(g)
    <3>1. /\ game'[g].status = game[g].status /\ game'[g].result = game[g].result
          /\ game'[g].end_reason = game[g].end_reason
          /\ game'[g].wager_per_side = game[g].wager_per_side
          /\ game'[g].time_control = game[g].time_control
          /\ game'[g].player = game[g].player
      <4>1. CASE game'[g] = game[g]
        BY <4>1
      <4>2. CASE MovedOn(g)
        BY <2>1, <4>2 DEF MovedOn, Played, Account
      <4>3. CASE Offered(g)
        BY <2>1, <4>3 DEF Offered, Account
      <4>4. CASE Watched(g)
        BY <2>1, <4>4 DEF Watched, Account
      <4>. QED
        BY <2>7, <4>1, <4>2, <4>3, <4>4
    <3>. QED
      BY <3>1
  <2>. QED
    BY <2>1, <2>3, <2>4, <2>5, <2>6, <2>7 DEF AccountStep
<1>. QED
  BY <1>1, Invariance, PTL DEF Spec, ForwardOnly

\* Nothing but a close, or another spectator, changes a finished match.
THEOREM MatchFinal == Spec => FinishedIsFinal
<1>1. IInv /\ [Next]_vars => [FinalStep]_vars
  <2>. SUFFICES ASSUME IInv, [Next]_vars, NEW g \in GameIds,
                       game[g].status = "Finished", Exists(g)'
                PROVE  game'[g] = [game[g] EXCEPT !.spectators = game'[g].spectators]
    BY DEF FinalStep
  <2>1. game[g] \in Account /\ AccountStep(g)
    BY AccountSteps DEF IInv, TypeOK
  <2>2. game'[g] = game[g] \/ Watched(g)
    BY <2>1, FreshAccount DEF AccountStep, Created, Joined, MovedOn, MovedLast, Flagged,
                Resigned, Agreed, Offered, Active, Exists, Closed, NoGame
  <2>. QED
    BY <2>1, <2>2 DEF Watched, Account
<1>. QED
  BY <1>1, Invariance, PTL DEF Spec, FinishedIsFinal

\* An offer of a running game is put on the table by offer_draw in that game.
LEMMA OffersSigned ==
  ASSUME TypeOK, Next, NEW h \in GameIds, Offered(h), game'[h] # game[h]
  PROVE  log'.ix = "offer_draw" /\ log'.game = h
<1>0. game \in [GameIds -> Account] /\ game[h] \in Account /\ Active(h)
  BY DEF TypeOK, Offered
<1>1. /\ game'[h].status = "Active" /\ game'[h].plies = game[h].plies
      /\ game'[h].spectators = game[h].spectators /\ game[h].plies \in Nat
      /\ game[h].status = "Active"
  BY <1>0, WidthAssumption DEF Offered, Account, Active
<1>2. ASSUME NEW g \in GameIds, NEW w \in Wallets, OfferDraw(g, w)
      PROVE  log'.ix = "offer_draw" /\ log'.game = h
  BY <1>0, <1>2 DEF OfferDraw, Log
<1>3. ASSUME NEW g \in GameIds, NEW G, NEW result, NEW reason,
             EndGame(g, G, result, reason), DOMAIN G = DOMAIN game[g]
      PROVE  FALSE
  <2>1. g = h
    BY <1>0, <1>3 DEF EndGame
  <2>2. "status" \in DOMAIN G
    BY <1>0, <1>3, <2>1 DEF Account
  <2>3. game'[h].status = "Finished"
    BY <1>0, <1>3, <2>1, <2>2 DEF EndGame, FinalizeGame
  <2>. QED
    BY <1>1, <2>3
<1>4. ASSUME NEW g \in GameIds, LoseOnTime(g) PROVE FALSE
  BY <1>3, <1>4 DEF LoseOnTime
<1>5. ASSUME NEW g \in GameIds, NEW w \in Wallets, NEW nonce \in 0..MAX_MOVE_HISTORY,
             MakeMove(g, w, nonce)
      PROVE  FALSE
  <2>1. CASE FlagFallen(game[g])
    BY <1>4, <1>5, <2>1 DEF MakeMove
  <2>2. CASE ~FlagFallen(game[g])
    <3>1. PICK o \in MoveOutcome : RecordMove(g, o)
      BY <1>5, <2>2 DEF MakeMove
    <3>2. DOMAIN Played(game[g]) = DOMAIN game[g]
      BY DEF Played
    <3>3. game' = [game EXCEPT ![g] = Played(game[g])]
      BY <1>3, <3>1, <3>2 DEF RecordMove
    <3>4. g = h
      BY <1>0, <3>3
    <3>5. game'[h].plies = game[h].plies + 1
      BY <1>0, <3>3, <3>4 DEF Played, Account
    <3>. QED
      BY <1>1, <3>5
  <2>. QED
    BY <2>1, <2>2
<1>6. ASSUME NEW g \in GameIds, NEW w \in Wallets, ResignGame(g, w) PROVE FALSE
  BY <1>3, <1>6 DEF ResignGame
<1>7. ASSUME NEW g \in GameIds, NEW w \in Wallets, AcceptDraw(g, w) PROVE FALSE
  BY <1>3, <1>7 DEF AcceptDraw
<1>8. ASSUME NEW g \in GameIds, SyncClock(g) PROVE FALSE
  BY <1>4, <1>8 DEF SyncClock
<1>9. ASSUME NEW g \in GameIds, NEW w \in Wallets,
             JoinGame(g, w) \/ CloseGame(g, w)
             \/ \E amount \in Deposits : Deposit(w, g, amount)
      PROVE  FALSE
  BY <1>0, <1>1, <1>9 DEF JoinGame, CloseGame, Deposit
<1>10. ASSUME NEW g \in GameIds, NEW kind \in ReactionKinds, NEW register \in BOOLEAN,
              RecordReaction(g, kind, register)
       PROVE  FALSE
  <2>1. g = h
    BY <1>0, <1>10 DEF RecordReaction
  <2>2. game'[h].draw_offer = game[h].draw_offer
    BY <1>0, <1>10, <2>1 DEF RecordReaction, Account
  <2>. QED
    BY <1>0, <2>2 DEF Offered, Account
<1>11. ASSUME NEW creator \in Creators, NEW sid \in SessionIds,
              NEW tc \in TimeControls, NEW w \in Wagers, CreateGame(creator, sid, tc, w)
       PROVE  FALSE
  BY <1>0, <1>1, <1>11 DEF CreateGame, Exists
<1>12. CASE Tick
  BY <1>12 DEF Tick
<1>. QED
  BY <1>2, <1>5, <1>6, <1>7, <1>8, <1>9, <1>10, <1>11, <1>12 DEF Next, GameStep

\* Every move clears the table, and between moves only offer_draw sets it.
THEOREM OfferKept == Spec => OfferStands
<1>1. IInv /\ [Next]_vars => [OfferStandsStep]_vars
  <2>. SUFFICES ASSUME IInv, Next, NEW g \in GameIds, Active(g), game'[g].status = "Active"
                PROVE  IF game'[g].plies # game[g].plies THEN game'[g].draw_offer = Nobody
                       ELSE game'[g].draw_offer # game[g].draw_offer =>
                              /\ log'.ix = "offer_draw" /\ log'.game = g
                              /\ game'[g].draw_offer # Nobody
    BY DEF OfferStandsStep, Active
  <2>1. game[g] \in Account /\ AccountStep(g) /\ game[g].status = "Active"
    BY AccountSteps DEF IInv, TypeOK, Active
  <2>2. ~ (Created(g) \/ Joined(g) \/ Closed(g))
    BY <2>1 DEF Created, Joined, Closed, Exists
  <2>3. CASE MovedOn(g)
    <3>1. game'[g].plies = game[g].plies + 1 /\ game[g].plies \in Nat
      BY <2>1, <2>3, WidthAssumption DEF MovedOn, Played, Account
    <3>2. game'[g].draw_offer = Nobody
      BY <2>1, <2>3 DEF MovedOn, Played, Account
    <3>. QED
      BY <3>1, <3>2
  <2>4. ~ (MovedLast(g) \/ Flagged(g) \/ Resigned(g) \/ Agreed(g))
    BY <2>1 DEF MovedLast, Flagged, Resigned, Agreed, FinalizeGame, Played, Account
  <2>5. CASE game'[g] = game[g] \/ Watched(g)
    BY <2>1, <2>5 DEF Watched, Account
  <2>6. CASE Offered(g)
    <3>1. game'[g].draw_offer # Nobody /\ game'[g].plies = game[g].plies
      BY <2>1, <2>6, WalletsAssumption DEF Offered, Account
    <3>. QED
      BY <2>6, <3>1, OffersSigned DEF IInv
  <2>. QED
    BY <2>1, <2>2, <2>3, <2>4, <2>5, <2>6 DEF AccountStep
<1>. QED
  BY <1>1, Invariance, PTL DEF Spec, OfferStands

\* On a monotone cluster clock, a fallen flag never rises again.
THEOREM FlagStays == ASSUME MaxSkew = 0 PROVE Spec => FlagIsFinal
<1>1. IInv /\ [Next]_vars => [FlagStep]_vars
  <2>. SUFFICES ASSUME IInv, [Next]_vars, NEW g \in GameIds,
                       game[g].status = "Active", FlagFallen(game[g]),
                       game'[g].status = "Active"
                PROVE  FlagFallen(game[g])'
    BY DEF FlagStep, Active
  <2>1. /\ game[g] \in Account /\ AccountStep(g) /\ game[g].side_to_move \in Colors
        /\ now \in Int /\ now' \in Int /\ game[g].last_move_ts \in Int
    <3>1. TypeOK /\ TypeOK' /\ AccountStep(g)
      BY AccountSteps, TypeStep DEF IInv
    <3>2. Times \subseteq Int
      BY TimeAssumption
    <3>. QED
      BY <3>1, <3>2 DEF TypeOK, Account
  <2>2. /\ game'[g].clock_ms = game[g].clock_ms
        /\ game'[g].last_move_ts = game[g].last_move_ts
        /\ game'[g].side_to_move = game[g].side_to_move
        /\ game'[g].time_control = game[g].time_control
    <3>1. ~ (Created(g) \/ Joined(g) \/ Closed(g) \/ MovedOn(g))
      BY DEF Created, Joined, Closed, MovedOn, Exists
    <3>2. ~ (MovedLast(g) \/ Flagged(g) \/ Resigned(g) \/ Agreed(g))
      BY <2>1 DEF MovedLast, Flagged, Resigned, Agreed, FinalizeGame, Played, Account
    <3>. QED
      BY <2>1, <3>1, <3>2 DEF AccountStep, Offered, Watched, Account
  <2>3. now' >= now
    BY <2>1, ClockStep, TimeAssumption DEF Tick
  <2>4. ElapsedMs(game[g]) \in Nat /\ ElapsedMs(game[g])' \in Nat
        /\ ElapsedMs(game[g]) =< ElapsedMs(game[g])'
    BY <2>1, <2>2, <2>3 DEF ElapsedMs
  <2>5. game[g].clock_ms[game[g].side_to_move] \in Nat
    BY <2>1 DEF Account
  <2>. QED
    BY <2>2, <2>4, <2>5 DEF FlagFallen, Timed
<1>. QED
  BY <1>1, Invariance, PTL DEF Spec, FlagIsFinal

\* What the players of a game gain when it ends with this result.
Gain(G, result, p) ==
  IF ~IsPlayer(G, p) THEN 0
  ELSE IF result = "Draw" THEN G.wager_per_side
  ELSE IF result = Wins(ColorOf(G, p)) THEN 2 * G.wager_per_side
  ELSE 0

\* Every settlement of a running game pays exactly that.
LEMMA EndPays ==
  ASSUME TypeOK, SeatsTaken, VaultExact, NEW g \in GameIds, Active(g),
         NEW G \in Account, G.wager_per_side = game[g].wager_per_side,
         G.player = game[g].player, NEW result \in {"WhiteWins", "BlackWins", "Draw"},
         NEW reason, EndGame(g, G, result, reason), NEW p \in Wallets
  PROVE  /\ wallet'[p] - wallet[p] = Gain(game[g], result, p)
         /\ game'[g].result = result
<1>. DEFINE share(c) == Share(g, G, result, c)
            w == G.wager_per_side
            white == G.player[0]
            black == G.player[1]
<1>1. /\ white \in Wallets /\ black \in Wallets /\ white # black
      /\ w \in Nat /\ game \in [GameIds -> Account]
      /\ wallet \in [Wallets -> 0..U64_MAX] /\ \A q \in Wallets : wallet[q] \in Int
  <2>1. white \in Wallets /\ black \in Wallets /\ white # black
    BY TwoPlayers
  <2>2. w \in Nat
    BY DEF Account
  <2>3. game \in [GameIds -> Account] /\ wallet \in [Wallets -> 0..U64_MAX]
    BY DEF TypeOK
  <2>. QED
    BY <2>1, <2>2, <2>3, WidthAssumption
<1>2. Payout(g, G) = 2 * w
  BY PotIsPaid
<1>3. wallet' = [wallet EXCEPT ![white] = wallet[white] + share(0),
                               ![black] = wallet[black] + share(1)]
  BY DEF EndGame, SettleWager
<1>4. game'[g].result = result
  BY <1>1 DEF EndGame, FinalizeGame, Account
<1>5. /\ share(0) = IF result = "Draw" THEN w ELSE IF result = "WhiteWins" THEN 2 * w ELSE 0
      /\ share(1) = IF result = "Draw" THEN w ELSE IF result = "BlackWins" THEN 2 * w ELSE 0
  <2>1. w = (2 * w) \div 2 /\ 2 * w - w = w
    BY <1>1
  <2>. HIDE DEF w
  <2>. QED
    BY <1>2, <2>1 DEF Share, Wins
<1>6. /\ p = white => Gain(game[g], result, p) = share(0)
      /\ p = black => Gain(game[g], result, p) = share(1)
      /\ p # white /\ p # black => Gain(game[g], result, p) = 0
  <2>. HIDE DEF share, w
  <2>. QED
    BY <1>1, <1>5 DEF Gain, IsPlayer, ColorOf, Wins, w
<1>7. /\ wallet'[white] = wallet[white] + share(0) /\ wallet'[black] = wallet[black] + share(1)
      /\ p # white /\ p # black => wallet'[p] = wallet[p]
      /\ share(0) \in Int /\ share(1) \in Int
  <2>1. share(0) \in Int /\ share(1) \in Int
    BY <1>1, <1>5
  <2>. HIDE DEF share, white, black
  <2>. QED
    BY <1>1, <1>3, <2>1
<1>. HIDE DEF share, white, black, w
<1>. QED
  BY <1>1, <1>4, <1>6, <1>7

\* A game stops being active in a settlement and nowhere else.
LEMMA EndsSettle ==
  ASSUME TypeOK, [Next]_vars, NEW h \in GameIds, Active(h), game'[h].status # "Active"
  PROVE  \E G \in Account, result \in {"WhiteWins", "BlackWins", "Draw"}, reason \in Reasons :
           /\ G.wager_per_side = game[h].wager_per_side /\ G.player = game[h].player
           /\ EndGame(h, G, result, reason)
<1>. DEFINE Settles(g) ==
       \E G \in Account, result \in {"WhiteWins", "BlackWins", "Draw"}, reason \in Reasons :
         /\ G.wager_per_side = game[g].wager_per_side /\ G.player = game[g].player
         /\ EndGame(g, G, result, reason)
<1>0. /\ game[h].status = "Active" /\ game[h] \in Account /\ game \in [GameIds -> Account]
      /\ {"Timeout", "Resignation", "DrawAgreed"} \subseteq Reasons
      /\ \A c : Wins(c) \in {"WhiteWins", "BlackWins", "Draw"}
  BY DEF TypeOK, Active, Reasons, Wins
<1>1. ASSUME NEW g \in GameIds, Settles(g) PROVE Settles(h)
  <2>1. g = h
    BY <1>0, <1>1 DEF EndGame
  <2>. QED
    BY <1>1, <2>1
<1>2. ASSUME NEW g \in GameIds, LoseOnTime(g) PROVE Settles(g)
  <2>. DEFINE c == game[g].side_to_move
              G == [game[g] EXCEPT !.clock_ms[c] = 0]
  <2>1. game[g] \in Account /\ [game[g].clock_ms EXCEPT ![c] = 0] \in [Colors -> Nat]
    BY DEF TypeOK, Account
  <2>2. /\ G \in Account /\ G.wager_per_side = game[g].wager_per_side
        /\ G.player = game[g].player
    BY <2>1 DEF Account
  <2>3. EndGame(g, G, Wins(1 - c), "Timeout")
    BY <1>2 DEF LoseOnTime
  <2>. HIDE DEF G, c
  <2>. QED
    BY <1>0, <2>2, <2>3
<1>3. ASSUME NEW g \in GameIds, NEW w \in Wallets, NEW nonce \in 0..MAX_MOVE_HISTORY,
             MakeMove(g, w, nonce)
      PROVE  Settles(h)
  <2>1. CASE FlagFallen(game[g])
    BY <1>1, <1>2, <1>3, <2>1 DEF MakeMove, RecordMove
  <2>2. CASE ~FlagFallen(game[g])
    <3>. DEFINE G == Played(game[g])
                c == game[g].side_to_move
    <3>1. /\ G \in Account /\ G.wager_per_side = game[g].wager_per_side
          /\ G.player = game[g].player /\ G.status = game[g].status
      <4>1. game[g] \in Account /\ game[g].plies < MAX_MOVE_HISTORY
        BY <1>3, <2>2 DEF MakeMove, RecordMove, TypeOK
      <4>2. G \in Account
        BY <4>1, PlayedType DEF TypeOK
      <4>3. /\ G.wager_per_side = game[g].wager_per_side /\ G.status = game[g].status
            /\ G.player = game[g].player
        BY <4>1 DEF Played, Account
      <4>. QED
        BY <4>2, <4>3
    <3>2. PICK o \in MoveOutcome :
            \/ EndGame(g, G, ResultOf(o, c), ReasonOf(o))
            \/ game' = [game EXCEPT ![g] = G]
      BY <1>3, <2>2 DEF MakeMove, RecordMove
    <3>3. ResultOf(o, c) \in {"WhiteWins", "BlackWins", "Draw"} /\ ReasonOf(o) \in Reasons
      BY DEF ResultOf, ReasonOf, Wins, Reasons
    <3>. HIDE DEF G
    <3>4. ~ (game' = [game EXCEPT ![g] = G])
      BY <1>0, <3>1
    <3>. QED
      BY <1>1, <3>1, <3>2, <3>3, <3>4
  <2>. QED
    BY <2>1, <2>2
<1>4. ASSUME NEW g \in GameIds, NEW w \in Wallets, ResignGame(g, w) PROVE Settles(h)
  <2>1. game[g] \in Account
    BY <1>0
  <2>2. EndGame(g, game[g], Wins(1 - ColorOf(game[g], w)), "Resignation")
    BY <1>4 DEF ResignGame
  <2>. QED
    BY <1>0, <1>1, <2>1, <2>2
<1>5. ASSUME NEW g \in GameIds, NEW w \in Wallets, AcceptDraw(g, w) PROVE Settles(h)
  <2>1. game[g] \in Account /\ EndGame(g, game[g], "Draw", "DrawAgreed")
    BY <1>0, <1>5 DEF AcceptDraw
  <2>. QED
    BY <1>0, <1>1, <2>1
<1>6. ASSUME NEW g \in GameIds, SyncClock(g) PROVE Settles(h)
  BY <1>0, <1>1, <1>2, <1>6 DEF SyncClock
<1>7. ASSUME NEW creator \in Creators, NEW sid \in SessionIds,
             NEW tc \in TimeControls, NEW w \in Wagers, CreateGame(creator, sid, tc, w)
      PROVE  FALSE
  BY <1>0, <1>7 DEF CreateGame, Exists
<1>8. ASSUME NEW g \in GameIds, NEW w \in Wallets,
             JoinGame(g, w) \/ OfferDraw(g, w) \/ CloseGame(g, w)
             \/ \E amount \in Deposits : Deposit(w, g, amount)
      PROVE  FALSE
  <2>1. game[g] \in Account
    BY <1>0
  <2>2. ~JoinGame(g, w)
    BY <1>0, <2>1 DEF JoinGame, Account
  <2>3. ~OfferDraw(g, w)
    BY <1>0, <2>1 DEF OfferDraw, Account
  <2>4. ~CloseGame(g, w)
    BY <1>0 DEF CloseGame
  <2>5. ASSUME NEW amount \in Deposits, Deposit(w, g, amount) PROVE FALSE
    BY <1>0, <2>5 DEF Deposit
  <2>. QED
    BY <1>8, <2>2, <2>3, <2>4, <2>5
<1>9. ASSUME NEW g \in GameIds, NEW kind \in ReactionKinds, NEW register \in BOOLEAN,
             RecordReaction(g, kind, register)
      PROVE  FALSE
  BY <1>0, <1>9 DEF RecordReaction, Account
<1>10. CASE Tick \/ UNCHANGED vars
  BY <1>0, <1>10 DEF Tick, vars
<1>. QED
  BY <1>3, <1>4, <1>5, <1>6, <1>7, <1>8, <1>9, <1>10 DEF Next, GameStep

\* Whichever instruction ends a match and whatever strangers sent to its vault,
\* the winner gains two stakes, or each player one, and nobody else a lamport.
THEOREM PayoutSound == Spec => PayoutExact
<1>1. IInv /\ [Next]_vars => [PayoutStep]_vars
  <2>. SUFFICES ASSUME IInv, [Next]_vars, NEW g \in GameIds, Active(g),
                       game'[g].status # "Active", NEW p \in Wallets
                PROVE  wallet'[p] - wallet[p] = Gain(game[g], game'[g].result, p)
    BY DEF PayoutStep, Active, Gain
  <2>1. PICK G \in Account, result \in {"WhiteWins", "BlackWins", "Draw"}, reason \in Reasons :
          /\ G.wager_per_side = game[g].wager_per_side /\ G.player = game[g].player
          /\ EndGame(g, G, result, reason)
    BY EndsSettle DEF IInv
  <2>. QED
    BY <2>1, EndPays DEF IInv
<1>. QED
  BY <1>1, Invariance, PTL DEF Spec, PayoutExact

\* A log announces an end once and last, or not at all.
Closes(events) == Ends(events) = {Len(events)}
Silent(events) == Ends(events) = {}

\* Lists written out.
LEMMA EndsOfLists ==
  /\ Silent(<<>>) /\ Closes(<<"GameEnded">>)
  /\ \A a \in EventTypes \ {"GameEnded"} : /\ Silent(<<a>>)
                                           /\ Closes(<<a, "GameEnded">>)
  /\ \A a, b \in EventTypes \ {"GameEnded"} : /\ Silent(<<a, b>>)
                                              /\ Closes(<<a, b, "GameEnded">>)
BY DEF Closes, Silent, Ends

\* What follows a silent list says whether the whole announces an end.
LEMMA EndsOfTwo ==
  ASSUME NEW a \in Seq(EventTypes), NEW b \in Seq(EventTypes), Silent(a)
  PROVE  /\ Silent(b) => Silent(a \o b)
         /\ Closes(b) => Closes(a \o b)
<1>1. /\ Len(a) \in Nat /\ Len(b) \in Nat /\ Len(a \o b) = Len(a) + Len(b)
      /\ DOMAIN (a \o b) = 1..(Len(a) + Len(b))
      /\ DOMAIN a = 1..Len(a) /\ DOMAIN b = 1..Len(b)
      /\ \A i \in 1..(Len(a) + Len(b)) :
           (a \o b)[i] = IF i =< Len(a) THEN a[i] ELSE b[i - Len(a)]
  OBVIOUS
<1>2. \A i \in 1..Len(a) : a[i] # "GameEnded"
  BY <1>1 DEF Silent, Ends
<1>3. \A i \in 1..(Len(a) + Len(b)) :
        (a \o b)[i] = "GameEnded" <=>
          i - Len(a) \in 1..Len(b) /\ b[i - Len(a)] = "GameEnded"
  BY <1>1, <1>2
<1>4. ASSUME Silent(b) PROVE Silent(a \o b)
  <2>1. \A i \in 1..Len(b) : b[i] # "GameEnded"
    BY <1>1, <1>4 DEF Silent, Ends
  <2>. QED
    BY <1>1, <1>3, <2>1 DEF Silent, Ends
<1>5. ASSUME Closes(b) PROVE Closes(a \o b)
  <2>1. /\ Len(b) \in 1..Len(b) /\ b[Len(b)] = "GameEnded"
        /\ \A i \in 1..Len(b) : b[i] = "GameEnded" => i = Len(b)
    BY <1>1, <1>5 DEF Closes, Ends
  <2>2. \A i \in 1..(Len(a) + Len(b)) :
          (a \o b)[i] = "GameEnded" <=> i = Len(a) + Len(b)
    <3>1. \A i \in 1..(Len(a) + Len(b)) :
            i - Len(a) = Len(b) <=> i = Len(a) + Len(b)
      BY <1>1
    <3>. QED
      BY <1>1, <1>3, <2>1, <3>1
  <2>3. Ends(a \o b) = {Len(a) + Len(b)}
    <3>1. Len(a) + Len(b) \in 1..(Len(a) + Len(b))
      <4>1. \A m, n \in Nat : n \in 1..n => m + n \in 1..(m + n)
        OBVIOUS
      <4>. QED
        BY <1>1, <2>1, <4>1
    <3>2. Ends(a \o b) = {i \in 1..(Len(a) + Len(b)) : (a \o b)[i] = "GameEnded"}
      BY <1>1 DEF Ends
    <3>. QED
      BY <2>2, <3>1, <3>2
  <2>. QED
    BY <1>1, <2>3 DEF Closes
<1>. QED
  BY <1>4, <1>5

\* A move announces the end of the game exactly when its outcome ends it.
LEMMA MoveAnnounces ==
  ASSUME NEW o \in MoveOutcome
  PROVE  IF Terminal(o) THEN Closes(MoveEvents(o)) ELSE Silent(MoveEvents(o))
<1>. DEFINE check == IF o.is_check /\ ~o.is_mate THEN <<"CheckEvent">> ELSE <<>>
            ending == IF o.is_mate THEN <<"CheckmateEvent", "GameEnded">>
                      ELSE IF o.is_stalemate
                           THEN <<"StalemateEvent", "DrawEvent", "GameEnded">>
                      ELSE IF Terminal(o) THEN <<"DrawEvent", "GameEnded">> ELSE <<>>
            played == <<"MovePlayed">>
<1>. DEFINE types == {"MovePlayed", "CheckEvent", "CheckmateEvent", "StalemateEvent",
                      "DrawEvent"}
<1>0. types \subseteq EventTypes \ {"GameEnded"} /\ "GameEnded" \in EventTypes
  BY DEF EventTypes
<1>1. /\ played \in Seq(EventTypes) /\ check \in Seq(EventTypes)
      /\ ending \in Seq(EventTypes)
  BY <1>0, EventLists
<1>2. Silent(played) /\ Silent(check)
  BY <1>0, EndsOfLists
<1>3. IF Terminal(o) THEN Closes(ending) ELSE Silent(ending)
  BY <1>0, EndsOfLists DEF Terminal
<1>4. MoveEvents(o) = played \o check \o ending
  BY DEF MoveEvents
<1>. HIDE DEF played, check, ending
<1>5. played \o check \in Seq(EventTypes) /\ Silent(played \o check)
  BY <1>1, <1>2, EndsOfTwo
<1>6. /\ Silent(ending) => Silent((played \o check) \o ending)
      /\ Closes(ending) => Closes((played \o check) \o ending)
  BY <1>1, <1>5, EndsOfTwo, Zenon
<1>. QED
  BY <1>3, <1>4, <1>6, Zenon

\* A transaction that ends a game announces it once and last, and no other does.
LEMMA EndsAnnounced == TypeOK /\ [Next]_vars => [AnnounceStep]_vars
<1>. SUFFICES ASSUME TypeOK, Next PROVE AnnounceStep
  OBVIOUS
<1>0. game \in [GameIds -> Account]
  BY DEF TypeOK
<1>1. ASSUME NEW g \in GameIds, Active(g), game'[g].status # "Active",
             \A h \in GameIds \ {g} : game'[h] = game[h],
             log'.game = g, Closes(log'.events)
      PROVE  AnnounceStep
  <2>1. Ends(log'.events) = {Len(log'.events)}
    BY <1>1 DEF Closes
  <2>2. \A h \in GameIds : Active(h) /\ game'[h].status # "Active" <=> log'.game = h
    BY <1>1 DEF Active
  <2>. QED
    BY <2>1, <2>2 DEF AnnounceStep, Active
<1>2. ASSUME \A h \in GameIds : Active(h) => game'[h].status = "Active",
             Silent(log'.events)
      PROVE  AnnounceStep
  BY <1>2 DEF AnnounceStep, Silent, Active
<1>3. ASSUME NEW g \in GameIds, Active(g), NEW G, NEW result, NEW reason,
             EndGame(g, G, result, reason), log'.game = g, Closes(log'.events),
             DOMAIN G = DOMAIN game[g]
      PROVE  AnnounceStep
  <2>1. game'[g].status = "Finished" /\ \A h \in GameIds \ {g} : game'[h] = game[h]
    BY <1>0, <1>3 DEF EndGame, FinalizeGame, Account
  <2>. QED
    BY <1>1, <1>3, <2>1
<1>4. ASSUME NEW g \in GameIds, Active(g), LoseOnTime(g), log'.game = g,
             Closes(log'.events)
      PROVE  AnnounceStep
  BY <1>0, <1>3, <1>4 DEF LoseOnTime, Account
<1>5. ASSUME NEW g \in GameIds, NEW w \in Wallets, NEW nonce \in 0..MAX_MOVE_HISTORY,
             MakeMove(g, w, nonce)
      PROVE  AnnounceStep
  <2>1. Active(g) /\ game[g] \in Account
    BY <1>0, <1>5 DEF MakeMove
  <2>2. CASE FlagFallen(game[g])
    BY <1>4, <1>5, <2>1, <2>2, EndsOfLists DEF MakeMove, Log
  <2>3. CASE ~FlagFallen(game[g])
    <3>1. PICK o \in MoveOutcome : RecordMove(g, o)
      BY <1>5, <2>3 DEF MakeMove
    <3>2. log'.game = g /\ (IF Terminal(o) THEN Closes(log'.events)
                                            ELSE Silent(log'.events))
      BY <3>1, MoveAnnounces DEF RecordMove, Log
    <3>3. DOMAIN Played(game[g]) = DOMAIN game[g] /\ Played(game[g]).status = "Active"
      BY <2>1 DEF Played, Account, Active
    <3>4. CASE Terminal(o)
      BY <1>3, <2>1, <3>1, <3>2, <3>3, <3>4 DEF RecordMove
    <3>5. CASE ~Terminal(o)
      BY <1>0, <1>2, <3>1, <3>2, <3>3, <3>5 DEF RecordMove, Active
    <3>. QED
      BY <3>4, <3>5
  <2>. QED
    BY <2>2, <2>3
<1>6. ASSUME NEW g \in GameIds, NEW w \in Wallets, ResignGame(g, w)
      PROVE  AnnounceStep
  <2>1. Active(g) /\ log'.game = g /\ Closes(log'.events)
    BY <1>6, EndsOfLists DEF ResignGame, Log
  <2>. QED
    BY <1>3, <1>6, <2>1 DEF ResignGame
<1>7. ASSUME NEW g \in GameIds, NEW w \in Wallets, AcceptDraw(g, w)
      PROVE  AnnounceStep
  <2>1. Active(g) /\ log'.game = g /\ Closes(log'.events)
    BY <1>7, EndsOfLists DEF AcceptDraw, Log, EventTypes
  <2>. QED
    BY <1>3, <1>7, <2>1 DEF AcceptDraw
<1>8. ASSUME NEW g \in GameIds, SyncClock(g) PROVE AnnounceStep
  <2>1. CASE FlagFallen(game[g])
    BY <1>4, <1>8, <2>1, EndsOfLists DEF SyncClock, Log
  <2>2. CASE ~FlagFallen(game[g])
    <3>1. /\ log'.events = IF Timed(game[g]) THEN <<"ClockUpdated">> ELSE <<>>
          /\ game' = game
      BY <1>8, <2>2 DEF SyncClock, Log
    <3>2. Silent(log'.events)
      BY <3>1, EndsOfLists DEF EventTypes
    <3>. QED
      BY <1>2, <3>1, <3>2 DEF Active
  <2>. QED
    BY <2>1, <2>2
<1>9. ASSUME NEW creator \in Creators, NEW sid \in SessionIds,
             NEW tc \in TimeControls, NEW w \in Wagers, CreateGame(creator, sid, tc, w)
      PROVE  AnnounceStep
  <2>1. Silent(log'.events)
    BY <1>9, EndsOfLists DEF CreateGame, Log, EventTypes
  <2>2. \A h \in GameIds : Active(h) => game'[h].status = "Active"
    BY <1>0, <1>9 DEF CreateGame, Exists, Active
  <2>. QED
    BY <1>2, <2>1, <2>2
<1>10. ASSUME NEW g \in GameIds, NEW w \in Wallets,
              JoinGame(g, w) \/ OfferDraw(g, w) \/ CloseGame(g, w)
              \/ \E amount \in Deposits : Deposit(w, g, amount)
       PROVE  AnnounceStep
  <2>1. Silent(log'.events)
    <3>1. log'.events \in {<<"GameStarted">>, <<"DrawOffered">>, <<>>}
      BY <1>10 DEF JoinGame, OfferDraw, CloseGame, Deposit, Log
    <3>. QED
      BY <3>1, EndsOfLists DEF EventTypes
  <2>2. ASSUME NEW h \in GameIds, Active(h) PROVE game'[h].status = "Active"
    <3>1. game[g] \in Account /\ game[h] \in Account /\ game[h].status = "Active"
      BY <1>0, <2>2 DEF Active
    <3>2. CASE JoinGame(g, w)
      BY <1>0, <3>1, <3>2 DEF JoinGame, Account
    <3>3. CASE OfferDraw(g, w)
      BY <1>0, <3>1, <3>3 DEF OfferDraw, Account
    <3>4. CASE CloseGame(g, w)
      BY <1>0, <3>1, <3>4 DEF CloseGame
    <3>5. CASE \E amount \in Deposits : Deposit(w, g, amount)
      BY <3>1, <3>5 DEF Deposit
    <3>. QED
      BY <1>10, <3>2, <3>3, <3>4, <3>5
  <2>. QED
    BY <1>2, <2>1, <2>2
<1>11. ASSUME NEW g \in GameIds, NEW kind \in ReactionKinds, NEW register \in BOOLEAN,
              RecordReaction(g, kind, register)
       PROVE  AnnounceStep
  <2>1. Silent(log'.events)
    BY <1>11, EndsOfLists DEF RecordReaction, Log, EventTypes
  <2>2. \A h \in GameIds : Active(h) => game'[h].status = "Active"
    BY <1>0, <1>11 DEF RecordReaction, Account, Active
  <2>. QED
    BY <1>2, <2>1, <2>2
<1>12. CASE Tick
  <2>1. Silent(log'.events) /\ game' = game
    BY <1>12, EndsOfLists DEF Tick, Log
  <2>. QED
    BY <1>2, <2>1 DEF Active
<1>. QED
  BY <1>5, <1>6, <1>7, <1>8, <1>9, <1>10, <1>11, <1>12 DEF Next, GameStep

\* GameEnded is emitted by exactly the transactions that end a game, for that
\* game, once and last.
THEOREM EndAnnounced == Spec => EndIsAnnounced
<1>1. IInv /\ [Next]_vars => [AnnounceStep]_vars
  BY EndsAnnounced DEF IInv
<1>. QED
  BY <1>1, Invariance, PTL DEF Spec, EndIsAnnounced

\* What an account or a session counts of the audience.
LEMMA CountersRise ==
  ASSUME NEW n, NEW max \in Nat, n \in 0..max
  PROVE  n \in Nat /\ SaturatingAdd(n, max) >= n
BY DEF SaturatingAdd

\* No transaction lowers a counter of an account that lives on.
LEMMA CountersRaised == TypeOK /\ [Next]_vars => [CounterStep]_vars
<1>. SUFFICES ASSUME TypeOK, [Next]_vars, NEW h \in GameIds, Exists(h), Exists(h)'
              PROVE  /\ stream'[h].reaction_count >= stream[h].reaction_count
                     /\ stream'[h].clip_marker_count >= stream[h].clip_marker_count
                     /\ game'[h].spectators >= game[h].spectators
  BY DEF CounterStep
<1>0. /\ game \in [GameIds -> Account] /\ game[h] \in Account
      /\ stream \in [GameIds -> Session] /\ stream[h] \in Session
      /\ game[h].spectators \in 0..U32_MAX
      /\ stream[h].reaction_count \in 0..U64_MAX
      /\ stream[h].clip_marker_count \in 0..U32_MAX
      /\ U32_MAX \in Nat /\ U64_MAX \in Nat
  BY WidthAssumption DEF TypeOK, Account, Session
<1>1. ASSUME stream'[h] = stream[h], game'[h].spectators = game[h].spectators
      PROVE  /\ stream'[h].reaction_count >= stream[h].reaction_count
             /\ stream'[h].clip_marker_count >= stream[h].clip_marker_count
             /\ game'[h].spectators >= game[h].spectators
  BY <1>0, <1>1
<1>2. ASSUME NEW g \in GameIds, NEW kind \in ReactionKinds, NEW register \in BOOLEAN,
             RecordReaction(g, kind, register)
      PROVE  /\ stream'[h].reaction_count >= stream[h].reaction_count
             /\ stream'[h].clip_marker_count >= stream[h].clip_marker_count
             /\ game'[h].spectators >= game[h].spectators
  <2>1. CASE h # g
    BY <1>0, <1>1, <1>2, <2>1 DEF RecordReaction
  <2>2. CASE h = g
    <3>1. /\ stream'[h].reaction_count = SaturatingAdd(stream[h].reaction_count, U64_MAX)
          /\ stream'[h].clip_marker_count \in
               {stream[h].clip_marker_count,
                SaturatingAdd(stream[h].clip_marker_count, U32_MAX)}
          /\ game'[h].spectators \in {game[h].spectators,
                                      SaturatingAdd(game[h].spectators, U32_MAX)}
      BY <1>0, <1>2, <2>2 DEF RecordReaction, Account, Session
    <3>. QED
      BY <1>0, <3>1, CountersRise
  <2>. QED
    BY <2>1, <2>2
<1>3. ASSUME NEW g \in GameIds, LoseOnTime(g)
      PROVE  game'[h].spectators = game[h].spectators
  <2>1. game[g] \in Account
    BY <1>0
  <2>2. CASE h # g
    BY <1>0, <1>3, <2>2 DEF LoseOnTime, EndGame
  <2>3. CASE h = g
    <3>1. \E c : game'[h] = FinalizeGame([game[h] EXCEPT !.clock_ms[c] = 0],
                                       Wins(1 - c), "Timeout")
      BY <1>0, <1>3, <2>3 DEF LoseOnTime, EndGame
    <3>. QED
      BY <1>0, <3>1 DEF FinalizeGame, Account
  <2>. QED
    BY <2>2, <2>3
<1>4. ASSUME NEW g \in GameIds, NEW w \in Wallets,
             \/ JoinGame(g, w) \/ ResignGame(g, w) \/ OfferDraw(g, w) \/ AcceptDraw(g, w)
             \/ \E nonce \in 0..MAX_MOVE_HISTORY : MakeMove(g, w, nonce)
             \/ \E amount \in Deposits : Deposit(w, g, amount)
      PROVE  stream'[h] = stream[h] /\ game'[h].spectators = game[h].spectators
  <2>1. game[g] \in Account
    BY <1>0
  <2>2. CASE JoinGame(g, w)
    BY <1>0, <2>1, <2>2 DEF JoinGame, Account
  <2>3. CASE OfferDraw(g, w)
    BY <1>0, <2>1, <2>3 DEF OfferDraw, Account
  <2>4. CASE ResignGame(g, w)
    BY <1>0, <2>1, <2>4 DEF ResignGame, EndGame, FinalizeGame, Account
  <2>5. CASE AcceptDraw(g, w)
    BY <1>0, <2>1, <2>5 DEF AcceptDraw, EndGame, FinalizeGame, Account
  <2>6. ASSUME NEW nonce \in 0..MAX_MOVE_HISTORY, MakeMove(g, w, nonce)
        PROVE  stream'[h] = stream[h] /\ game'[h].spectators = game[h].spectators
    <3>1. CASE FlagFallen(game[g])
      BY <1>3, <2>6, <3>1 DEF MakeMove
    <3>2. CASE ~FlagFallen(game[g])
      <4>1. \/ game'[h] = game[h]
            \/ game'[h] = Played(game[h])
            \/ \E result, reason : game'[h] = FinalizeGame(Played(game[h]), result, reason)
        BY <1>0, <2>6, <3>2 DEF MakeMove, RecordMove, EndGame
      <4>2. stream'[h] = stream[h]
        BY <2>6 DEF MakeMove
      <4>. QED
        BY <1>0, <4>1, <4>2 DEF FinalizeGame, Played, Account
    <3>. QED
      BY <3>1, <3>2
  <2>7. CASE \E amount \in Deposits : Deposit(w, g, amount)
    BY <2>7 DEF Deposit
  <2>. QED
    BY <1>4, <2>2, <2>3, <2>4, <2>5, <2>6, <2>7
<1>5. ASSUME NEW g \in GameIds, NEW w \in Wallets, CloseGame(g, w)
      PROVE  stream'[h] = stream[h] /\ game'[h].spectators = game[h].spectators
  <2>1. h # g
    BY <1>0, <1>5 DEF CloseGame, Exists, NoGame
  <2>. QED
    BY <1>0, <1>5, <2>1 DEF CloseGame
<1>6. ASSUME NEW creator \in Creators, NEW sid \in SessionIds,
             NEW tc \in TimeControls, NEW w \in Wagers, CreateGame(creator, sid, tc, w)
      PROVE  stream'[h] = stream[h] /\ game'[h].spectators = game[h].spectators
  BY <1>0, <1>6 DEF CreateGame, Exists
<1>7. CASE Tick \/ UNCHANGED vars
  BY <1>1, <1>7 DEF Tick, vars
<1>8. ASSUME NEW g \in GameIds, SyncClock(g)
      PROVE  stream'[h] = stream[h] /\ game'[h].spectators = game[h].spectators
  BY <1>8, <1>3 DEF SyncClock
<1>. QED
  BY <1>1, <1>2, <1>4, <1>5, <1>6, <1>7, <1>8 DEF Next, GameStep

\* The audience counters never fall, however often they are raised.
THEOREM CountersKept == Spec => CountersNeverWrap
<1>1. IInv /\ [Next]_vars => [CounterStep]_vars
  BY CountersRaised DEF IInv
<1>. QED
  BY <1>1, Invariance, PTL DEF Spec, CountersNeverWrap

=============================================================================
