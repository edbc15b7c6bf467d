---------------------------- MODULE ChessProgram ----------------------------
(***************************************************************************)
(* The on-chain program: the nine instructions of anchor-project as the    *)
(* runtime executes them, one atomic transaction per step, in any order.   *)
(* A transaction the program rejects changes nothing, so it is a stutter   *)
(* and its checks are the guards of the action.                            *)
(*                                                                         *)
(* A Game account lives at the address derived from its creator and a      *)
(* session id; its StreamSession and its wager vault live at addresses     *)
(* derived from the Game's, so the pair <<creator, session id>> names all  *)
(* three.  The board is abstracted to the side to move and the outcome     *)
(* the rules engine reports for a move (MoveOutcome); the move history to  *)
(* its length.                                                             *)
(***************************************************************************)
EXTENDS Integers, Sequences

CONSTANTS
  Wallets,           \* system accounts: players, spectators, keepers
  Creators,          \* the wallets that create games
  SessionIds,        \* values of CreateGameArgs.session_id
  Nobody,            \* Pubkey::default(), also None for draw_offer
  Wagers,            \* values of CreateGameArgs.wager_per_side, in lamports
  TimeControls,      \* values of CreateGameArgs.time_control
  MAX_MOVE_HISTORY,  \* capacity of Game.move_history
  GameRent,          \* rent-exempt minimum of a Game account
  StreamRent,        \* rent-exempt minimum of a StreamSession account
  Funds,             \* lamports of every wallet at the start
  Deposits,          \* amounts a stranger may transfer into a vault
  ReactionKinds,     \* values of ReactionArgs.kind
  U64_MAX, U32_MAX, U16_MAX,  \* largest values of the Rust integer types
  MaxTime,           \* bound on the cluster clock (seconds)
  MaxSkew,           \* how far the cluster clock may step back (seconds)
  OwnerDebitOnly     \* TRUE: the runtime lets only an account's owner debit it

Colors == {0, 1}                            \* 0 = white, 1 = black
GameIds == Creators \X SessionIds
Times == 0..MaxTime
Statuses == {"NoAccount", "WaitingForOpponent", "Active", "Finished"}
Results == {"Ongoing", "WhiteWins", "BlackWins", "Draw"}
Reasons == {"None", "Checkmate", "Resignation", "Timeout", "DrawAgreed",
            "Stalemate", "FiftyMove", "InsufficientMaterial", "Abandoned"}
\* The events the instructions emit; DrawDeclined is declared and never emitted.
EventTypes == {"GameCreated", "GameStarted", "GameEnded", "MovePlayed",
               "CheckEvent", "CheckmateEvent", "StalemateEvent", "DrawEvent",
               "ClockUpdated", "DrawOffered", "StreamReactionEvent",
               "SpectatorJoined"}
Instructions == {"none", "create_game", "join_game", "make_move",
                 "resign_game", "offer_draw", "accept_draw", "sync_clock",
                 "record_reaction", "close_game", "tick", "deposit"}

ASSUME WalletsAssumption == /\ Creators \subseteq Wallets
                            /\ Nobody \notin Wallets
ASSUME WidthAssumption == /\ U64_MAX \in Nat /\ U32_MAX \in Nat
                          /\ U16_MAX \in Nat /\ MAX_MOVE_HISTORY \in 1..U16_MAX
ASSUME MoneyAssumption == /\ Wagers \subseteq Nat
                          /\ Deposits \subseteq Nat \ {0}
                          /\ GameRent \in Nat /\ StreamRent \in Nat
                          /\ Funds \in [Wallets -> 0..U64_MAX]
ASSUME TimeAssumption ==
  /\ MaxTime \in Nat /\ MaxSkew \in Nat
  /\ TimeControls \subseteq [initial_ms : Nat, increment_ms : Nat]
  /\ TimeControls # {}
ASSUME KindAssumption == ReactionKinds \subseteq Nat
ASSUME RuntimeAssumption == OwnerDebitOnly \in BOOLEAN

VARIABLES
  game,     \* Game account of every address (status NoAccount: not created)
  stream,   \* StreamSession account of every address
  vault,    \* lamports in the wager vault of every address
  wallet,   \* lamports of every wallet
  now,      \* Clock::get()?.unix_timestamp
  log,      \* the last transaction: instruction, game, events emitted
  used,     \* history: seconds each colour of a timed game has had the move
  stray     \* history: deposits in the vault that are not stakes

vars == <<game, stream, vault, wallet, now, log, used, stray>>

-----------------------------------------------------------------------------
(* Accounts.                                                               *)

Account ==
  [status : Statuses, result : Results, end_reason : Reasons,
   player : [Colors -> Wallets \cup {Nobody}],
   side_to_move : Colors, plies : 0..MAX_MOVE_HISTORY, move_nonce : 0..U16_MAX,
   clock_ms : [Colors -> Nat], last_move_ts : Times, time_control : TimeControls,
   draw_offer : Wallets \cup {Nobody}, wager_per_side : Nat,
   spectators : 0..U32_MAX]

Session == [reaction_count : 0..U64_MAX, clip_marker_count : 0..U32_MAX]

NoTime == [c \in Colors |-> 0]

NoSession == [reaction_count |-> 0, clip_marker_count |-> 0]

\* A Game as create_game fills it in.  ChessState::initial: white to move.
NewGame(creator, tc, w) ==
  [status |-> "WaitingForOpponent", result |-> "Ongoing", end_reason |-> "None",
   player |-> [c \in Colors |-> IF c = 0 THEN creator ELSE Nobody],
   side_to_move |-> 0, plies |-> 0, move_nonce |-> 0,
   clock_ms |-> [c \in Colors |-> tc.initial_ms], last_move_ts |-> now,
   time_control |-> tc, draw_offer |-> Nobody, wager_per_side |-> w,
   spectators |-> 0]

\* An address without an account: nothing but the status is ever read.
NoGame ==
  [status |-> "NoAccount", result |-> "Ongoing", end_reason |-> "None",
   player |-> [c \in Colors |-> Nobody],
   side_to_move |-> 0, plies |-> 0, move_nonce |-> 0,
   clock_ms |-> [c \in Colors |-> 0], last_move_ts |-> 0,
   time_control |-> CHOOSE tc \in TimeControls : TRUE,
   draw_offer |-> Nobody, wager_per_side |-> 0, spectators |-> 0]

Exists(g) == game[g].status # "NoAccount"
Active(g) == game[g].status = "Active"

\* TimeControl::validate
Validate(tc) == /\ tc.initial_ms =< 24 * 60 * 60 * 1000
                /\ tc.increment_ms =< 60 * 1000

Timed(G) == G.time_control.initial_ms > 0

IsPlayer(G, w) == w = G.player[0] \/ w = G.player[1]
ColorOf(G, w) == IF w = G.player[0] THEN 0 ELSE 1
Wins(c) == IF c = 0 THEN "WhiteWins" ELSE "BlackWins"

\* Seeded fault: the counter wraps.
WrappingInc(n, max) == (n + 1) % (max + 1)

SaturatingAdd(n, max) == IF n < max THEN n + 1 ELSE max

\* What the transaction leaves in the program log.
Log(ix, g, events) == log' = [ix |-> ix, game |-> g, events |-> events]

-----------------------------------------------------------------------------
(* Clocks.                                                                 *)

\* Seeded fault: seconds taken for milliseconds.
ElapsedSeconds(G) == IF now > G.last_move_ts THEN now - G.last_move_ts ELSE 0

\* clock_elapsed_ms: whole seconds since the last move, never negative.
ElapsedMs(G) == IF now > G.last_move_ts THEN (now - G.last_move_ts) * 1000 ELSE 0

\* Seeded fault: a clock that is exactly used up has not fallen.
FlagFallenLate(G) == Timed(G) /\ ElapsedMs(G) > G.clock_ms[G.side_to_move]

\* The side to move has used up its clock (make_move and sync_clock agree).
FlagFallen(G) == Timed(G) /\ ElapsedMs(G) >= G.clock_ms[G.side_to_move]

\* The Fischer clock of the mover after its move; a casual game has none.
ClockAfterMove(G) ==
  IF Timed(G)
  THEN LET left == G.clock_ms[G.side_to_move] - ElapsedMs(G)
       IN (IF left > 0 THEN left ELSE 0) + G.time_control.increment_ms
  ELSE G.clock_ms[G.side_to_move]

-----------------------------------------------------------------------------
(* Money.                                                                  *)

\* Seeded fault: the sender's balance is not checked.
StakeUnfunded(from, g, amount, rent) ==
  /\ vault[g] + amount =< U64_MAX
  /\ wallet' = [wallet EXCEPT ![from] = @ - rent - amount]
  /\ vault' = [vault EXCEPT ![g] = @ + amount]

\* system_program::transfer: the sender must be able to pay.
Stake(from, g, amount, rent) ==
  /\ wallet[from] >= rent + amount
  /\ vault[g] + amount =< U64_MAX
  /\ wallet' = [wallet EXCEPT ![from] = @ - rent - amount]
  /\ vault' = [vault EXCEPT ![g] = @ + amount]

\* Seeded fault: the winner takes whatever is in the vault.
PayoutOfVault(g, G) == IF G.wager_per_side = 0 THEN 0 ELSE vault[g]

\* What settle_wager pays out in all: the pot, or what the vault holds.
Payout(g, G) ==
  LET double == 2 * G.wager_per_side
      pot == IF double =< U64_MAX THEN double ELSE U64_MAX
  IN IF G.wager_per_side = 0 THEN 0
     ELSE IF pot =< vault[g] THEN pot ELSE vault[g]

\* Seeded fault: the loser is paid.
ShareOfLoser(g, G, result, c) ==
  LET payout == Payout(g, G) IN
  IF result = "Draw" THEN payout \div 2
  ELSE IF result = Wins(c) THEN 0 ELSE payout

\* ... and the part of it that goes to the player of colour c.
Share(g, G, result, c) ==
  LET payout == Payout(g, G) IN
  IF result = "Draw"
  THEN IF c = 0 THEN payout \div 2 ELSE payout - payout \div 2
  ELSE IF result = Wins(c) THEN payout ELSE 0

\* The program debits the vault directly; the vault is a system account.
MayDebit(amount) == OwnerDebitOnly => amount = 0

\* Seeded fault: the players are credited and the vault is not debited.
SettleWithoutDebit(g, G, result) ==
  /\ MayDebit(Payout(g, G))
  /\ UNCHANGED vault
  /\ wallet' = [wallet EXCEPT ![G.player[0]] = @ + Share(g, G, result, 0),
                              ![G.player[1]] = @ + Share(g, G, result, 1)]

SettleWager(g, G, result) ==
  LET share(c) == Share(g, G, result, c) IN
  /\ MayDebit(Payout(g, G))
  /\ \A c \in Colors : wallet[G.player[c]] + share(c) =< U64_MAX
  /\ vault' = [vault EXCEPT ![g] = @ - Payout(g, G)]
  /\ wallet' = [wallet EXCEPT ![G.player[0]] = @ + share(0),
                              ![G.player[1]] = @ + share(1)]

\* Seeded fault: the draw offer is left behind.
FinalizeWithOffer(G, result, reason) ==
  [G EXCEPT !.status = "Finished", !.result = result, !.end_reason = reason]

FinalizeGame(G, result, reason) ==
  [G EXCEPT !.status = "Finished", !.result = result, !.end_reason = reason,
            !.draw_offer = Nobody]

\* Every instruction that ends a game settles the wager and finalises.
EndGame(g, G, result, reason) ==
  /\ SettleWager(g, G, result)
  /\ game' = [game EXCEPT ![g] = FinalizeGame(G, result, reason)]

\* Seeded fault: the clock of the winner is set to zero.
LoseOnTimeSwapped(g) ==
  LET G == game[g] c == G.side_to_move IN
  EndGame(g, [G EXCEPT !.clock_ms[1 - c] = 0], Wins(1 - c), "Timeout")

\* The flag-fall branch of make_move and of sync_clock.
LoseOnTime(g) ==
  LET G == game[g] c == G.side_to_move IN
  EndGame(g, [G EXCEPT !.clock_ms[c] = 0], Wins(1 - c), "Timeout")

-----------------------------------------------------------------------------
(* What apply_move reports of a legal move: a mate gives check, a stalemate  *)
(* does not, and the two draw flags come on top of any of them.              *)

MoveOutcome ==
  {o \in [is_check : BOOLEAN, is_mate : BOOLEAN, is_stalemate : BOOLEAN,
          draw_50_move : BOOLEAN, draw_insufficient : BOOLEAN] :
     /\ o.is_mate => o.is_check
     /\ o.is_stalemate => ~o.is_check}

Terminal(o) == \/ o.is_mate \/ o.is_stalemate
               \/ o.draw_50_move \/ o.draw_insufficient

ResultOf(o, c) == IF o.is_mate THEN Wins(c) ELSE "Draw"

\* Seeded fault: the fifty-move rule comes before mate.
ReasonFiftyFirst(o) == IF o.draw_50_move THEN "FiftyMove"
                       ELSE IF o.is_mate THEN "Checkmate"
                       ELSE IF o.is_stalemate THEN "Stalemate"
                       ELSE "InsufficientMaterial"

ReasonOf(o) == IF o.is_mate THEN "Checkmate"
               ELSE IF o.is_stalemate THEN "Stalemate"
               ELSE IF o.draw_50_move THEN "FiftyMove"
               ELSE "InsufficientMaterial"

\* Seeded fault: without its early return, a draw is found and announced again.
MoveEventsTwice(o) ==
  IF o.is_mate THEN <<"MovePlayed", "CheckmateEvent", "GameEnded">>
  ELSE IF o.is_stalemate
       THEN <<"MovePlayed", "StalemateEvent", "DrawEvent", "GameEnded">>
  ELSE IF Terminal(o)
       THEN <<"MovePlayed", "DrawEvent", "GameEnded", "DrawEvent", "GameEnded">>
  ELSE <<"MovePlayed">>

MoveEvents(o) ==
  <<"MovePlayed">>
  \o (IF o.is_check /\ ~o.is_mate THEN <<"CheckEvent">> ELSE <<>>)
  \o (IF o.is_mate THEN <<"CheckmateEvent", "GameEnded">>
      ELSE IF o.is_stalemate
           THEN <<"StalemateEvent", "DrawEvent", "GameEnded">>
      ELSE IF Terminal(o) THEN <<"DrawEvent", "GameEnded">> ELSE <<>>)

\* Seeded fault: the opponent's clock is charged.
PlayedOffOpponentsClock(G) ==
  [G EXCEPT !.clock_ms[1 - G.side_to_move] = ClockAfterMove(G),
            !.side_to_move = 1 - G.side_to_move, !.plies = @ + 1,
            !.move_nonce = (@ + 1) % (U16_MAX + 1), !.last_move_ts = now,
            !.draw_offer = Nobody]

\* Seeded fault: the offer is left on the table.
PlayedWithOffer(G) ==
  [G EXCEPT !.clock_ms[G.side_to_move] = ClockAfterMove(G),
            !.side_to_move = 1 - G.side_to_move, !.plies = @ + 1,
            !.move_nonce = (@ + 1) % (U16_MAX + 1), !.last_move_ts = now]

\* Seeded fault: the nonce is not advanced.
PlayedUnderOldNonce(G) ==
  [G EXCEPT !.clock_ms[G.side_to_move] = ClockAfterMove(G),
            !.side_to_move = 1 - G.side_to_move, !.plies = @ + 1,
            !.last_move_ts = now, !.draw_offer = Nobody]

\* The account after the move has been applied and recorded.
Played(G) ==
  [G EXCEPT !.clock_ms[G.side_to_move] = ClockAfterMove(G),
            !.side_to_move = 1 - G.side_to_move,
            !.plies = @ + 1,
            !.move_nonce = (@ + 1) % (U16_MAX + 1),
            !.last_move_ts = now,
            !.draw_offer = Nobody]

-----------------------------------------------------------------------------
(* Instructions.                                                           *)

CreateGame(creator, sid, tc, w) ==
  LET g == <<creator, sid>> IN
  /\ ~Exists(g)
  /\ Validate(tc)
  /\ Stake(creator, g, w, GameRent + StreamRent)
  /\ game' = [game EXCEPT ![g] = NewGame(creator, tc, w)]
  /\ stream' = [stream EXCEPT ![g] = NoSession]
  /\ Log("create_game", g, <<"GameCreated">>)
  /\ UNCHANGED <<now, used, stray>>

\* Seeded fault: the creator may take the second seat too.
JoinOwnGame(g, black) ==
  /\ game[g].status = "WaitingForOpponent"
  /\ game[g].player[1] = Nobody
  /\ Stake(black, g, game[g].wager_per_side, 0)
  /\ game' = [game EXCEPT ![g].player[1] = black, ![g].status = "Active",
                          ![g].last_move_ts = now]
  /\ used' = [used EXCEPT ![g] = NoTime]
  /\ Log("join_game", g, <<"GameStarted">>)
  /\ UNCHANGED <<stream, now, stray>>

JoinGame(g, black) ==
  LET G == game[g] IN
  /\ G.status = "WaitingForOpponent"
  /\ G.player[1] = Nobody
  /\ black # G.player[0]
  /\ Stake(black, g, G.wager_per_side, 0)
  /\ game' = [game EXCEPT ![g].player[1] = black, ![g].status = "Active",
                          ![g].last_move_ts = now]
  /\ used' = [used EXCEPT ![g] = NoTime]
  /\ Log("join_game", g, <<"GameStarted">>)
  /\ UNCHANGED <<stream, now, stray>>

\* The move is recorded with the outcome the rules engine reports of it.
RecordMove(g, o) ==
  LET G == game[g] c == G.side_to_move IN
  /\ \/ /\ Terminal(o)
        /\ EndGame(g, Played(G), ResultOf(o, c), ReasonOf(o))
     \/ /\ ~Terminal(o)
        /\ game' = [game EXCEPT ![g] = Played(G)]
        /\ UNCHANGED <<vault, wallet>>
  /\ Log("make_move", g, MoveEvents(o))

\* A flagged mover loses without moving; otherwise the rules engine's outcome
\* decides.  With the history full the instruction fails whatever it did.
MakeMove(g, mover, nonce) ==
  LET G == game[g] c == G.side_to_move IN
  /\ Active(g)
  /\ IsPlayer(G, mover) /\ ColorOf(G, mover) = c
  /\ nonce = G.move_nonce
  /\ \/ /\ FlagFallen(G)
        /\ LoseOnTime(g)
        /\ Log("make_move", g, <<"GameEnded">>)
     \/ /\ ~FlagFallen(G)
        /\ G.plies < MAX_MOVE_HISTORY
        /\ \E o \in MoveOutcome : RecordMove(g, o)
  /\ UNCHANGED <<stream, now, used, stray>>

ResignGame(g, player) ==
  LET G == game[g] IN
  /\ Active(g)
  /\ IsPlayer(G, player)
  /\ EndGame(g, G, Wins(1 - ColorOf(G, player)), "Resignation")
  /\ Log("resign_game", g, <<"GameEnded">>)
  /\ UNCHANGED <<stream, now, used, stray>>

\* Seeded fault: a finished game still takes offers.
OfferDrawLate(g, player) ==
  /\ game[g].status \in {"Active", "Finished"}
  /\ IsPlayer(game[g], player)
  /\ game' = [game EXCEPT ![g].draw_offer = player]
  /\ Log("offer_draw", g, <<"DrawOffered">>)
  /\ UNCHANGED <<stream, vault, wallet, now, used, stray>>

\* Seeded fault: the offer refreshes the time stamp.
OfferDrawRestartsClock(g, player) ==
  /\ Active(g)
  /\ IsPlayer(game[g], player)
  /\ game' = [game EXCEPT ![g].draw_offer = player, ![g].last_move_ts = now]
  /\ Log("offer_draw", g, <<"DrawOffered">>)
  /\ UNCHANGED <<stream, vault, wallet, now, used, stray>>

\* A later offer replaces an earlier one, the opponent's too.
OfferDraw(g, player) ==
  /\ Active(g)
  /\ IsPlayer(game[g], player)
  /\ game' = [game EXCEPT ![g].draw_offer = player]
  /\ Log("offer_draw", g, <<"DrawOffered">>)
  /\ UNCHANGED <<stream, vault, wallet, now, used, stray>>

AcceptDraw(g, player) ==
  LET G == game[g] IN
  /\ Active(g)
  /\ G.draw_offer # Nobody
  /\ IsPlayer(G, player)
  /\ player # G.draw_offer
  /\ EndGame(g, G, "Draw", "DrawAgreed")
  /\ Log("accept_draw", g, <<"DrawEvent", "GameEnded">>)
  /\ UNCHANGED <<stream, now, used, stray>>

\* Seeded fault: a fallen flag is reported and not acted on.
SyncReportsOnly(g) ==
  /\ Active(g)
  /\ Log("sync_clock", g, IF Timed(game[g]) THEN <<"ClockUpdated">> ELSE <<>>)
  /\ UNCHANGED <<game, vault, wallet, stream, now, used, stray>>

\* Anyone may call it; a casual game has nothing to sync.
SyncClock(g) ==
  LET G == game[g] IN
  /\ Active(g)
  /\ \/ /\ FlagFallen(G)
        /\ LoseOnTime(g)
        /\ Log("sync_clock", g, <<"GameEnded">>)
     \/ /\ ~FlagFallen(G)
        /\ Log("sync_clock", g, IF Timed(G) THEN <<"ClockUpdated">> ELSE <<>>)
        /\ UNCHANGED <<game, vault, wallet>>
  /\ UNCHANGED <<stream, now, used, stray>>

\* In any status; the caller says whether this is its first reaction.
RecordReaction(g, kind, register) ==
  /\ Exists(g)
  /\ kind =< 3
  /\ stream' = [stream EXCEPT
       ![g].reaction_count = SaturatingAdd(@, U64_MAX),
       ![g].clip_marker_count = IF kind = 3 THEN SaturatingAdd(@, U32_MAX) ELSE @]
  /\ game' = [game EXCEPT
       ![g].spectators = IF register THEN SaturatingAdd(@, U32_MAX) ELSE @]
  /\ Log("record_reaction", g,
         IF register THEN <<"SpectatorJoined", "StreamReactionEvent">>
                     ELSE <<"StreamReactionEvent">>)
  /\ UNCHANGED <<vault, wallet, now, used, stray>>

\* Seeded fault: the status is not checked.
CloseAnyTime(g, closer) ==
  LET creator == g[1] refund == vault[g] + GameRent + StreamRent IN
  /\ Exists(g)
  /\ IsPlayer(game[g], closer) \/ closer = creator
  /\ wallet' = [wallet EXCEPT ![creator] = @ + refund]
  /\ vault' = [vault EXCEPT ![g] = 0]
  /\ game' = [game EXCEPT ![g] = NoGame]
  /\ stream' = [stream EXCEPT ![g] = NoSession]
  /\ used' = [used EXCEPT ![g] = NoTime]
  /\ stray' = [stray EXCEPT ![g] = 0]
  /\ Log("close_game", g, <<>>)
  /\ UNCHANGED now

\* Seeded fault: whoever closes the game is paid, creator or not.
CloseGameToCloser(g, closer) ==
  LET G == game[g]
      refund == vault[g] + GameRent + StreamRent IN
  /\ \/ G.status = "WaitingForOpponent" /\ closer = g[1]
     \/ G.status = "Finished" /\ (IsPlayer(G, closer) \/ closer = g[1])
  /\ wallet[closer] + refund =< U64_MAX
  /\ wallet' = [wallet EXCEPT ![closer] = @ + refund]
  /\ vault' = [vault EXCEPT ![g] = 0]
  /\ game' = [game EXCEPT ![g] = NoGame]
  /\ stream' = [stream EXCEPT ![g] = NoSession]
  /\ used' = [used EXCEPT ![g] = NoTime]
  /\ stray' = [stray EXCEPT ![g] = 0]
  /\ Log("close_game", g, <<>>)
  /\ UNCHANGED now

\* Drains the vault and both rents to the creator; nothing is emitted.
CloseGame(g, closer) ==
  LET G == game[g] creator == g[1]
      refund == vault[g] + GameRent + StreamRent IN
  /\ \/ G.status = "WaitingForOpponent" /\ closer = creator
     \/ G.status = "Finished" /\ (IsPlayer(G, closer) \/ closer = creator)
  /\ MayDebit(vault[g])
  /\ wallet[creator] + refund =< U64_MAX
  /\ wallet' = [wallet EXCEPT ![creator] = @ + refund]
  /\ vault' = [vault EXCEPT ![g] = 0]
  /\ game' = [game EXCEPT ![g] = NoGame]
  /\ stream' = [stream EXCEPT ![g] = NoSession]
  /\ used' = [used EXCEPT ![g] = NoTime]
  /\ stray' = [stray EXCEPT ![g] = 0]
  /\ Log("close_game", g, <<>>)
  /\ UNCHANGED now

-----------------------------------------------------------------------------
(* The environment.                                                        *)

\* The cluster clock advances; with MaxSkew > 0 it may also step back.
Tick ==
  /\ now' \in Times
  /\ now' # now /\ now' =< now + 1 /\ now' >= now - MaxSkew
  /\ Log("tick", Nobody, <<>>)
  /\ used' = [g \in GameIds |->
       IF Active(g) /\ Timed(game[g])
       THEN [used[g] EXCEPT ![game[g].side_to_move] = @ + (now' - now)] ELSE used[g]]
  /\ UNCHANGED <<game, stream, vault, wallet, stray>>

\* Anyone may send lamports to a vault address, created or not.
Deposit(from, g, amount) ==
  /\ Stake(from, g, amount, 0)
  /\ stray' = [stray EXCEPT ![g] = @ + amount]
  /\ Log("deposit", Nobody, <<>>)
  /\ UNCHANGED <<game, stream, now, used>>

-----------------------------------------------------------------------------
Init ==
  /\ game = [g \in GameIds |-> NoGame]
  /\ stream = [g \in GameIds |-> NoSession]
  /\ vault = [g \in GameIds |-> 0]
  /\ wallet = Funds
  /\ now = 0
  /\ log = [ix |-> "none", game |-> Nobody, events |-> <<>>]
  /\ used = [g \in GameIds |-> NoTime]
  /\ stray = [g \in GameIds |-> 0]

GameStep(g) ==
  \/ \E w \in Wallets :
       \/ JoinGame(g, w)
       \/ \E nonce \in 0..MAX_MOVE_HISTORY : MakeMove(g, w, nonce)
       \/ ResignGame(g, w)
       \/ OfferDraw(g, w)
       \/ AcceptDraw(g, w)
       \/ CloseGame(g, w)
       \/ \E amount \in Deposits : Deposit(w, g, amount)
  \/ SyncClock(g)
  \/ \E kind \in ReactionKinds, register \in BOOLEAN :
       RecordReaction(g, kind, register)

Next ==
  \/ \E creator \in Creators, sid \in SessionIds, tc \in TimeControls, w \in Wagers :
       CreateGame(creator, sid, tc, w)
  \/ \E g \in GameIds : GameStep(g)
  \/ Tick

Spec == Init /\ [][Next]_vars

\* Fairness of the keepers: sync_clock is open to anyone, so a game that only
\* needs it is assumed to be synced eventually.  Players owe no step.
FairKeepers == \A g \in GameIds : WF_vars(SyncClock(g))
LiveSpec == Spec /\ FairKeepers

\* A mover who always eventually submits a move that would be accepted.
FairMovers ==
  \A g \in GameIds : WF_vars(\E w \in Wallets, nonce \in 0..MAX_MOVE_HISTORY :
                               MakeMove(g, w, nonce))
PlayedSpec == Spec /\ FairMovers

-----------------------------------------------------------------------------
(* Invariants.                                                             *)

\* The accounts, balances and the log keep the types the program declares.
TypeOK ==
  /\ game \in [GameIds -> Account]
  /\ stream \in [GameIds -> Session]
  /\ vault \in [GameIds -> 0..U64_MAX]
  /\ wallet \in [Wallets -> 0..U64_MAX]
  /\ now \in Times
  /\ log \in [ix : Instructions, game : GameIds \cup {Nobody},
              events : Seq(EventTypes)]
  /\ used \in [GameIds -> [Colors -> Int]]
  /\ stray \in [GameIds -> Nat]

\* The stakes a game has in its vault.
Escrow(G) == IF G.status = "WaitingForOpponent" THEN G.wager_per_side
             ELSE IF G.status = "Active" THEN 2 * G.wager_per_side
             ELSE 0

\* However instructions, deposits and re-creations of the same address
\* interleave, a vault holds exactly the stakes of its unfinished game and what
\* strangers sent to it: one stake while white waits (create_game), two while
\* the game runs (join_game), none once it is settled (settle_wager) or closed.
VaultExact == \A g \in GameIds : vault[g] = Escrow(game[g]) + stray[g]

\* The anti-replay nonce, the length of the history and the side to move never
\* drift apart (make_move is the only instruction that may touch any of them),
\* so a nonce names one ply of one colour.
NonceNamesPly ==
  \A g \in GameIds : /\ game[g].move_nonce = game[g].plies
                     /\ game[g].side_to_move = game[g].plies % 2

\* The two colours are different wallets as soon as both are seated, the creator
\* plays white, and the second seat is empty exactly while the game waits.
SeatsTaken ==
  \A g \in GameIds : LET G == game[g] IN
    Exists(g) => /\ G.player[0] = g[1]
                 /\ G.player[1] # G.player[0]
                 /\ G.player[1] = Nobody <=> G.status = "WaitingForOpponent"

\* A clock of a timed game is at zero only when its owner has lost on time, and
\* the opponent's is not: no path through make_move leaves a player alive with
\* an empty clock, and a timeout always charges the side to move.
ZeroClockMeansTimeout ==
  \A g \in GameIds : \A c \in Colors : LET G == game[g] IN
    Exists(g) /\ Timed(G) =>
      (G.clock_ms[c] = 0 <=> /\ G.status = "Finished"
                             /\ G.end_reason = "Timeout"
                             /\ c = G.side_to_move)

\* Moves made by colour c in a game.
MovesOf(G, c) == (G.plies + 1 - c) \div 2

\* Each player is charged for its own time and nothing else: what its clock shows
\* is the initial time and one increment per move of its own, less the seconds
\* the cluster clock ticked while it was on the move, the current turn excepted.
\* When the cluster clock steps back, make_move's max(0) may only charge more.
TimeConserved ==
  \A g \in GameIds : \A c \in Colors :
    LET G == game[g]
        turn == IF c = G.side_to_move THEN now - G.last_move_ts ELSE 0
        charged == (used[g][c] - turn) * 1000
        budget == G.time_control.initial_ms
                  + MovesOf(G, c) * G.time_control.increment_ms
    IN Active(g) /\ Timed(G) =>
         /\ G.clock_ms[c] =< budget - charged
         /\ MaxSkew = 0 => G.clock_ms[c] = budget - charged

\* The result a finished game records is the one its end reason implies: the
\* side to move is the one that was mated or flagged, and every other way to
\* end a game is a draw or a resignation.
OutcomeFitsReason ==
  \A g \in GameIds : LET G == game[g] IN
    /\ G.status = "Finished" <=> G.result # "Ongoing"
    /\ G.result = "Ongoing" <=> G.end_reason = "None"
    /\ G.end_reason \in {"Checkmate", "Timeout"} => G.result = Wins(1 - G.side_to_move)
    /\ G.end_reason = "Resignation" => G.result # "Draw"
    /\ G.end_reason \in {"DrawAgreed", "Stalemate", "FiftyMove",
                         "InsufficientMaterial"} => G.result = "Draw"

\* A draw offer outlives neither the game nor a change of seats: whoever reads
\* one in accept_draw finds a running game and an offer by one of its players.
OfferIsLive ==
  \A g \in GameIds : game[g].draw_offer # Nobody =>
                       Active(g) /\ IsPlayer(game[g], game[g].draw_offer)

-----------------------------------------------------------------------------
(* Action properties.                                                      *)

ForwardStep ==
  \A g \in GameIds : LET G == game[g] H == game'[g] step == <<G.status, H.status>> IN
    /\ G.status # H.status => step \in
         {<<"NoAccount", "WaitingForOpponent">>, <<"WaitingForOpponent", "Active">>,
          <<"Active", "Finished">>, <<"WaitingForOpponent", "NoAccount">>,
          <<"Finished", "NoAccount">>}
    /\ <<H.result, H.end_reason>> # <<G.result, G.end_reason>> =>
         step \in {<<"Active", "Finished">>, <<"Finished", "NoAccount">>}
    /\ Exists(g) /\ Exists(g)' =>
         /\ H.wager_per_side = G.wager_per_side /\ H.time_control = G.time_control
         /\ H.player # G.player => step = <<"WaitingForOpponent", "Active">>

\* A match only moves forward: absent, waiting, active, finished; it can be
\* closed from waiting or finished only.  A result is written by the step that
\* ends the match and stands until the account is closed; stake and time control
\* stay as offered, and the players as they were when black joined.
ForwardOnly == [][ForwardStep]_vars

FinalStep ==
  \A g \in GameIds :
    game[g].status = "Finished" /\ Exists(g)' =>
      game'[g] = [game[g] EXCEPT !.spectators = game'[g].spectators]

\* A finished match is frozen until it is closed: no late move, resignation,
\* acceptance or flag changes its outcome, clocks or history; only its audience
\* counter moves.
FinishedIsFinal == [][FinalStep]_vars

PayoutStep ==
  \A g \in GameIds : LET G == game[g] H == game'[g] w == G.wager_per_side IN
    Active(g) /\ ~Active(g)' =>
      \A p \in Wallets :
        wallet'[p] - wallet[p] =
          IF ~IsPlayer(G, p) THEN 0
          ELSE IF H.result = "Draw" THEN w
          ELSE IF H.result = Wins(ColorOf(G, p)) THEN 2 * w
          ELSE 0

\* Whatever instruction ends a match, and whatever else is in the vault, the
\* winner gains exactly two stakes or each player one, and no other wallet
\* gains or loses a lamport in that transaction.
PayoutExact == [][PayoutStep]_vars

FlagStep ==
  \A g \in GameIds : Active(g) /\ FlagFallen(game[g]) /\ Active(g)' =>
                       FlagFallen(game[g])'

\* Once the mover's flag has fallen, nothing revives the game: as long as it is
\* active the flag stays fallen, whatever is offered, reacted or synced, and a
\* late make_move ends the game instead of restarting the clock.
FlagIsFinal == [][FlagStep]_vars

OfferStandsStep ==
  \A g \in GameIds : LET G == game[g] H == game'[g] IN
    Active(g) /\ Active(g)' =>
      IF H.plies # G.plies THEN H.draw_offer = Nobody
      ELSE H.draw_offer # G.draw_offer =>
             /\ log'.ix = "offer_draw" /\ log'.game = g
             /\ H.draw_offer # Nobody

\* As long as the game goes on, every move clears the table of offers, whoever
\* made them; between moves nothing but offer_draw in that game puts an offer
\* there or replaces it, and none is withdrawn.
OfferStands == [][OfferStandsStep]_vars

\* Where in a transaction's log a game is announced to have ended.
Ends(events) == {i \in DOMAIN events : events[i] = "GameEnded"}

AnnounceStep ==
  LET ends == Ends(log'.events) IN
  /\ ends \subseteq {Len(log'.events)}
  /\ \A g \in GameIds : Active(g) /\ ~Active(g)' <=> log'.game = g /\ ends # {}

\* GameEnded is emitted by exactly the transactions that end a game, for that
\* game, once, and as the last event of the transaction.
EndIsAnnounced == [][AnnounceStep]_vars

CounterStep ==
  \A g \in GameIds : Exists(g) /\ Exists(g)' =>
    /\ stream'[g].reaction_count >= stream[g].reaction_count
    /\ stream'[g].clip_marker_count >= stream[g].clip_marker_count
    /\ game'[g].spectators >= game[g].spectators

\* The audience counters saturate: they never fall while the accounts live.
CountersNeverWrap == [][CounterStep]_vars

-----------------------------------------------------------------------------
(* Liveness.                                                               *)

\* A game whose mover has let its flag fall ends, although neither player does
\* anything any more: sync_clock by any keeper is enough.
FlaggedGameEnds ==
  \A g \in GameIds : Active(g) /\ FlagFallen(game[g]) ~> ~Active(g)

-----------------------------------------------------------------------------
(* What the documentation says and the code does not do.                   *)

\* state.rs on move_history: a game that exceeds the history becomes Finished
\* rather than have the move refused.
FullHistoryEnds ==
  \A g \in GameIds :
    Active(g) /\ game[g].plies = MAX_MOVE_HISTORY ~> ~Active(g)

=============================================================================
