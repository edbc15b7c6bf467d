---------------------------- MODULE MoveDelivery ----------------------------
(***************************************************************************)
(* Moves and draw offers on their way to the program.  A client looks at   *)
(* the Game account and decides; it signs a transaction and sends it, and  *)
(* signs and sends the same request again when no answer comes.  The       *)
(* network may execute what was signed late, out of order, more than once  *)
(* (a retry has its own signature) or never.  Meanwhile the game goes on,  *)
(* is closed, and is created again at the same address.                    *)
(*                                                                         *)
(* The program is ChessProgram.  The requests followed here are a few      *)
(* among all that happens to a game.                                       *)
(***************************************************************************)
EXTENDS ChessProgram, FiniteSets

CONSTANTS
  MoveIds,     \* what tells two requests of a player apart: the move, or ...
  OfferIds,    \* ... the attempt
  MaxRequests, \* bound on the number of requests
  MaxLives,    \* bound on how often a game is created at one address
  MaxRepeats   \* bound on how often one request succeeds

VARIABLES
  life,      \* history: how often a game was created at every address
  requests,  \* what players decided: the arguments of ChessClient.makeMove
  flight,    \* signed transactions, executed or not; nothing leaves the set
  applied    \* history: the executions that succeeded, and where

client == <<requests, flight, applied>>
deliveryVars == <<vars, life, client>>

\* The seats a request reads when it is signed: MakeMove names both players.
SeatsOf(g) == <<game[g].player[0], game[g].player[1]>>

\* A player decides on a move, or to offer a draw, from the account it sees; a
\* move carries the nonce seen, an offer nothing.
Decide(id, kind, g, player) ==
  LET G == game[g] IN
  /\ Cardinality(requests) < MaxRequests /\ \A r \in requests : r.id # id
  /\ Active(g) /\ IsPlayer(G, player)
  /\ kind = "make_move" => ColorOf(G, player) = G.side_to_move
  /\ requests' = requests \cup
       {[id |-> id, kind |-> kind, game |-> g, player |-> player,
         nonce |-> G.move_nonce, seen |-> G.plies]}
  /\ UNCHANGED <<vars, life, flight, applied>>

\* makeMove fetches the account for the two payees, signs and sends; a retry
\* fetches and signs again.  An offer needs nothing from the account.
Submit(r) ==
  /\ r.kind = "make_move" => Exists(r.game)
  /\ flight' = flight \cup
       {[req |-> r, seats |-> IF r.kind = "make_move" THEN SeatsOf(r.game) ELSE <<>>]}
  /\ UNCHANGED <<vars, life, requests, applied>>

Repeats(r) == Cardinality({a \in applied : a.req = r})

\* Seeded fault: whatever was sent is played, the nonce is not compared.
ExecuteAnyNonce(tx) ==
  LET r == tx.req IN
  /\ Repeats(r) < MaxRepeats
  /\ \/ /\ r.kind = "make_move"
        /\ tx.seats = SeatsOf(r.game)
        /\ MakeMove(r.game, r.player, game[r.game].move_nonce)
     \/ /\ r.kind = "offer_draw"
        /\ OfferDraw(r.game, r.player)
  /\ applied' = applied \cup {[req |-> r, life |-> life[r.game], ply |-> game[r.game].plies]}
  /\ UNCHANGED <<life, requests, flight>>

\* The cluster executes a transaction it holds; one the program rejects leaves
\* no trace.  make_move pins both payees to the account's, offer_draw has none.
Execute(tx) ==
  LET r == tx.req IN
  /\ Repeats(r) < MaxRepeats
  /\ \/ /\ r.kind = "make_move"
        /\ tx.seats = SeatsOf(r.game)
        /\ MakeMove(r.game, r.player, r.nonce)
     \/ /\ r.kind = "offer_draw"
        /\ OfferDraw(r.game, r.player)
  /\ applied' = applied \cup {[req |-> r, life |-> life[r.game], ply |-> game[r.game].plies]}
  /\ UNCHANGED <<life, requests, flight>>

\* An address that was closed can be created again.
CreateAgain(creator, sid, tc, w) ==
  LET g == <<creator, sid>> IN
  /\ life[g] < MaxLives
  /\ CreateGame(creator, sid, tc, w)
  /\ life' = [life EXCEPT ![g] = @ + 1]
  /\ UNCHANGED client

\* What else happens to a game, sent, executed and answered at once: moves too,
\* but no offers.
Direct(g) ==
  /\ \/ \E w \in Wallets :
          \/ JoinGame(g, w) \/ ResignGame(g, w) \/ AcceptDraw(g, w) \/ CloseGame(g, w)
          \/ \E nonce \in 0..MAX_MOVE_HISTORY : MakeMove(g, w, nonce)
     \/ SyncClock(g)
  /\ UNCHANGED <<life, client>>

DeliveryInit == /\ Init
                /\ life = [g \in GameIds |-> 0]
                /\ requests = {} /\ flight = {} /\ applied = {}

DeliveryNext ==
  \/ \E g \in GameIds, player \in Wallets :
       \/ \E id \in MoveIds : Decide(id, "make_move", g, player)
       \/ \E id \in OfferIds : Decide(id, "offer_draw", g, player)
  \/ \E r \in requests : Submit(r)
  \/ \E tx \in flight : Execute(tx)
  \/ \E creator \in Creators, sid \in SessionIds, tc \in TimeControls, w \in Wagers :
       CreateAgain(creator, sid, tc, w)
  \/ \E g \in GameIds : Direct(g)
  \/ Tick /\ UNCHANGED <<life, client>>

DeliverySpec == DeliveryInit /\ [][DeliveryNext]_deliveryVars

-----------------------------------------------------------------------------
(* Safety.                                                                 *)

AppliedMoves == {a \in applied : a.req.kind = "make_move"}

\* Two executions in the same match.
SameMatch(a, b) == a.req.game = b.req.game /\ a.life = b.life

\* A move takes effect at the ply its player decided it for or not at all,
\* however late or often it is executed and whatever was played meanwhile.
AppliedAsDecided == \A a \in AppliedMoves : a.ply = a.req.seen

\* In one match no request moves twice, and of all requests that were decided
\* for a ply, by two clients of one player, say, only one is played.
OneMovePerPly ==
  \A a, b \in AppliedMoves :
    SameMatch(a, b) /\ (a.req = b.req \/ a.ply = b.ply) => a = b

-----------------------------------------------------------------------------
(* What the documentation says and the code does not do.                   *)

\* README.md on the nonce: a retried transaction cannot apply the same move twice.
\* The nonce starts at 0 again in the next match at the same address.
MovesApplyOnce == \A a, b \in AppliedMoves : a.req = b.req => a = b

\* README.md on races: the nonce closes the window where a retry applies twice.
\* offer_draw carries no nonce, and re-arms the offer a move has declined.
RetriesApplyOnce == \A a, b \in applied : SameMatch(a, b) /\ a.req = b.req => a = b

=============================================================================
