------------------------- MODULE MoveDelivery_proofs -------------------------
(***************************************************************************)
(* What the nonce buys, for every number of requests, retries and matches. *)
(***************************************************************************)
EXTENDS MoveDelivery, ChessProgram_proofs

\* Requests are made of what the account showed, and nothing else is executed.
RequestsSeen ==
  /\ \A r \in requests :
       /\ r.game \in GameIds /\ r.player \in Wallets
       /\ r.seen \in 0..MAX_MOVE_HISTORY /\ r.nonce = r.seen
  /\ \A tx \in flight : tx.req \in requests
  /\ \A a \in applied : a.req \in requests

\* What was applied in the running match lies in its past.
AppliedInPast ==
  /\ life \in [GameIds -> Nat]
  /\ \A a \in applied :
       /\ a.life =< life[a.req.game] /\ a.life \in Nat
       /\ a.life = life[a.req.game] => game[a.req.game].status # "WaitingForOpponent"
  /\ \A a \in AppliedMoves :
       a.life = life[a.req.game] /\ Active(a.req.game) => a.ply < game[a.req.game].plies

DInv == IInv /\ RequestsSeen /\ AppliedInPast /\ AppliedAsDecided /\ OneMovePerPly

\* Whatever the network does, the program takes one of its own steps, or none.
LEMMA ProgramStep == IInv /\ RequestsSeen /\ [DeliveryNext]_deliveryVars => [Next]_vars
<1>. SUFFICES ASSUME IInv, RequestsSeen, [DeliveryNext]_deliveryVars PROVE [Next]_vars
  OBVIOUS
<1>1. ASSUME NEW tx \in flight, Execute(tx) PROVE Next
  <2>1. tx.req \in requests
    BY DEF RequestsSeen
  <2>2. /\ tx.req.game \in GameIds /\ tx.req.player \in Wallets
        /\ tx.req.nonce \in 0..MAX_MOVE_HISTORY
    BY <2>1 DEF RequestsSeen
  <2>3. \/ MakeMove(tx.req.game, tx.req.player, tx.req.nonce)
        \/ OfferDraw(tx.req.game, tx.req.player)
    BY <1>1 DEF Execute
  <2>. QED
    BY <2>2, <2>3 DEF Next, GameStep
<1>2. ASSUME NEW g \in GameIds, Direct(g) PROVE Next
  BY <1>2 DEF Direct, Next, GameStep
<1>3. ASSUME NEW creator \in Creators, NEW sid \in SessionIds,
             NEW tc \in TimeControls, NEW w \in Wagers, CreateAgain(creator, sid, tc, w)
      PROVE  Next
  BY <1>3 DEF CreateAgain, Next
<1>. QED
  BY <1>1, <1>2, <1>3 DEF DeliveryNext, deliveryVars, Decide, Submit, Next

\* Requests stay made of what an account showed.
LEMMA RequestsStep ==
  IInv /\ RequestsSeen /\ [DeliveryNext]_deliveryVars => RequestsSeen'
<1>. SUFFICES ASSUME IInv, RequestsSeen, [DeliveryNext]_deliveryVars PROVE RequestsSeen'
  OBVIOUS
<1>1. ASSUME NEW id, NEW kind, NEW g \in GameIds, NEW w \in Wallets, Decide(id, kind, g, w)
      PROVE  RequestsSeen'
  <2>1. game[g].plies \in 0..MAX_MOVE_HISTORY /\ game[g].move_nonce = game[g].plies
    BY DEF IInv, TypeOK, Account, NonceNamesPly
  <2>. QED
    BY <1>1, <2>1 DEF Decide, RequestsSeen
<1>2. ASSUME NEW r \in requests, Submit(r) PROVE RequestsSeen'
  BY <1>2 DEF Submit, RequestsSeen
<1>3. ASSUME NEW tx \in flight, Execute(tx) PROVE RequestsSeen'
  BY <1>3 DEF Execute, RequestsSeen
<1>4. CASE UNCHANGED client
  BY <1>4 DEF client, RequestsSeen
<1>. QED
  BY <1>1, <1>2, <1>3, <1>4 DEF DeliveryNext, deliveryVars, CreateAgain, Direct

\* A match that runs on keeps its past; only a creation starts a new life.
LEMMA MatchGoesOn ==
  ASSUME IInv, [Next]_vars, NEW g \in GameIds
  PROVE  /\ game'[g].status = "Active" =>
              \/ game[g].status = "WaitingForOpponent"
              \/ game[g].status = "Active" /\ game[g].plies =< game'[g].plies
         /\ game'[g].status = "WaitingForOpponent" =>
              game[g].status \in {"NoAccount", "WaitingForOpponent"}
<1>1. /\ game[g] \in Account /\ AccountStep(g) /\ game[g].plies \in Nat
      /\ game[g].status \in Statuses
  <2>1. game[g] \in Account /\ AccountStep(g)
    BY AccountSteps DEF IInv, TypeOK
  <2>2. game[g].plies \in 0..MAX_MOVE_HISTORY /\ game[g].status \in Statuses
    BY <2>1 DEF Account
  <2>. QED
    BY <2>1, <2>2
<1>2. CASE Created(g) \/ Closed(g)
  <2>1. game'[g].status # "Active"
    BY <1>2, FreshAccount
  <2>2. Created(g) => game[g].status = "NoAccount"
    BY DEF Created, Exists
  <2>3. Closed(g) => game'[g].status = "NoAccount"
    BY DEF Closed, NoGame
  <2>. QED
    BY <1>2, <2>1, <2>2, <2>3
<1>3. CASE Joined(g)
  <2>1. game[g].status = "WaitingForOpponent" /\ game'[g].status = "Active"
    BY <1>1, <1>3 DEF Joined, Account
  <2>. QED
    BY <2>1
<1>4. CASE MovedOn(g)
  <2>1. game'[g].plies = game[g].plies + 1 /\ game'[g].status = game[g].status
    BY <1>1, <1>4 DEF MovedOn, Played, Account
  <2>. QED
    BY <1>1, <1>4, <2>1 DEF MovedOn, Active
<1>5. CASE MovedLast(g) \/ Flagged(g) \/ Resigned(g) \/ Agreed(g)
  <2>1. game'[g].status = "Finished"
    BY <1>1, <1>5 DEF MovedLast, Flagged, Resigned, Agreed, FinalizeGame, Played, Account
  <2>. QED
    BY <2>1
<1>6. CASE game'[g] = game[g] \/ Offered(g) \/ Watched(g)
  <2>1. game'[g].status = game[g].status /\ game'[g].plies = game[g].plies
    BY <1>1, <1>6 DEF Offered, Watched, Account
  <2>. QED
    BY <1>1, <2>1
<1>. QED
  BY <1>1, <1>2, <1>3, <1>4, <1>5, <1>6 DEF AccountStep

\* An instruction that creates nothing touches one account, which exists.
LEMMA OneAccount ==
  ASSUME NEW g \in GameIds, NEW w \in Wallets, game \in [GameIds -> Account],
         \/ JoinGame(g, w) \/ ResignGame(g, w) \/ AcceptDraw(g, w) \/ CloseGame(g, w)
         \/ OfferDraw(g, w) \/ SyncClock(g)
         \/ \E nonce \in 0..MAX_MOVE_HISTORY : MakeMove(g, w, nonce)
  PROVE  /\ game[g].status # "NoAccount"
         /\ \A h \in GameIds : h # g => game'[h] = game[h]
<1>1. ASSUME JoinGame(g, w) \/ OfferDraw(g, w) \/ CloseGame(g, w)
      PROVE  /\ game[g].status # "NoAccount"
             /\ \A h \in GameIds : h # g => game'[h] = game[h]
  BY <1>1 DEF JoinGame, OfferDraw, CloseGame, Active
<1>2. ASSUME NEW G, NEW result, NEW reason, Active(g), EndGame(g, G, result, reason)
      PROVE  /\ game[g].status # "NoAccount"
             /\ \A h \in GameIds : h # g => game'[h] = game[h]
  BY <1>2 DEF EndGame, Active
<1>3. ASSUME ResignGame(g, w) \/ AcceptDraw(g, w)
      PROVE  /\ game[g].status # "NoAccount"
             /\ \A h \in GameIds : h # g => game'[h] = game[h]
  BY <1>2, <1>3 DEF ResignGame, AcceptDraw
<1>4. ASSUME Active(g), LoseOnTime(g)
      PROVE  /\ game[g].status # "NoAccount"
             /\ \A h \in GameIds : h # g => game'[h] = game[h]
  BY <1>2, <1>4 DEF LoseOnTime
<1>5. ASSUME SyncClock(g)
      PROVE  /\ game[g].status # "NoAccount"
             /\ \A h \in GameIds : h # g => game'[h] = game[h]
  BY <1>4, <1>5 DEF SyncClock, Active
<1>6. ASSUME NEW nonce \in 0..MAX_MOVE_HISTORY, MakeMove(g, w, nonce)
      PROVE  /\ game[g].status # "NoAccount"
             /\ \A h \in GameIds : h # g => game'[h] = game[h]
  <2>1. CASE FlagFallen(game[g])
    BY <1>4, <1>6, <2>1 DEF MakeMove
  <2>2. CASE ~FlagFallen(game[g])
    <3>1. PICK o \in MoveOutcome : RecordMove(g, o)
      BY <1>6, <2>2 DEF MakeMove
    <3>2. Active(g)
      BY <1>6 DEF MakeMove
    <3>. QED
      BY <1>2, <3>1, <3>2 DEF RecordMove, Active
  <2>. QED
    BY <2>1, <2>2
<1>. QED
  BY <1>1, <1>3, <1>5, <1>6

\* Where a move was applied: in a past match, or before the present ply.
InPast(a) ==
  /\ a.life =< life[a.req.game] /\ a.life \in Nat
  /\ a.life = life[a.req.game] => game[a.req.game].status # "WaitingForOpponent"
  /\ a \in AppliedMoves /\ a.life = life[a.req.game] /\ Active(a.req.game) =>
       a.ply < game[a.req.game].plies

\* It stays there when no match begins at its address.
LEMMA PastStays ==
  ASSUME IInv, RequestsSeen, AppliedInPast, AppliedAsDecided, [Next]_vars, NEW a \in applied,
         life'[a.req.game] = life[a.req.game], applied \subseteq applied',
         game[a.req.game].status = "NoAccount" => game'[a.req.game].status = "NoAccount"
  PROVE  InPast(a)'
<1>. DEFINE g == a.req.game
<1>1. g \in GameIds
  BY DEF RequestsSeen
<1>2. a.life =< life[g] /\ a.life \in Nat
  BY DEF AppliedInPast
<1>3. game[g].plies \in Nat /\ game'[g].plies \in Nat
  <2>1. game[g] \in Account /\ game'[g] \in Account
    BY <1>1, Inductive DEF IInv, TypeOK
  <2>2. game[g].plies \in 0..MAX_MOVE_HISTORY /\ game'[g].plies \in 0..MAX_MOVE_HISTORY
    BY <2>1 DEF Account
  <2>. QED
    BY <2>2
<1>4. ASSUME a.life = life[g] PROVE game[g].status # "WaitingForOpponent"
  BY <1>4 DEF AppliedInPast
<1>5. ASSUME a.life = life[g], a.req.kind = "make_move", game'[g].status = "Active"
      PROVE  a.ply < game'[g].plies
  <2>1. game[g].status = "Active" /\ game[g].plies =< game'[g].plies
    BY <1>1, <1>4, <1>5, MatchGoesOn
  <2>2. a \in AppliedMoves
    BY <1>5 DEF AppliedMoves
  <2>3. a.ply < game[g].plies /\ a.ply = a.req.seen
    BY <1>5, <2>1, <2>2 DEF AppliedInPast, AppliedAsDecided, Active
  <2>4. a.req.seen \in 0..MAX_MOVE_HISTORY
    BY DEF RequestsSeen
  <2>. HIDE DEF g
  <2>. QED
    BY <1>3, <2>1, <2>3, <2>4
<1>6. ASSUME a.life = life[g] PROVE game'[g].status # "WaitingForOpponent"
  BY <1>1, <1>4, <1>6, MatchGoesOn
<1>. QED
  BY <1>2, <1>5, <1>6 DEF InPast, AppliedMoves, Active

\* What a step adds to the history is in the past too, and in nobody's way.
LEMMA ExecuteStep ==
  ASSUME DInv, NEW tx \in flight, Execute(tx)
  PROVE  /\ \A a \in applied' : InPast(a)'
         /\ AppliedAsDecided' /\ OneMovePerPly'
<1>. DEFINE r == tx.req
            g == r.game
<1>. PICK n : n = [req |-> r, life |-> life[g], ply |-> game[g].plies]
  OBVIOUS
<1>0. /\ IInv /\ RequestsSeen /\ AppliedInPast /\ AppliedAsDecided /\ OneMovePerPly
      /\ game \in [GameIds -> Account]
  BY DEF DInv, IInv, TypeOK
<1>1. /\ r \in requests /\ g \in GameIds /\ r.player \in Wallets
      /\ r.nonce \in 0..MAX_MOVE_HISTORY /\ r.nonce = r.seen
  <2>1. r \in requests
    BY <1>0 DEF RequestsSeen
  <2>. QED
    BY <1>0, <2>1 DEF RequestsSeen
<1>2. applied' = applied \cup {n} /\ life' = life /\ Active(g)
  BY DEF Execute, MakeMove, OfferDraw
<1>3. [Next]_vars
  BY <1>0, ProgramStep DEF DeliveryNext
<1>4. /\ game[g].status # "NoAccount"
      /\ \A h \in GameIds : h # g => game'[h] = game[h]
  BY <1>0, <1>1, OneAccount DEF Execute
<1>5. ASSUME NEW a \in applied PROVE InPast(a)'
  <2>1. a.req.game \in GameIds
    BY <1>0 DEF RequestsSeen
  <2>2. game[a.req.game].status = "NoAccount" => game'[a.req.game].status = "NoAccount"
    BY <1>4, <2>1
  <2>. QED
    BY <1>0, <1>2, <1>3, <2>2, PastStays
<1>6. /\ game[g].plies \in Nat /\ game[g].move_nonce = game[g].plies /\ life[g] \in Nat
  <2>1. game[g].plies \in 0..MAX_MOVE_HISTORY
    BY <1>0, <1>1 DEF Account
  <2>. QED
    BY <1>0, <1>1, <2>1 DEF IInv, NonceNamesPly, AppliedInPast
<1>7. ASSUME r.kind = "make_move"
      PROVE  /\ game[g].plies = r.seen
             /\ game'[g].status = "Active" => game'[g].plies = game[g].plies + 1
  <2>1. MakeMove(g, r.player, r.nonce)
    BY <1>7 DEF Execute
  <2>2. game[g].plies = r.seen
    BY <1>1, <1>6, <2>1 DEF MakeMove
  <2>3. ASSUME NEW G, NEW result, NEW reason, EndGame(g, G, result, reason)
        PROVE  game'[g].status = "Finished"
    <3>1. game'[g] = FinalizeGame(G, result, reason)
      BY <1>0, <1>1, <2>3 DEF EndGame
    <3>2. game'[g] \in Account
      BY <1>0, <1>1, <1>3, Inductive DEF IInv, TypeOK
    <3>. QED
      BY <3>1, <3>2 DEF FinalizeGame, Account
  <2>4. ASSUME game'[g].status = "Active" PROVE game'[g].plies = game[g].plies + 1
    <3>1. ~FlagFallen(game[g])
      BY <2>1, <2>3, <2>4 DEF MakeMove, LoseOnTime
    <3>2. PICK o \in MoveOutcome : RecordMove(g, o)
      BY <2>1, <3>1 DEF MakeMove
    <3>3. game' = [game EXCEPT ![g] = Played(game[g])]
      BY <2>3, <2>4, <3>2 DEF RecordMove
    <3>4. game'[g] = Played(game[g]) /\ game[g] \in Account
      BY <1>0, <1>1, <3>3
    <3>. QED
      BY <3>4 DEF Played, Account
  <2>. QED
    BY <2>2, <2>4
<1>8. InPast(n)'
  <2>1. game'[g].status # "WaitingForOpponent"
    BY <1>0, <1>1, <1>2, <1>3, MatchGoesOn DEF Active
  <2>2. n.req = r /\ n.life = life[g] /\ n.ply = game[g].plies
    OBVIOUS
  <2>3. n.req.kind = "make_move" /\ game'[g].status = "Active" => n.ply < game'[g].plies
    BY <1>6, <1>7, <2>2
  <2>. QED
    BY <1>2, <1>6, <2>1, <2>2, <2>3 DEF InPast, AppliedMoves, Active
<1>9. AppliedAsDecided'
  <2>1. n.req.kind = "make_move" => n.ply = n.req.seen
    BY <1>7
  <2>. QED
    BY <1>0, <1>2, <2>1 DEF AppliedAsDecided, AppliedMoves
<1>10. ASSUME NEW a \in applied, a.req.kind = "make_move", r.kind = "make_move", SameMatch(a, n)
       PROVE  a.req # n.req /\ a.ply # n.ply
  <2>1. a.req.game = g /\ a.life = life[g] /\ a \in AppliedMoves
    BY <1>10 DEF SameMatch, AppliedMoves
  <2>2. a.ply < game[g].plies /\ a.ply = a.req.seen
    BY <1>0, <1>2, <2>1 DEF AppliedInPast, AppliedAsDecided
  <2>3. a.req.seen \in 0..MAX_MOVE_HISTORY
    BY <1>0 DEF RequestsSeen
  <2>4. a.ply # game[g].plies
    BY <1>6, <2>2, <2>3
  <2>. QED
    BY <1>7, <1>10, <2>2, <2>4
<1>11. OneMovePerPly'
  <2>. SUFFICES ASSUME NEW a \in applied', NEW b \in applied',
                       a.req.kind = "make_move", b.req.kind = "make_move",
                       SameMatch(a, b), a.req = b.req \/ a.ply = b.ply
                PROVE  a = b
    BY DEF OneMovePerPly, AppliedMoves, SameMatch
  <2>1. n.req = r
    OBVIOUS
  <2>2. CASE a \in applied /\ b \in applied
    BY <1>0, <2>2 DEF OneMovePerPly, AppliedMoves
  <2>3. CASE a \in applied /\ b = n
    BY <1>10, <2>1, <2>3
  <2>4. CASE a = n /\ b \in applied
    <3>1. SameMatch(b, n)
      BY <2>4 DEF SameMatch
    <3>. QED
      BY <1>10, <2>1, <2>4, <3>1
  <2>. QED
    BY <1>2, <2>2, <2>3, <2>4
<1>. QED
  BY <1>2, <1>5, <1>8, <1>9, <1>11

\* The history of applied requests, whatever the step.
LEMMA DeliveryInductive == DInv /\ [DeliveryNext]_deliveryVars => DInv'
<1>. SUFFICES ASSUME DInv, [DeliveryNext]_deliveryVars PROVE DInv'
  OBVIOUS
<1>0. /\ IInv /\ RequestsSeen /\ AppliedInPast /\ AppliedAsDecided /\ OneMovePerPly
      /\ game \in [GameIds -> Account] /\ life \in [GameIds -> Nat]
  BY DEF DInv, IInv, TypeOK, AppliedInPast
<1>1. [Next]_vars /\ IInv' /\ RequestsSeen'
  BY <1>0, ProgramStep, RequestsStep, Inductive
<1>2. ASSUME \A a \in applied' : InPast(a)', life' \in [GameIds -> Nat] PROVE AppliedInPast'
  BY <1>2 DEF AppliedInPast, InPast, AppliedMoves
<1>3. ASSUME applied' = applied PROVE AppliedAsDecided' /\ OneMovePerPly'
  BY <1>0, <1>3 DEF AppliedAsDecided, OneMovePerPly, AppliedMoves, SameMatch
<1>4. ASSUME applied' = applied, life' = life,
             \A h \in GameIds : game[h].status = "NoAccount" => game'[h].status = "NoAccount"
      PROVE  DInv'
  <2>1. ASSUME NEW a \in applied PROVE InPast(a)'
    <3>1. a.req.game \in GameIds
      BY <1>0 DEF RequestsSeen
    <3>. QED
      BY <1>0, <1>1, <1>4, <3>1, PastStays
  <2>. QED
    BY <1>0, <1>1, <1>2, <1>3, <1>4, <2>1 DEF DInv
<1>5. ASSUME NEW tx \in flight, Execute(tx) PROVE DInv'
  <2>1. life' = life
    BY <1>5 DEF Execute
  <2>. QED
    BY <1>0, <1>1, <1>2, <1>5, <2>1, ExecuteStep DEF DInv
<1>6. ASSUME NEW creator \in Creators, NEW sid \in SessionIds,
             NEW tc \in TimeControls, NEW w \in Wagers, CreateAgain(creator, sid, tc, w)
      PROVE  DInv'
  <2>. DEFINE g == <<creator, sid>>
  <2>1. /\ g \in GameIds /\ applied' = applied /\ life' = [life EXCEPT ![g] = @ + 1]
        /\ game' = [game EXCEPT ![g] = NewGame(creator, tc, w)]
    BY <1>6 DEF CreateAgain, CreateGame, client, GameIds
  <2>. HIDE DEF g
  <2>2. ASSUME NEW a \in applied PROVE InPast(a)'
    <3>1. a.req.game \in GameIds /\ life[a.req.game] \in Nat
      BY <1>0 DEF RequestsSeen
    <3>2. CASE a.req.game = g
      <4>1. a.life =< life[g] /\ a.life \in Nat /\ life'[g] = life[g] + 1
        BY <1>0, <2>1, <3>2 DEF AppliedInPast
      <4>. QED
        BY <3>1, <3>2, <4>1 DEF InPast
    <3>3. CASE a.req.game # g
      <4>1. game'[a.req.game] = game[a.req.game] /\ life'[a.req.game] = life[a.req.game]
        BY <1>0, <2>1, <3>1, <3>3
      <4>. QED
        BY <1>0, <1>1, <2>1, <4>1, PastStays
    <3>. QED
      BY <3>2, <3>3
  <2>3. life' \in [GameIds -> Nat]
    BY <1>0, <2>1
  <2>. QED
    BY <1>0, <1>1, <1>2, <1>3, <2>1, <2>2, <2>3 DEF DInv
<1>7. ASSUME NEW g \in GameIds, Direct(g) PROVE DInv'
  <2>1. applied' = applied /\ life' = life
    BY <1>7 DEF Direct, client
  <2>2. PICK w \in Wallets :
          \/ JoinGame(g, w) \/ ResignGame(g, w) \/ AcceptDraw(g, w) \/ CloseGame(g, w)
          \/ SyncClock(g) \/ \E nonce \in 0..MAX_MOVE_HISTORY : MakeMove(g, w, nonce)
    <3>1. g[1] \in Wallets
      BY WalletsAssumption DEF GameIds
    <3>. QED
      BY <1>7, <3>1 DEF Direct
  <2>3. /\ game[g].status # "NoAccount"
        /\ \A h \in GameIds : h # g => game'[h] = game[h]
    BY <1>0, <2>2, OneAccount
  <2>. QED
    BY <1>4, <2>1, <2>3
<1>8. CASE /\ UNCHANGED game
           /\ applied' = applied /\ life' = life
  BY <1>4, <1>8
<1>. QED
  BY <1>5, <1>6, <1>7, <1>8
     DEF DeliveryNext, deliveryVars, Decide, Submit, Tick, vars, client

\* The history starts empty.
THEOREM DeliveryInvariance == DeliverySpec => []DInv
<1>1. DeliveryInit => DInv
  BY Initially DEF DeliveryInit, DInv, RequestsSeen, AppliedInPast, AppliedAsDecided,
                   OneMovePerPly, AppliedMoves
<1>. QED
  BY <1>1, DeliveryInductive, PTL DEF DeliverySpec

\* However transactions are delayed, lost, reordered and retried, what happens on
\* chain is a behaviour of the program: all its theorems hold behind the network.
THEOREM NetworkSafe == DeliverySpec => Spec
<1>1. DeliveryInit => Init
  BY DEF DeliveryInit
<1>2. DInv /\ [DeliveryNext]_deliveryVars => [Next]_vars
  BY ProgramStep DEF DInv
<1>. QED
  BY <1>1, <1>2, DeliveryInvariance, PTL DEF DeliverySpec, Spec

\* A move is never applied to another position than it was decided for.
THEOREM MovesFitPosition == DeliverySpec => []AppliedAsDecided
<1>1. DInv => AppliedAsDecided
  BY DEF DInv
<1>. QED
  BY <1>1, DeliveryInvariance, PTL

\* Within a match a retry never moves twice, and racing clients never both move.
THEOREM RetryMovesOnce == DeliverySpec => []OneMovePerPly
<1>1. DInv => OneMovePerPly
  BY DEF DInv
<1>. QED
  BY <1>1, DeliveryInvariance, PTL

=============================================================================
