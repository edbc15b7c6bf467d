-------------------------- MODULE BoardMatch_proofs --------------------------
(***************************************************************************)
(* The program with the engine inside is the program, for every set of      *)
(* lines the players may choose from.                                       *)
(***************************************************************************)
EXTENDS BoardMatch, ChessProgram_proofs, ChessEngine_proofs

\* What BoardNext keeps besides the program's own invariant.
HistoryTyped == /\ history \in [GameIds -> Seq(0..MAX_U16)]
                /\ DOMAIN board = GameIds

BInv == IInv /\ HistoryTyped /\ CountersInStep

\* What a report says of check, mate and stalemate.
LEMMA OutcomeFields ==
  ASSUME NEW s, NEW from, NEW to, NEW t
  PROVE  LET o == Outcome(s, from, to, t)
             check == InCheck(t.squares, t.side_to_move)
             any == AnyLegal(t)
         IN /\ check \in BOOLEAN /\ any \in BOOLEAN
            /\ o.is_check = check
            /\ o.is_mate = (check /\ ~any)
            /\ o.is_stalemate = (~check /\ ~any)
            /\ o.draw_50_move = (t.halfmove_clock >= 100)
            /\ o.draw_insufficient = IsInsufficientMaterial(t)
<1>1. InCheck(t.squares, t.side_to_move) \in BOOLEAN
  BY DEF InCheck, IsSquareAttacked
<1>2. AnyLegal(t) \in BOOLEAN
  BY DEF AnyLegal
<1>. QED
  BY <1>1, <1>2 DEF Outcome

\* The engine's report, as make_move acts on it, is one of the outcomes
\* ChessProgram allows for.
LEMMA VerdictInRange ==
  ASSUME NEW mv, NEW s, NEW t
  PROVE  Verdict(mv, s, t) \in MoveOutcome
<1>. DEFINE o == Outcome(s, mv.from, mv.to, t)
            check == InCheck(t.squares, t.side_to_move)
            any == AnyLegal(t)
            v == Verdict(mv, s, t)
<1>1. /\ o.is_check \in BOOLEAN /\ o.is_mate \in BOOLEAN /\ o.is_stalemate \in BOOLEAN
      /\ o.is_mate => o.is_check
      /\ o.is_stalemate => ~o.is_check
  <2>1. /\ check \in BOOLEAN /\ any \in BOOLEAN
        /\ o.is_check = check
        /\ o.is_mate = (check /\ ~any)
        /\ o.is_stalemate = (~check /\ ~any)
    BY OutcomeFields
  <2>. HIDE DEF o, check, any
  <2>. QED
    BY <2>1
<1>2. v = [is_check |-> o.is_check, is_mate |-> o.is_mate, is_stalemate |-> o.is_stalemate,
           draw_50_move |-> v.draw_50_move, draw_insufficient |-> v.draw_insufficient]
  BY DEF Verdict
<1>3. v.draw_50_move \in BOOLEAN /\ v.draw_insufficient \in BOOLEAN
  BY DEF Verdict
<1>. HIDE DEF o, v
<1>. QED
  BY <1>1, <1>2, <1>3 DEF MoveOutcome, v

\* What the counters of an address rest on.
KeepsPlies(h) ==
  /\ game'[h].plies = game[h].plies /\ game'[h].move_nonce = game[h].move_nonce
  /\ game'[h].side_to_move = game[h].side_to_move
  /\ game'[h].status # "NoAccount" => game[h].status # "NoAccount"

\* The end of a game leaves the counters alone.
LEMMA EndKeepsPlies ==
  ASSUME game \in [GameIds -> Account], NEW g \in GameIds, NEW h \in GameIds, Active(g),
         NEW result, NEW reason,
         \/ EndGame(g, game[g], result, reason)
         \/ LoseOnTime(g)
  PROVE  KeepsPlies(h)
<1>0. game[g] \in Account
  OBVIOUS
<1>1. CASE EndGame(g, game[g], result, reason)
  BY <1>0, <1>1 DEF EndGame, FinalizeGame, KeepsPlies, Active, Account
<1>2. CASE LoseOnTime(g)
  <2>. DEFINE G == game[g]
              H == [G EXCEPT !.clock_ms[G.side_to_move] = 0]
  <2>1. /\ H.plies = G.plies /\ H.move_nonce = G.move_nonce
        /\ H.side_to_move = G.side_to_move /\ H.status = G.status
        /\ DOMAIN H = DOMAIN G
    BY <1>0 DEF Account
  <2>2. EndGame(g, H, Wins(1 - G.side_to_move), "Timeout")
    BY <1>2 DEF LoseOnTime
  <2>3. game'[g] = FinalizeGame(H, Wins(1 - G.side_to_move), "Timeout")
        /\ (h # g => game'[h] = game[h])
    BY <2>2 DEF EndGame
  <2>4. G.status # "NoAccount"
    BY DEF Active
  <2>. HIDE DEF H
  <2>5. LET F == FinalizeGame(H, Wins(1 - G.side_to_move), "Timeout") IN
        F.plies = H.plies /\ F.move_nonce = H.move_nonce /\ F.side_to_move = H.side_to_move
    BY <1>0, <2>1 DEF FinalizeGame, Account
  <2>6. CASE h = g
    BY <2>1, <2>3, <2>4, <2>5, <2>6 DEF KeepsPlies
  <2>7. CASE h # g
    BY <2>3, <2>7 DEF KeepsPlies
  <2>. QED
    BY <2>6, <2>7
<1>. QED
  BY <1>1, <1>2

\* Off the board, no instruction counts a ply or creates an account.
LEMMA OffBoardKeepsPlies ==
  ASSUME game \in [GameIds -> Account], NEW g \in GameIds, NEW h \in GameIds, OffBoard(g)
  PROVE  KeepsPlies(h)
<1>0. game[g] \in Account
  OBVIOUS
<1>1. ASSUME NEW w \in Wallets, JoinGame(g, w) PROVE KeepsPlies(h)
  BY <1>0, <1>1 DEF JoinGame, KeepsPlies, Account
<1>2. ASSUME NEW w \in Wallets, OfferDraw(g, w) PROVE KeepsPlies(h)
  BY <1>0, <1>2 DEF OfferDraw, KeepsPlies, Account, Active
<1>3. ASSUME NEW w \in Wallets, ResignGame(g, w) PROVE KeepsPlies(h)
  BY <1>3, EndKeepsPlies DEF ResignGame
<1>4. ASSUME NEW w \in Wallets, AcceptDraw(g, w) PROVE KeepsPlies(h)
  BY <1>4, EndKeepsPlies DEF AcceptDraw
<1>5. ASSUME SyncClock(g) PROVE KeepsPlies(h)
  BY <1>5, EndKeepsPlies DEF SyncClock, KeepsPlies
<1>6. ASSUME NEW kind \in ReactionKinds, NEW register \in BOOLEAN,
             RecordReaction(g, kind, register)
      PROVE  KeepsPlies(h)
  BY <1>0, <1>6 DEF RecordReaction, KeepsPlies, Account
<1>7. ASSUME NEW w \in Wallets, NEW amount \in Deposits, Deposit(w, g, amount)
      PROVE  KeepsPlies(h)
  BY <1>7 DEF Deposit, KeepsPlies
<1>. QED
  BY <1>1, <1>2, <1>3, <1>4, <1>5, <1>6, <1>7 DEF OffBoard

\* With the counters in step, a step on the board is a step of the program.
LEMMA ProgramStep == BInv /\ [BoardNext]_boardVars => [Next]_vars
<1>. SUFFICES ASSUME BInv, [BoardNext]_boardVars PROVE [Next]_vars
  OBVIOUS
<1>1. ASSUME NEW g \in GameIds, NEW w \in Wallets, NEW nonce \in 0..MAX_MOVE_HISTORY,
             NEW mv, PlayMove(g, w, nonce, mv)
      PROVE  Next
  <2>. DEFINE next == Apply(board[g], mv.from, mv.to, mv.promotion)
  <2>1. Verdict(mv, board[g], next) \in MoveOutcome
    BY VerdictInRange
  <2>2. Exists(g) => game[g].plies = Len(history[g])
    BY DEF BInv, CountersInStep
  <2>3. Active(g) => Exists(g)
    BY DEF Active, Exists
  <2>. HIDE DEF next
  <2>4. MakeMove(g, w, nonce)
    BY <1>1, <2>1, <2>2, <2>3 DEF PlayMove, MakeMove, next
  <2>. QED
    BY <2>4 DEF Next, GameStep
<1>2. ASSUME NEW g \in GameIds, OffBoard(g) PROVE Next
  BY <1>2 DEF OffBoard, Next, GameStep
<1>3. ASSUME NEW g \in GameIds, NEW w \in Wallets, Remove(g, w) PROVE Next
  BY <1>3 DEF Remove, Next, GameStep
<1>4. ASSUME NEW creator \in Creators, NEW sid \in SessionIds,
             NEW tc \in TimeControls, NEW w \in Wagers, SetUp(creator, sid, tc, w)
      PROVE  Next
  BY <1>4 DEF SetUp, Next
<1>. QED
  BY <1>1, <1>2, <1>3, <1>4 DEF BoardNext, boardVars, Next

\* One ply on the board: the counters of its account after PlayMove.
LEMMA PlyCounted ==
  ASSUME BInv, NEW g \in GameIds, NEW w \in Wallets, NEW nonce \in 0..MAX_MOVE_HISTORY,
         NEW mv, PlayMove(g, w, nonce, mv), NEW h \in GameIds
  PROVE  \/ KeepsPlies(h) /\ board'[h] = board[h] /\ history'[h] = history[h]
         \/ /\ h = g /\ Exists(g)
            /\ game'[h].plies = game[h].plies + 1
            /\ board'[h] = Apply(board[h], mv.from, mv.to, mv.promotion)
            /\ history'[h] = Append(history[h], Pack(mv.from, mv.to, mv.promotion))
<1>0. /\ game \in [GameIds -> Account] /\ game[g] \in Account
      /\ DOMAIN board = GameIds /\ DOMAIN history = GameIds
  BY DEF BInv, IInv, TypeOK, HistoryTyped
<1>1. CASE LoseOnTime(g) /\ UNCHANGED <<board, history>>
  <2>1. Active(g)
    BY DEF PlayMove
  <2>. QED
    BY <1>0, <1>1, <2>1, EndKeepsPlies
<1>2. ASSUME NEW o, RecordMove(g, o)
      PROVE  /\ game'[g].plies = game[g].plies + 1
             /\ h # g => game'[h] = game[h]
  <2>1. Played(game[g]).plies = game[g].plies + 1 /\ DOMAIN Played(game[g]) = DOMAIN game[g]
    BY <1>0 DEF Played, Account
  <2>2. ASSUME NEW r, NEW reason
        PROVE  FinalizeGame(Played(game[g]), r, reason).plies = Played(game[g]).plies
    BY <1>0, <2>1 DEF FinalizeGame, Account
  <2>. QED
    BY <1>0, <1>2, <2>1, <2>2 DEF RecordMove, EndGame
<1>3. Exists(g)
  BY DEF PlayMove, Active, Exists
<1>4. CASE /\ RecordMove(g, Verdict(mv, board[g], Apply(board[g], mv.from, mv.to, mv.promotion)))
           /\ board' = [board EXCEPT ![g] = Apply(board[g], mv.from, mv.to, mv.promotion)]
           /\ history' = [history EXCEPT ![g] = Append(@, Pack(mv.from, mv.to, mv.promotion))]
  BY <1>0, <1>2, <1>3, <1>4 DEF KeepsPlies
<1>. QED
  BY <1>1, <1>4 DEF PlayMove

\* A move sent has the fields and widths of a packed move.
LEMMA CandidateType ==
  ASSUME NEW g, Len(history[g]) \in Nat, NEW mv \in Candidates(g)
  PROVE  mv \in [from : Square, to : Square, promotion : 0..MAX_U8]
<1>. DEFINE S == [from : Square, to : Square, promotion : 0..MAX_U8]
<1>0. CASE mv = Refused
  <2>1. 0 \in Square /\ 0 \in 0..MAX_U8
    BY DEF Square, MAX_U8
  <2>. QED
    BY <1>0, <2>1 DEF Refused
<1>. SUFFICES ASSUME mv # Refused PROVE mv \in S
  BY <1>0
<1>1. PICK line \in Lines : Len(history[g]) < Len(line) /\ mv = line[Len(history[g]) + 1]
  BY DEF Candidates
<1>2. line \in Seq(S)
  BY LinesAssumption
<1>. HIDE DEF S
<1>3. Len(history[g]) + 1 \in 1..Len(line)
  BY <1>1, <1>2
<1>4. mv \in S
  BY <1>1, <1>2, <1>3
<1>. QED
  BY <1>4 DEF S

\* A longer history is a history.
LEMMA AppendType ==
  ASSUME NEW S, NEW h \in Seq(S), NEW x \in S
  PROVE  Append(h, x) \in Seq(S) /\ Len(Append(h, x)) = Len(h) + 1
OBVIOUS

\* A remainder is smaller than what it is taken by.
LEMMA Remainder ==
  ASSUME NEW n \in Nat, NEW max \in Nat
  PROVE  n % (max + 1) \in 0..max
OBVIOUS

\* An entry of the history fits in its 16 bits.
LEMMA PackWidth ==
  ASSUME NEW from \in Nat, NEW to \in Nat, NEW promotion \in Nat
  PROVE  Pack(from, to, promotion) \in 0..MAX_U16
<1>1. promotion * 4096 + to * 64 + from \in Nat
  OBVIOUS
<1>2. MAX_U16 \in Nat
  BY DEF MAX_U16
<1>. QED
  BY <1>1, <1>2, Remainder DEF Pack

\* CountersInStep at one address; the nonce and the handler's side to move are
\* NonceNamesPly's.
InStep(h) ==
  game[h].status # "NoAccount" =>
    LET n == Len(history[h]) IN
    /\ game[h].plies = n
    /\ board[h].side_to_move = n % 2
    /\ board[h].fullmove_number = 1 + (n \div 2)

\* Side and move number of successive plies.
LEMMA NextPly ==
  ASSUME NEW n \in Nat, NEW max \in Nat, n + 1 =< max
  PROVE  /\ n % 2 \in {0, 1} /\ n \div 2 \in Nat /\ (n + 1) % 2 = 1 - (n % 2)
         /\ (n + 1) \div 2 = (n \div 2) + (n % 2)
         /\ n % 2 = 1 => 1 + (n \div 2) < max
OBVIOUS

\* The side to move and the move number after one more ply.
LEMMA ApplyCounts ==
  ASSUME NEW s, NEW mv, NEW n \in 0..U16_MAX, n + 1 =< U16_MAX,
         s.side_to_move = n % 2, s.fullmove_number = 1 + (n \div 2)
  PROVE  LET t == Apply(s, mv.from, mv.to, mv.promotion) IN
         /\ t.side_to_move = (n + 1) % 2
         /\ t.fullmove_number = 1 + ((n + 1) \div 2)
<1>. DEFINE t == Apply(s, mv.from, mv.to, mv.promotion)
<1>1. /\ t.side_to_move = 1 - s.side_to_move
      /\ t.fullmove_number = IF s.side_to_move = 1
                             THEN SaturatingInc(s.fullmove_number, U16_MAX)
                             ELSE s.fullmove_number
  BY SameWidthAssumption DEF Apply
<1>. HIDE DEF t
<1>2. U16_MAX \in Nat /\ n \in Nat
  BY WidthAssumption
<1>3. /\ n % 2 \in {0, 1} /\ n \div 2 \in Nat /\ (n + 1) % 2 = 1 - (n % 2)
      /\ (n + 1) \div 2 = (n \div 2) + (n % 2)
      /\ n % 2 = 1 => 1 + (n \div 2) < U16_MAX
  BY <1>2, NextPly
<1>4. n % 2 = 1 => SaturatingInc(1 + (n \div 2), U16_MAX) = 2 + (n \div 2)
  BY <1>2, <1>3 DEF SaturatingInc
<1>. QED
  BY <1>1, <1>2, <1>3, <1>4 DEF t

\* The counters of every address after any step.
AllInStep == \A h \in GameIds : InStep(h)

\* Every step of the program keeps the five counters together.
LEMMA CountersStep == BInv /\ [BoardNext]_boardVars => BInv'
<1>. SUFFICES ASSUME BInv, [BoardNext]_boardVars PROVE BInv'
  OBVIOUS
<1>0. /\ IInv /\ IInv' /\ TypeOK
      /\ game \in [GameIds -> Account]
      /\ history \in [GameIds -> Seq(0..MAX_U16)] /\ DOMAIN board = GameIds
      /\ \A h \in GameIds : InStep(h)
  <2>1. [Next]_vars
    BY ProgramStep
  <2>2. \A h \in GameIds : InStep(h)
    BY DEF BInv, CountersInStep, InStep, Exists
  <2>3. IInv /\ IInv' /\ TypeOK
    BY <2>1, Inductive DEF BInv, IInv
  <2>. QED
    BY <2>2, <2>3 DEF BInv, TypeOK, HistoryTyped
<1>1. ASSUME NEW h \in GameIds, KeepsPlies(h), board'[h] = board[h], history'[h] = history[h]
      PROVE  InStep(h)'
  BY <1>0, <1>1 DEF KeepsPlies, InStep
<1>2. ASSUME NEW g \in GameIds, NEW w \in Wallets, NEW nonce \in 0..MAX_MOVE_HISTORY,
             NEW mv \in Candidates(g), PlayMove(g, w, nonce, mv)
      PROVE  HistoryTyped' /\ AllInStep'
  <2>1. history[g] \in Seq(0..MAX_U16) /\ Len(history[g]) \in Nat
    BY <1>0
  <2>2. Pack(mv.from, mv.to, mv.promotion) \in 0..MAX_U16
    <3>1. mv \in [from : Square, to : Square, promotion : 0..MAX_U8]
      BY <2>1, CandidateType
    <3>2. mv.from \in Nat /\ mv.to \in Nat /\ mv.promotion \in Nat
      BY <3>1 DEF Square, MAX_U8
    <3>. QED
      BY <3>2, PackWidth
  <2>3. HistoryTyped'
    <3>. DEFINE p == Pack(mv.from, mv.to, mv.promotion)
                S == 0..MAX_U16
    <3>1. Append(history[g], p) \in Seq(S)
      BY <2>1, <2>2, AppendType
    <3>2. \/ UNCHANGED <<board, history>>
          \/ /\ DOMAIN board' = DOMAIN board
             /\ history' = [history EXCEPT ![g] = Append(history[g], p)]
      BY <1>2 DEF PlayMove
    <3>3. history \in [GameIds -> Seq(S)] /\ DOMAIN board = GameIds
      BY <1>0
    <3>. HIDE DEF p, S
    <3>4. history' \in [GameIds -> Seq(S)] /\ DOMAIN board' = GameIds
      BY <3>1, <3>2, <3>3
    <3>. QED
      BY <3>4 DEF HistoryTyped, S
  <2>4. ASSUME NEW h \in GameIds PROVE InStep(h)'
    <3>1. CASE KeepsPlies(h) /\ board'[h] = board[h] /\ history'[h] = history[h]
      BY <3>1, <1>1
    <3>2. CASE /\ h = g /\ Exists(g)
               /\ game'[h].plies = game[h].plies + 1
               /\ board'[h] = Apply(board[h], mv.from, mv.to, mv.promotion)
               /\ history'[h] = Append(history[h], Pack(mv.from, mv.to, mv.promotion))
      <4>. DEFINE n == Len(history[h])
      <4>1. /\ n \in Nat /\ game[h].plies = n
            /\ board[h].side_to_move = n % 2 /\ board[h].fullmove_number = 1 + (n \div 2)
        BY <1>0, <2>1, <3>2 DEF InStep, Exists
      <4>2. game'[h].plies \in 0..MAX_MOVE_HISTORY /\ MAX_MOVE_HISTORY =< U16_MAX
        BY <1>0, WidthAssumption DEF IInv, TypeOK, Account
      <4>3. n \in 0..U16_MAX /\ n + 1 =< U16_MAX
        BY <4>1, <4>2, <3>2, WidthAssumption
      <4>5. Len(history'[h]) = n + 1
        BY <2>1, <2>2, <3>2, AppendType
      <4>. HIDE DEF n
      <4>4. /\ board'[h].side_to_move = (n + 1) % 2
            /\ board'[h].fullmove_number = 1 + ((n + 1) \div 2)
        <5>1. LET t == Apply(board[h], mv.from, mv.to, mv.promotion) IN
              t.side_to_move = (n + 1) % 2 /\ t.fullmove_number = 1 + ((n + 1) \div 2)
          BY <4>1, <4>3, ApplyCounts
        <5>. QED
          BY <3>2, <5>1
      <4>. QED
        BY <3>2, <4>1, <4>4, <4>5 DEF InStep, n
    <3>. QED
      BY <1>2, <3>1, <3>2, PlyCounted
  <2>. QED
    BY <2>3, <2>4 DEF AllInStep
<1>3. ASSUME NEW g \in GameIds, OffBoard(g)
      PROVE  HistoryTyped' /\ AllInStep'
  BY <1>0, <1>1, <1>3, OffBoardKeepsPlies DEF OffBoard, HistoryTyped, AllInStep
<1>4. ASSUME NEW g \in GameIds, NEW w \in Wallets, Remove(g, w)
      PROVE  HistoryTyped' /\ AllInStep'
  <2>1. HistoryTyped'
    BY <1>0, <1>4 DEF Remove, HistoryTyped
  <2>2. ASSUME NEW h \in GameIds PROVE InStep(h)'
    BY <1>0, <1>4 DEF Remove, CloseGame, NoGame, InStep
  <2>. QED
    BY <2>1, <2>2 DEF AllInStep
<1>5. ASSUME NEW creator \in Creators, NEW sid \in SessionIds,
             NEW tc \in TimeControls, NEW w \in Wagers, SetUp(creator, sid, tc, w)
      PROVE  HistoryTyped' /\ AllInStep'
  <2>1. HistoryTyped'
    <3>1. <<>> \in Seq(0..MAX_U16)
      OBVIOUS
    <3>2. /\ DOMAIN board' = DOMAIN board
          /\ history' = [history EXCEPT ![<<creator, sid>>] = <<>>]
      BY <1>5 DEF SetUp
    <3>. QED
      BY <1>0, <3>1, <3>2 DEF HistoryTyped
  <2>2. /\ Initial.side_to_move = 0 /\ Initial.fullmove_number = 1
        /\ NewGame(creator, tc, w).plies = 0
    BY DEF Initial, NewGame
  <2>3. ASSUME NEW h \in GameIds PROVE InStep(h)'
    <3>1. CASE h = <<creator, sid>>
      BY <1>0, <1>5, <2>2, <3>1 DEF SetUp, CreateGame, InStep
    <3>2. CASE h # <<creator, sid>>
      BY <1>0, <1>5, <3>2 DEF SetUp, CreateGame, InStep
    <3>. QED
      BY <3>1, <3>2
  <2>. QED
    BY <2>1, <2>3 DEF AllInStep
<1>6. ASSUME (Tick /\ UNCHANGED <<board, history>>) \/ UNCHANGED boardVars
      PROVE  HistoryTyped' /\ AllInStep'
  <2>1. game' = game /\ board' = board /\ history' = history
    BY <1>6 DEF Tick, boardVars, vars
  <2>2. HistoryTyped'
    BY <1>0, <2>1 DEF HistoryTyped
  <2>3. ASSUME NEW h \in GameIds PROVE InStep(h)'
    <3>1. KeepsPlies(h)
      BY <2>1 DEF KeepsPlies
    <3>. QED
      BY <1>1, <2>1, <3>1
  <2>. QED
    BY <2>2, <2>3 DEF AllInStep
<1>7. HistoryTyped' /\ AllInStep'
  <2>1. ASSUME BoardNext PROVE HistoryTyped' /\ AllInStep'
    <3>1. \/ \E creator \in Creators, sid \in SessionIds, tc \in TimeControls, w \in Wagers :
               SetUp(creator, sid, tc, w)
          \/ \E g \in GameIds, w \in Wallets, nonce \in 0..MAX_MOVE_HISTORY :
               \E mv \in Candidates(g) : PlayMove(g, w, nonce, mv)
          \/ \E g \in GameIds, w \in Wallets : Remove(g, w)
          \/ \E g \in GameIds : OffBoard(g)
          \/ Tick /\ UNCHANGED <<board, history>>
      BY <2>1 DEF BoardNext
    <3>2. ASSUME \E creator \in Creators, sid \in SessionIds, tc \in TimeControls, w \in Wagers :
                   SetUp(creator, sid, tc, w)
          PROVE  HistoryTyped' /\ AllInStep'
      BY <3>2, <1>5
    <3>3. ASSUME \E g \in GameIds, w \in Wallets, nonce \in 0..MAX_MOVE_HISTORY :
                   \E mv \in Candidates(g) : PlayMove(g, w, nonce, mv)
          PROVE  HistoryTyped' /\ AllInStep'
      BY <3>3, <1>2
    <3>4. ASSUME \E g \in GameIds, w \in Wallets : Remove(g, w) PROVE HistoryTyped' /\ AllInStep'
      BY <3>4, <1>4
    <3>5. ASSUME \E g \in GameIds : OffBoard(g) PROVE HistoryTyped' /\ AllInStep'
      BY <3>5, <1>3
    <3>. QED
      BY <3>1, <3>2, <3>3, <3>4, <3>5, <1>6
  <2>. QED
    BY <2>1, <1>6
<1>8. CountersInStep'
  <2>. SUFFICES ASSUME NEW h \in GameIds, game'[h].status # "NoAccount"
                PROVE  LET G == game'[h] n == Len(history'[h]) IN
                       /\ G.plies = n /\ G.move_nonce = n
                       /\ board'[h].side_to_move = G.side_to_move
                       /\ board'[h].side_to_move = n % 2
                       /\ board'[h].fullmove_number = 1 + (n \div 2)
    BY DEF CountersInStep, Exists
  <2>1. InStep(h)'
    BY <1>7 DEF AllInStep
  <2>2. game'[h].move_nonce = game'[h].plies /\ game'[h].side_to_move = game'[h].plies % 2
    BY <1>0 DEF IInv, NonceNamesPly
  <2>. QED
    BY <2>1, <2>2 DEF InStep
<1>. QED
  BY <1>0, <1>7, <1>8 DEF BInv

\* No account, nothing to keep together.
LEMMA BoardInitially == BoardInit => BInv
<1>. SUFFICES ASSUME BoardInit PROVE BInv
  OBVIOUS
<1>1. IInv
  BY Initially DEF BoardInit
<1>2. \A g \in GameIds : game[g].status = "NoAccount"
  BY DEF BoardInit, Init, NoGame
<1>3. <<>> \in Seq(0..MAX_U16)
  OBVIOUS
<1>. QED
  BY <1>1, <1>2, <1>3 DEF BoardInit, BInv, HistoryTyped, CountersInStep, Exists

\* The counters and the types of board and history, with everything proved of
\* the program, are invariant.
THEOREM BoardInvariance == BoardSpec => []BInv
<1>1. BoardInit => BInv
  BY BoardInitially
<1>2. BInv /\ [BoardNext]_boardVars => BInv'
  BY CountersStep
<1>. QED
  BY <1>1, <1>2, PTL DEF BoardSpec

\* The program that runs the engine is an implementation of the program whose
\* moves have any outcome at all: whatever is proved of Spec holds of it, the
\* outcomes the engine reports are the ones Spec allows for, and the history is
\* full exactly when the ply counter says so.
THEOREM EngineInside == BoardSpec => Spec
<1>1. BoardInit => Init
  BY DEF BoardInit
<1>2. BInv /\ [BoardNext]_boardVars => [Next]_vars
  BY ProgramStep
<1>. QED
  BY <1>1, <1>2, BoardInvariance, PTL DEF BoardSpec, Spec

\* Nonce, history, ply count, move number and side to move never drift apart, for
\* games of any length that fits the history.
THEOREM CountersSound == BoardSpec => []CountersInStep
<1>1. BInv => CountersInStep
  BY DEF BInv
<1>. QED
  BY <1>1, BoardInvariance, PTL

-----------------------------------------------------------------------------
(* Verdicts.                                                               *)

\* The opening is not the end of the game.
LEMMA OpeningStatus == ComputeStatus(Initial) = "Ongoing"
<1>1. AnyLegal(Initial) /\ Initial.squares[8] = Pawn
  BY OpeningGoesOn
<1>2. ~IsInsufficientMaterial(Initial)
  <2>1. Pawn = Make(Pawn, 0) /\ 8 \in Square
    BY DEF Make, Square
  <2>. QED
    BY <1>1, <2>1 DEF IsInsufficientMaterial, Squares
<1>3. Initial.halfmove_clock = 0
  BY DEF Initial
<1>. QED
  BY <1>1, <1>2, <1>3 DEF ComputeStatus

\* A legal move leads from a position in order to a position in order, and there
\* is a king to be mated in it.
LEMMA PositionKept ==
  ASSUME NEW s, Typed(s), InOrder(s), NEW from \in Square, NEW to \in Square,
         NEW promotion, Legal(s, from, to, promotion),
         NEW t, t = Apply(s, from, to, promotion)
  PROVE  /\ Typed(t) /\ InOrder(t)
         /\ Kings(t.squares, t.side_to_move) # {}
<1>1. Typed(t) /\ InOrder(t)
  BY TypedAfter, OrderKept
<1>2. t.side_to_move \in {0, 1}
  BY <1>1 DEF Typed
<1>. QED
  BY <1>1, <1>2 DEF InOrder, KingsInOrder

\* What make_move makes of a move is what compute_status says of the position it
\* leads to: make_move's own order of the cases agrees, and the second look at
\* the draws never finds one that apply_move has missed.
LEMMA VerdictIsStatus ==
  ASSUME NEW s, NEW mv, NEW t, Kings(t.squares, t.side_to_move) # {},
         NEW v, v = Verdict(mv, s, t)
  PROVE  ComputeStatus(t) = IF Terminal(v) THEN ReasonOf(v) ELSE "Ongoing"
<1>. DEFINE o == Outcome(s, mv.from, mv.to, t)
            check == InCheck(t.squares, t.side_to_move)
            any == AnyLegal(t)
            fifty == t.halfmove_clock >= 100
            bare == IsInsufficientMaterial(t)
            status == ComputeStatus(t)
<1>1. /\ check \in BOOLEAN /\ any \in BOOLEAN /\ fifty \in BOOLEAN /\ bare \in BOOLEAN
      /\ o.is_mate = (check /\ ~any) /\ o.is_stalemate = (~check /\ ~any)
      /\ o.draw_50_move = fifty /\ o.draw_insufficient = bare
  <2>1. bare \in BOOLEAN
    BY DEF IsInsufficientMaterial
  <2>2. fifty \in BOOLEAN
    OBVIOUS
  <2>. QED
    BY <2>1, <2>2, OutcomeFields
<1>2. status = IF ~any THEN IF check THEN "Checkmate" ELSE "Stalemate"
               ELSE IF fifty THEN "FiftyMove"
               ELSE IF bare THEN "InsufficientMaterial" ELSE "Ongoing"
  BY DEF ComputeStatus
<1>3. /\ v.is_mate = o.is_mate /\ v.is_stalemate = o.is_stalemate
      /\ v.draw_50_move = (o.draw_50_move \/ (~Terminal(o) /\ status = "FiftyMove"))
      /\ v.draw_insufficient =
           (o.draw_insufficient \/ (~Terminal(o) /\ status = "InsufficientMaterial"))
  BY DEF Verdict
<1>. HIDE DEF o, check, any, fifty, bare, status
<1>4. Terminal(o) <=> ~any \/ fifty \/ bare
  BY <1>1 DEF Terminal
<1>5. ~Terminal(o) => status = "Ongoing"
  BY <1>2, <1>4
<1>6. /\ v.is_mate = (check /\ ~any) /\ v.is_stalemate = (~check /\ ~any)
      /\ v.draw_50_move = fifty /\ v.draw_insufficient = bare
  BY <1>1, <1>3, <1>5
<1>7. status = IF Terminal(v) THEN ReasonOf(v) ELSE "Ongoing"
  BY <1>1, <1>2, <1>6 DEF Terminal, ReasonOf
<1>. QED
  BY <1>7 DEF status

\* An account's board is one a game can come to, and its end what it deserves.
VerdictAt(g) ==
  Exists(g) => /\ Typed(board[g]) /\ InOrder(board[g])
               /\ LET status == ComputeStatus(board[g]) IN
                  IF game[g].end_reason \in Verdicts THEN status = game[g].end_reason
                                                     ELSE status = "Ongoing"

\* A step that leaves the board alone gives no verdict.
KeepsVerdict(h) ==
  /\ Exists(h)' => Exists(h)
  /\ \/ game'[h].end_reason = game[h].end_reason
     \/ Active(h) /\ game'[h].end_reason \notin Verdicts

\* A verdict stands as long as board and end reason do.
LEMMA VerdictStays ==
  ASSUME BInv, NEW h \in GameIds, VerdictAt(h), KeepsVerdict(h), board'[h] = board[h]
  PROVE  VerdictAt(h)'
<1>1. CASE game'[h].end_reason = game[h].end_reason
  BY <1>1 DEF VerdictAt, KeepsVerdict
<1>2. CASE Active(h) /\ game'[h].end_reason \notin Verdicts
  <2>1. game[h].end_reason = "None" /\ Exists(h)
    BY <1>2 DEF BInv, IInv, OutcomeFitsReason, Active, Exists
  <2>. QED
    BY <1>2, <2>1 DEF VerdictAt, Verdicts
<1>. QED
  BY <1>1, <1>2 DEF KeepsVerdict

\* An end by resignation, agreement or flag is not a verdict of the board.
LEMMA EndKeepsVerdict ==
  ASSUME game \in [GameIds -> Account], NEW g \in GameIds, NEW h \in GameIds, Active(g),
         NEW G \in Account, NEW result, NEW reason, reason \notin Verdicts,
         EndGame(g, G, result, reason)
  PROVE  KeepsVerdict(h)
<1>1. FinalizeGame(G, result, reason).end_reason = reason
  BY DEF FinalizeGame, Account
<1>2. game'[h] = IF h = g THEN FinalizeGame(G, result, reason) ELSE game[h]
  BY DEF EndGame
<1>. QED
  BY <1>1, <1>2 DEF KeepsVerdict, Active, Exists

\* Nor is a flag that falls on a move.
LEMMA FlagKeepsVerdict ==
  ASSUME game \in [GameIds -> Account], NEW g \in GameIds, NEW h \in GameIds, Active(g),
         LoseOnTime(g)
  PROVE  KeepsVerdict(h)
<1>. DEFINE c == game[g].side_to_move
            G == [game[g] EXCEPT !.clock_ms[c] = 0]
<1>1. game[g] \in Account /\ [game[g].clock_ms EXCEPT ![c] = 0] \in [Colors -> Nat]
  BY DEF Account
<1>2. G \in Account
  BY <1>1 DEF Account
<1>3. EndGame(g, G, Wins(1 - c), "Timeout")
  BY DEF LoseOnTime
<1>4. "Timeout" \notin Verdicts
  BY DEF Verdicts
<1>. HIDE DEF G, c
<1>. QED
  BY <1>2, <1>3, <1>4, EndKeepsVerdict

\* Off the board nothing is decided about the position.
LEMMA OffBoardKeepsVerdict ==
  ASSUME game \in [GameIds -> Account], NEW g \in GameIds, NEW h \in GameIds, OffBoard(g)
  PROVE  KeepsVerdict(h)
<1>0. game[g] \in Account
  OBVIOUS
<1>1. ASSUME NEW w \in Wallets, JoinGame(g, w) PROVE KeepsVerdict(h)
  BY <1>0, <1>1 DEF JoinGame, KeepsVerdict, Account, Exists
<1>2. ASSUME NEW w \in Wallets, OfferDraw(g, w) PROVE KeepsVerdict(h)
  BY <1>0, <1>2 DEF OfferDraw, KeepsVerdict, Account, Exists
<1>3. ASSUME NEW w \in Wallets, ResignGame(g, w) PROVE KeepsVerdict(h)
  <2>1. "Resignation" \notin Verdicts
    BY DEF Verdicts
  <2>. QED
    BY <1>0, <1>3, <2>1, EndKeepsVerdict DEF ResignGame
<1>4. ASSUME NEW w \in Wallets, AcceptDraw(g, w) PROVE KeepsVerdict(h)
  <2>1. "DrawAgreed" \notin Verdicts
    BY DEF Verdicts
  <2>. QED
    BY <1>0, <1>4, <2>1, EndKeepsVerdict DEF AcceptDraw
<1>5. ASSUME SyncClock(g) PROVE KeepsVerdict(h)
  BY <1>5, FlagKeepsVerdict DEF SyncClock, KeepsVerdict, Exists
<1>6. ASSUME NEW kind \in ReactionKinds, NEW register \in BOOLEAN,
             RecordReaction(g, kind, register)
      PROVE  KeepsVerdict(h)
  BY <1>0, <1>6 DEF RecordReaction, KeepsVerdict, Account, Exists
<1>7. ASSUME NEW w \in Wallets, NEW amount \in Deposits, Deposit(w, g, amount)
      PROVE  KeepsVerdict(h)
  BY <1>7 DEF Deposit, KeepsVerdict, Exists
<1>. QED
  BY <1>1, <1>2, <1>3, <1>4, <1>5, <1>6, <1>7 DEF OffBoard

\* A move decides what the position after it deserves.
LEMMA PlayVerdict ==
  ASSUME BInv, \A g \in GameIds : VerdictAt(g),
         NEW g \in GameIds, NEW w \in Wallets, NEW nonce \in 0..MAX_MOVE_HISTORY,
         NEW mv \in Candidates(g), PlayMove(g, w, nonce, mv), NEW h \in GameIds
  PROVE  VerdictAt(h)'
<1>. DEFINE s == board[g]
            t == Apply(s, mv.from, mv.to, mv.promotion)
            v == Verdict(mv, s, t)
<1>0. /\ game \in [GameIds -> Account] /\ game[g] \in Account /\ DOMAIN board = GameIds
      /\ Active(g) /\ Exists(g) /\ game[g].end_reason = "None"
  BY DEF BInv, IInv, TypeOK, HistoryTyped, PlayMove, Active, Exists, OutcomeFitsReason
<1>1. CASE LoseOnTime(g) /\ UNCHANGED <<board, history>>
  BY <1>0, <1>1, FlagKeepsVerdict, VerdictStays
<1>2. CASE /\ Legal(s, mv.from, mv.to, mv.promotion)
           /\ RecordMove(g, v) /\ board' = [board EXCEPT ![g] = t]
  <2>1. mv.from \in Square /\ mv.to \in Square
    <3>1. Len(history[g]) \in Nat
      <4>1. history[g] \in Seq(0..MAX_U16)
        BY DEF BInv, HistoryTyped
      <4>. QED
        BY <4>1
    <3>. QED
      BY <3>1, CandidateType
  <2>2. Typed(s) /\ InOrder(s)
    BY <1>0 DEF VerdictAt
  <2>3. /\ Typed(t) /\ InOrder(t)
        /\ Kings(t.squares, t.side_to_move) # {}
    BY <1>2, <2>1, <2>2, PositionKept
  <2>4. ComputeStatus(t) = IF Terminal(v) THEN ReasonOf(v) ELSE "Ongoing"
    BY <2>3, VerdictIsStatus
  <2>5. board'[g] = t /\ \A i \in GameIds \ {g} : board'[i] = board[i]
    BY <1>0, <1>2
  <2>. HIDE DEF v, t, s
  <2>6. /\ Played(game[g]).end_reason = "None"
        /\ DOMAIN Played(game[g]) = DOMAIN game[g]
    BY <1>0 DEF Played, Account
  <2>7. ASSUME NEW r, NEW reason
        PROVE  FinalizeGame(Played(game[g]), r, reason).end_reason = reason
    BY <1>0, <2>6 DEF FinalizeGame, Account
  <2>8. game'[g].end_reason = IF Terminal(v) THEN ReasonOf(v) ELSE "None"
    BY <1>0, <1>2, <2>6, <2>7 DEF RecordMove, EndGame
  <2>9. \A i \in GameIds \ {g} : game'[i] = game[i]
    BY <1>0, <1>2 DEF RecordMove, EndGame
  <2>10. ReasonOf(v) \in Verdicts /\ "None" \notin Verdicts
    BY DEF ReasonOf, Verdicts
  <2>11. CASE h = g
    BY <2>3, <2>4, <2>5, <2>8, <2>10, <2>11 DEF VerdictAt
  <2>12. CASE h # g
    BY <2>5, <2>9, <2>12 DEF VerdictAt, Exists
  <2>. QED
    BY <2>11, <2>12
<1>. QED
  BY <1>1, <1>2 DEF PlayMove

\* Every step keeps verdict and board in agreement.
LEMMA VerdictStep ==
  BInv /\ (\A g \in GameIds : VerdictAt(g)) /\ [BoardNext]_boardVars
    => (\A g \in GameIds : VerdictAt(g))'
<1>. SUFFICES ASSUME BInv, \A g \in GameIds : VerdictAt(g), [BoardNext]_boardVars,
                     NEW h \in GameIds
              PROVE  VerdictAt(h)'
  OBVIOUS
<1>0. game \in [GameIds -> Account] /\ DOMAIN board = GameIds
  BY DEF BInv, IInv, TypeOK, HistoryTyped
<1>1. ASSUME NEW creator \in Creators, NEW sid \in SessionIds,
             NEW tc \in TimeControls, NEW w \in Wagers, SetUp(creator, sid, tc, w)
      PROVE  VerdictAt(h)'
  <2>. DEFINE g == <<creator, sid>>
  <2>1. CASE h = g
    <3>1. board'[h] = Initial /\ game'[h] = NewGame(creator, tc, w)
      BY <1>0, <1>1, <2>1 DEF SetUp, CreateGame
    <3>2. game'[h].end_reason = "None" /\ "None" \notin Verdicts
      BY <3>1 DEF NewGame, Verdicts
    <3>3. Typed(Initial) /\ InOrder(Initial)
      BY OpeningInOrder
    <3>. QED
      BY <3>1, <3>2, <3>3, OpeningStatus DEF VerdictAt
  <2>2. CASE h # g
    <3>1. board'[h] = board[h] /\ game'[h] = game[h]
      BY <1>0, <1>1, <2>2 DEF SetUp, CreateGame
    <3>. QED
      BY <3>1 DEF VerdictAt, Exists
  <2>. QED
    BY <2>1, <2>2
<1>2. ASSUME NEW g \in GameIds, NEW w \in Wallets, NEW nonce \in 0..MAX_MOVE_HISTORY,
             NEW mv \in Candidates(g), PlayMove(g, w, nonce, mv)
      PROVE  VerdictAt(h)'
  BY <1>2, PlayVerdict
<1>3. ASSUME NEW g \in GameIds, NEW w \in Wallets, Remove(g, w)
      PROVE  VerdictAt(h)'
  <2>1. CASE h = g
    <3>1. game'[h] = NoGame
      BY <1>0, <1>3, <2>1 DEF Remove, CloseGame
    <3>. QED
      BY <3>1 DEF VerdictAt, Exists, NoGame
  <2>2. CASE h # g
    <3>1. board'[h] = board[h] /\ game'[h] = game[h]
      BY <1>0, <1>3, <2>2 DEF Remove, CloseGame
    <3>. QED
      BY <3>1 DEF VerdictAt, Exists
  <2>. QED
    BY <2>1, <2>2
<1>4. ASSUME NEW g \in GameIds, OffBoard(g) PROVE VerdictAt(h)'
  <2>1. KeepsVerdict(h) /\ board'[h] = board[h]
    BY <1>0, <1>4, OffBoardKeepsVerdict DEF OffBoard
  <2>. QED
    BY <2>1, VerdictStays
<1>5. CASE (Tick /\ UNCHANGED <<board, history>>) \/ UNCHANGED boardVars
  <2>1. game' = game /\ board' = board
    BY <1>5 DEF Tick, boardVars, vars
  <2>. QED
    BY <2>1 DEF VerdictAt, Exists
<1>. QED
  BY <1>1, <1>2, <1>3, <1>4, <1>5 DEF BoardNext

\* A game goes on exactly as long as the laws of chess let it, and its end says
\* why, for games of any length and any interleaving with the other instructions.
THEOREM VerdictSound == BoardSpec => []VerdictTaken
<1>1. BoardInit => \A g \in GameIds : VerdictAt(g)
  BY DEF BoardInit, Init, NoGame, VerdictAt, Exists
<1>2. (\A g \in GameIds : VerdictAt(g)) => VerdictTaken
  BY DEF VerdictAt, VerdictTaken
<1>. QED
  BY <1>1, <1>2, VerdictStep, BoardInvariance, PTL DEF BoardSpec


-----------------------------------------------------------------------------
(* The history tells the board.                                            *)

\* The positions a history goes through, from the opening on.
Track(h, p) ==
  p = [n \in 0..Len(h) |->
         IF n = 0 THEN Initial
         ELSE LET mv == Unpack(h[n]) IN
              Apply(p[n - 1], mv.from, mv.to, mv.promotion)]

\* There is one such function and it ends at b.  That there is no other belongs
\* to the invariant: it takes the place of an induction over the history.
LeadsTo(h, b) ==
  \E p : Track(h, p) /\ p[Len(h)] = b /\ \A q : Track(h, q) => q = p

\* What the client's replay returns is then the position the history leads to.
LEMMA ReplayedIs ==
  ASSUME NEW h, NEW b, Len(h) \in Nat, LeadsTo(h, b)
  PROVE  Replayed(h) = b
<1>1. PICK p : Track(h, p) /\ p[Len(h)] = b /\ \A q : Track(h, q) => q = p
  BY DEF LeadsTo
<1>2. Replayed(h) = (CHOOSE q : Track(h, q))[Len(h)]
  BY DEF Replayed, Track
<1>3. Track(h, CHOOSE q : Track(h, q))
  BY <1>1
<1>. QED
  BY <1>1, <1>2, <1>3

\* Nothing has been played on the opening.
LEMMA EmptyLeads == LeadsTo(<<>>, Initial)
<1>. DEFINE p == [n \in {0} |-> Initial]
<1>1. Len(<<>>) = 0 /\ 0..0 = {0}
  OBVIOUS
<1>2. Track(<<>>, p) /\ p[Len(<<>>)] = Initial
  BY <1>1 DEF Track
<1>3. ASSUME NEW q, Track(<<>>, q) PROVE q = p
  BY <1>1, <1>3 DEF Track
<1>. QED
  BY <1>2, <1>3 DEF LeadsTo

\* One more entry leads one move further, whatever was played before.
LEMMA AppendLeads ==
  ASSUME NEW S, NEW h \in Seq(S), NEW x \in S, NEW b, LeadsTo(h, b)
  PROVE  LET mv == Unpack(x) IN
         LeadsTo(Append(h, x), Apply(b, mv.from, mv.to, mv.promotion))
<1>. DEFINE mv == Unpack(x)
            k == Append(h, x)
            m == Len(h)
            last == Apply(b, mv.from, mv.to, mv.promotion)
            After(e, a) == LET v == Unpack(e) IN
                           Apply(a, v.from, v.to, v.promotion)
<1>1. PICK p : Track(h, p) /\ p[m] = b /\ \A q : Track(h, q) => q = p
  BY DEF LeadsTo
<1>2. /\ m \in Nat /\ Len(k) = m + 1 /\ k[m + 1] = x
      /\ \A n \in 1..m : k[n] = h[n]
  OBVIOUS
<1>3. \A e, a : After(e, a) = Apply(a, Unpack(e).from, Unpack(e).to,
                                           Unpack(e).promotion)
  OBVIOUS
<1>4. \A g, q : Track(g, q) <=> q = [n \in 0..Len(g) |-> IF n = 0 THEN Initial
                                                        ELSE After(g[n], q[n - 1])]
  BY DEF Track
<1>5. last = After(x, b)
  OBVIOUS
<1>. HIDE DEF After, k, m, last
<1>. DEFINE r == [n \in 0..(m + 1) |-> IF n = m + 1 THEN last ELSE p[n]]
<1>6. Track(k, r) /\ r[m + 1] = last
  <2>1. ASSUME NEW n \in 0..(m + 1)
        PROVE  r[n] = IF n = 0 THEN Initial ELSE After(k[n], r[n - 1])
    <3>1. CASE n = 0
      <4>1. p[0] = Initial
        BY <1>1, <1>2, <1>4 DEF m
      <4>. QED
        BY <3>1, <4>1, <1>2
    <3>2. CASE n \in 1..m
      <4>1. p[n] = After(h[n], p[n - 1])
        BY <3>2, <1>1, <1>2, <1>4 DEF m
      <4>2. r[n] = p[n] /\ r[n - 1] = p[n - 1]
        BY <3>2, <1>2
      <4>. QED
        BY <3>2, <4>1, <4>2, <1>2
    <3>3. CASE n = m + 1
      <4>1. r[n] = last /\ r[n - 1] = b
        BY <3>3, <1>1, <1>2
      <4>. QED
        BY <3>3, <4>1, <1>2, <1>5
    <3>. QED
      BY <3>1, <3>2, <3>3, <1>2
  <2>2. r = [n \in 0..(m + 1) |-> IF n = 0 THEN Initial ELSE After(k[n], r[n - 1])]
    BY <2>1
  <2>3. r[m + 1] = last
    BY <1>2
  <2>. HIDE DEF r
  <2>4. Track(k, r) <=> r = [n \in 0..Len(k) |-> IF n = 0 THEN Initial
                                                 ELSE After(k[n], r[n - 1])]
    BY <1>4
  <2>5. Track(k, r)
    BY <2>2, <2>4, <1>2
  <2>. QED
    BY <2>3, <2>5
<1>7. ASSUME NEW q, Track(k, q) PROVE q = r
  <2>1. q = [n \in 0..(m + 1) |-> IF n = 0 THEN Initial ELSE After(k[n], q[n - 1])]
    BY <1>7, <1>2, <1>4
  <2>. DEFINE q0 == [n \in 0..m |-> q[n]]
  <2>2. q0 = p
    <3>1. ASSUME NEW n \in 0..m
          PROVE  q0[n] = IF n = 0 THEN Initial ELSE After(h[n], q0[n - 1])
      <4>1. CASE n = 0
        BY <4>1, <2>1, <1>2
      <4>2. CASE n \in 1..m
        <5>1. q[n] = After(k[n], q[n - 1])
          BY <4>2, <2>1, <1>2
        <5>2. q0[n] = q[n] /\ q0[n - 1] = q[n - 1]
          BY <4>2, <1>2
        <5>. QED
          BY <4>2, <5>1, <5>2, <1>2
      <4>. QED
        BY <4>1, <4>2, <1>2
    <3>2. q0 = [n \in 0..m |-> IF n = 0 THEN Initial ELSE After(h[n], q0[n - 1])]
      BY <3>1
    <3>3. Track(h, q0)
      BY <3>2, <1>4 DEF m
    <3>. QED
      BY <3>3, <1>1
  <2>3. \A n \in 0..m : q[n] = p[n]
    BY <2>2
  <2>4. q[m + 1] = last
    <3>1. q[m + 1] = After(k[m + 1], q[m])
      BY <2>1, <1>2
    <3>2. q[m] = b /\ k[m + 1] = x
      BY <2>3, <1>1, <1>2
    <3>. QED
      BY <3>1, <3>2, <1>5
  <2>5. \A n \in 0..(m + 1) : q[n] = r[n]
    BY <2>3, <2>4, <1>2
  <2>. QED
    BY <2>1, <2>5
<1>8. LeadsTo(k, last)
  BY <1>2, <1>6, <1>7 DEF LeadsTo
<1>. QED
  BY <1>8 DEF k, last

\* What a step does to the board and the history of an address: nothing, a fresh
\* start, or one legal move on both.
LEMMA HistoryMoves ==
  ASSUME BInv, [BoardNext]_boardVars, NEW h \in GameIds
  PROVE  \/ history'[h] = history[h] /\ board'[h] = board[h]
         \/ history'[h] = <<>> /\ board'[h] = Initial
         \/ \E mv \in [from : Square, to : Square, promotion : 0..MAX_U8] :
              /\ Exists(h) /\ Legal(board[h], mv.from, mv.to, mv.promotion)
              /\ Pack(mv.from, mv.to, mv.promotion) \in 0..MAX_U16
              /\ board'[h] = Apply(board[h], mv.from, mv.to, mv.promotion)
              /\ history'[h] = Append(history[h], Pack(mv.from, mv.to, mv.promotion))
<1>. DEFINE Same == history'[h] = history[h] /\ board'[h] = board[h]
            Fresh == history'[h] = <<>> /\ board'[h] = Initial
            S == [from : Square, to : Square, promotion : 0..MAX_U8]
            One(mv) == /\ Exists(h) /\ Legal(board[h], mv.from, mv.to, mv.promotion)
                       /\ Pack(mv.from, mv.to, mv.promotion) \in 0..MAX_U16
                       /\ board'[h] = Apply(board[h], mv.from, mv.to, mv.promotion)
                       /\ history'[h] = Append(history[h], Pack(mv.from, mv.to, mv.promotion))
<1>0. history \in [GameIds -> Seq(0..MAX_U16)] /\ DOMAIN board = GameIds
  BY DEF BInv, HistoryTyped
<1>1. ASSUME NEW g \in GameIds, NEW w \in Wallets, NEW nonce \in 0..MAX_MOVE_HISTORY,
             NEW mv \in Candidates(g), PlayMove(g, w, nonce, mv)
      PROVE  Same \/ \E m \in S : One(m)
  <2>1. mv \in S
    <3>1. Len(history[g]) \in Nat
      BY <1>0
    <3>. QED
      BY <3>1, CandidateType
  <2>2. Pack(mv.from, mv.to, mv.promotion) \in 0..MAX_U16
    <3>1. mv.from \in Nat /\ mv.to \in Nat /\ mv.promotion \in Nat
      BY <2>1 DEF Square, MAX_U8
    <3>. QED
      BY <3>1, PackWidth
  <2>3. Exists(g)
    BY <1>1 DEF PlayMove, Active, Exists
  <2>. DEFINE x == Pack(mv.from, mv.to, mv.promotion)
              next == Apply(board[g], mv.from, mv.to, mv.promotion)
              legal == Legal(board[g], mv.from, mv.to, mv.promotion)
  <2>4. \/ UNCHANGED <<board, history>>
        \/ /\ legal
           /\ board' = [board EXCEPT ![g] = next]
           /\ history' = [history EXCEPT ![g] = Append(history[g], x)]
    BY <1>1 DEF PlayMove
  <2>5. CASE h # g \/ UNCHANGED <<board, history>>
    <3>. HIDE DEF next, x, legal
    <3>. QED
      BY <1>0, <2>4, <2>5
  <2>6. CASE h = g /\ ~UNCHANGED <<board, history>>
    <3>1. legal /\ board'[h] = next /\ history'[h] = Append(history[h], x)
      <4>. HIDE DEF next, x, legal
      <4>. QED
        BY <1>0, <2>4, <2>6
    <3>2. One(mv)
      BY <2>2, <2>3, <2>6, <3>1
    <3>. HIDE DEF One, S
    <3>. QED
      BY <2>1, <3>2
  <2>. QED
    BY <2>5, <2>6
<1>2. ASSUME NEW creator \in Creators, NEW sid \in SessionIds,
             NEW tc \in TimeControls, NEW w \in Wagers, SetUp(creator, sid, tc, w)
      PROVE  Same \/ Fresh
  BY <1>0, <1>2 DEF SetUp
<1>3. ASSUME NEW g \in GameIds, NEW w \in Wallets, Remove(g, w)
      PROVE  Same \/ Fresh
  BY <1>0, <1>3 DEF Remove
<1>4. ASSUME NEW g \in GameIds, OffBoard(g) PROVE Same
  BY <1>4 DEF OffBoard
<1>5. ASSUME (Tick /\ UNCHANGED <<board, history>>) \/ UNCHANGED boardVars PROVE Same
  BY <1>5 DEF boardVars
<1>. HIDE DEF Same, Fresh, One, S
<1>6. Same \/ Fresh \/ \E mv \in S : One(mv)
  <2>1. \/ \E creator \in Creators, sid \in SessionIds, tc \in TimeControls, w \in Wagers :
             SetUp(creator, sid, tc, w)
        \/ \E g \in GameIds, w \in Wallets, nonce \in 0..MAX_MOVE_HISTORY :
             \E mv \in Candidates(g) : PlayMove(g, w, nonce, mv)
        \/ \E g \in GameIds, w \in Wallets : Remove(g, w)
        \/ \E g \in GameIds : OffBoard(g)
        \/ (Tick /\ UNCHANGED <<board, history>>) \/ UNCHANGED boardVars
    BY DEF BoardNext
  <2>2. CASE \E g \in GameIds, w \in Wallets, nonce \in 0..MAX_MOVE_HISTORY :
               \E mv \in Candidates(g) : PlayMove(g, w, nonce, mv)
    BY <2>2, <1>1
  <2>. QED
    BY <2>1, <2>2, <1>2, <1>3, <1>4, <1>5, Zenon
<1>. QED
  BY <1>6 DEF Same, Fresh, One, S

\* The history of every address leads to its board; a closed one starts afresh.
HistoryLeads == \A h \in GameIds : LeadsTo(history[h], board[h])

\* No instruction writes one without the other.
LEMMA HistoryStep == BInv /\ HistoryLeads /\ [BoardNext]_boardVars => HistoryLeads'
<1>. SUFFICES ASSUME BInv, HistoryLeads, [BoardNext]_boardVars, NEW h \in GameIds
              PROVE  LeadsTo(history'[h], board'[h])
  BY DEF HistoryLeads
<1>0. history[h] \in Seq(0..MAX_U16) /\ LeadsTo(history[h], board[h])
  BY DEF BInv, HistoryTyped, HistoryLeads
<1>1. CASE history'[h] = history[h] /\ board'[h] = board[h]
  BY <1>0, <1>1
<1>2. CASE history'[h] = <<>> /\ board'[h] = Initial
  BY <1>2, EmptyLeads
<1>3. ASSUME NEW mv \in [from : Square, to : Square, promotion : 0..MAX_U8],
             Legal(board[h], mv.from, mv.to, mv.promotion),
             Pack(mv.from, mv.to, mv.promotion) \in 0..MAX_U16,
             board'[h] = Apply(board[h], mv.from, mv.to, mv.promotion),
             history'[h] = Append(history[h], Pack(mv.from, mv.to, mv.promotion))
      PROVE  LeadsTo(history'[h], board'[h])
  <2>. DEFINE x == Pack(mv.from, mv.to, mv.promotion)
              S == 0..MAX_U16
              out == Unpack(x)
  <2>1. out = [from |-> mv.from, to |-> mv.to, promotion |-> mv.promotion]
    BY <1>3, EntryTells
  <2>2. out.from = mv.from /\ out.to = mv.to /\ out.promotion = mv.promotion
    BY <2>1
  <2>3. x \in S /\ history[h] \in Seq(S)
    BY <1>0, <1>3
  <2>. HIDE DEF x, S
  <2>4. LeadsTo(Append(history[h], x),
                Apply(board[h], out.from, out.to, out.promotion))
    BY <1>0, <2>3, AppendLeads
  <2>. HIDE DEF out
  <2>. QED
    BY <1>3, <2>2, <2>4 DEF x
<1>. QED
  BY <1>1, <1>2, <1>3, HistoryMoves

\* The history of an account, replayed from the opening, gives its position, for
\* games of any length, also when the address has been used before.
THEOREM HistoryTells == BoardSpec => []HistoryTellsBoard
<1>1. BoardInit => HistoryLeads
  BY EmptyLeads DEF BoardInit, HistoryLeads
<1>2. BInv /\ HistoryLeads => HistoryTellsBoard
  BY ReplayedIs DEF BInv, HistoryTyped, HistoryLeads, HistoryTellsBoard
<1>. QED
  BY <1>1, <1>2, HistoryStep, BoardInvariance, PTL DEF BoardSpec

-----------------------------------------------------------------------------
(* The ends of games and the laws.                                         *)

\* The squares a longer history has touched.
LEMMA TouchedMore ==
  ASSUME NEW S, NEW h \in Seq(S), NEW x \in S
  PROVE  Touched(Append(h, x)) = Touched(h) \cup {Unpack(x).from, Unpack(x).to}
<1>. DEFINE k == Append(h, x)
            m == Len(h)
            pair(e) == {Unpack(e).from, Unpack(e).to}
<1>1. /\ m \in Nat /\ Len(k) = m + 1 /\ k[m + 1] = x
      /\ \A n \in 1..m : k[n] = h[n]
  OBVIOUS
<1>2. \A g, z : z \in Touched(g) <=> \E i \in 1..Len(g) : z \in pair(g[i])
  BY DEF Touched
<1>. HIDE DEF k, m, pair
<1>3. \A z : z \in Touched(k) <=> z \in Touched(h) \/ z \in pair(x)
  <2>1. \A i : i \in 1..(m + 1) <=> i \in 1..m \/ i = m + 1
    BY <1>1
  <2>. QED
    BY <1>1, <1>2, <2>1 DEF m
<1>4. Touched(k) = Touched(h) \cup pair(x)
  BY <1>3
<1>. QED
  BY <1>4 DEF k, pair

\* The account tells what the laws ask of the past: rights stand for squares its
\* history has not touched, the target for the double push that ends it.
PastTold(h) == /\ RightsKnown(board[h], Touched(history[h]))
               /\ Passed(history[h], board[h]) = TargetCoord(board[h])

\* Nothing has happened before the opening.
LEMMA OpeningPast ==
  RightsKnown(Initial, Touched(<<>>)) /\ Passed(<<>>, Initial) = TargetCoord(Initial)
<1>1. Len(<<>>) = 0 /\ ~(Len(<<>>) > 0) /\ 1..0 = {}
  OBVIOUS
<1>2. Touched(<<>>) = {}
  BY <1>1 DEF Touched
<1>3. Initial.castling_rights = Rights /\ Initial.en_passant = None
  BY DEF Initial
<1>4. Passed(<<>>, Initial) = Rules!Nowhere
  BY <1>1 DEF Passed
<1>. QED
  BY <1>2, <1>3, <1>4 DEF RightsKnown, TargetCoord

\* Every move tells its part.
LEMMA PastStep ==
  BInv /\ (\A g \in GameIds : VerdictAt(g)) /\ (\A g \in GameIds : PastTold(g))
       /\ [BoardNext]_boardVars => (\A g \in GameIds : PastTold(g))'
<1>. SUFFICES ASSUME BInv, \A g \in GameIds : VerdictAt(g), \A g \in GameIds : PastTold(g),
                     [BoardNext]_boardVars, NEW h \in GameIds
              PROVE  PastTold(h)'
  OBVIOUS
<1>0. history[h] \in Seq(0..MAX_U16) /\ PastTold(h) /\ VerdictAt(h)
  BY DEF BInv, HistoryTyped
<1>1. CASE history'[h] = history[h] /\ board'[h] = board[h]
  BY <1>0, <1>1 DEF PastTold
<1>2. CASE history'[h] = <<>> /\ board'[h] = Initial
  BY <1>2, OpeningPast DEF PastTold
<1>3. ASSUME NEW mv \in [from : Square, to : Square, promotion : 0..MAX_U8],
             Exists(h), Legal(board[h], mv.from, mv.to, mv.promotion),
             Pack(mv.from, mv.to, mv.promotion) \in 0..MAX_U16,
             board'[h] = Apply(board[h], mv.from, mv.to, mv.promotion),
             history'[h] = Append(history[h], Pack(mv.from, mv.to, mv.promotion))
      PROVE  PastTold(h)'
  <2>. DEFINE x == Pack(mv.from, mv.to, mv.promotion)
              S == 0..MAX_U16
              out == Unpack(x)
              s == board[h]
              t == Apply(s, mv.from, mv.to, mv.promotion)
              k == Append(history[h], x)
  <2>1. Typed(s) /\ InOrder(s) /\ mv.from \in Square /\ mv.to \in Square
    BY <1>0, <1>3 DEF VerdictAt
  <2>2. out = [from |-> mv.from, to |-> mv.to, promotion |-> mv.promotion]
    BY <1>3, EntryTells
  <2>3. out.from = mv.from /\ out.to = mv.to
    BY <2>2
  <2>4. x \in S /\ history[h] \in Seq(S)
    BY <1>0, <1>3
  <2>5. /\ RightsKnown(t, Touched(history[h]) \cup {mv.from, mv.to})
    BY <1>0, <1>3, <2>1, RightsKnownAfter DEF PastTold
  <2>6. TargetCoord(t) = IF Kind(t.squares[mv.to]) = Pawn /\ Dist(mv.from, mv.to) = 16
                         THEN Coord((mv.from + mv.to) \div 2) ELSE Rules!Nowhere
    BY <1>3, <2>1, TargetTold
  <2>7. board'[h] = t /\ history'[h] = k
    BY <1>3
  <2>. HIDE DEF t, x, S
  <2>8. Len(k) > 0 /\ Unpack(k[Len(k)]) = out
    BY <2>4
  <2>9. Touched(k) = Touched(history[h]) \cup {out.from, out.to}
    BY <2>4, TouchedMore
  <2>. HIDE DEF k, out, s
  <2>10. Passed(k, t) = TargetCoord(t)
    BY <2>3, <2>6, <2>8 DEF Passed
  <2>11. RightsKnown(t, Touched(k))
    BY <2>3, <2>5, <2>9
  <2>. QED
    BY <2>7, <2>10, <2>11 DEF PastTold
<1>. QED
  BY <1>1, <1>2, <1>3, HistoryMoves

\* The verdicts of compute_status in the words of the laws.
LEMMA StatusIsLaw ==
  ASSUME NEW s, Typed(s), InOrder(s), NEW moved, RightsKnown(s, moved)
  PROVE  LET b == BoardOf(s)
             color == ColorName(s.side_to_move)
             ep == TargetCoord(s)
             still == StillCoords(moved)
         IN /\ ComputeStatus(s) = "Checkmate" <=> Rules!Checkmate(b, color, ep, still)
            /\ ComputeStatus(s) = "Stalemate" <=> Rules!Stalemate(b, color, ep, still)
<1>. DEFINE check == InCheck(s.squares, s.side_to_move)
            any == AnyLegal(s)
<1>1. Kings(s.squares, s.side_to_move) # {}
  BY DEF Typed, InOrder, KingsInOrder
<1>2. /\ ComputeStatus(s) = "Checkmate" <=> check /\ ~any
      /\ ComputeStatus(s) = "Stalemate" <=> ~check /\ ~any
  <2>. HIDE DEF check, any
  <2>. QED
    BY <1>1 DEF ComputeStatus, check, any
<1>. QED
  BY <1>2, VerdictsAreLaws

\* A game is won by checkmate, or drawn by stalemate, exactly when the laws of
\* chess say so of the board and the moves in its account, for games of any length.
THEOREM EndsSound == BoardSpec => []EndsByTheLaws
<1>. DEFINE Decided == \A g \in GameIds : VerdictAt(g)
            Told == \A g \in GameIds : PastTold(g)
<1>1. BoardInit => Decided
  BY DEF BoardInit, Init, NoGame, VerdictAt, Exists
<1>2. BoardInit => Told
  BY OpeningPast DEF BoardInit, PastTold
<1>3. BInv /\ Decided /\ [BoardNext]_boardVars => Decided'
  BY VerdictStep
<1>4. BInv /\ Decided /\ Told /\ [BoardNext]_boardVars => Told'
  BY PastStep
<1>5. Decided /\ Told => EndsByTheLaws
  <2>. SUFFICES ASSUME Decided, Told, NEW g \in GameIds, Exists(g)
                PROVE  LET s == board[g]
                           b == BoardOf(s)
                           color == ColorName(s.side_to_move)
                           ep == Passed(history[g], s)
                           still == {Coord(i) : i \in Square \ Touched(history[g])}
                       IN /\ game[g].end_reason = "Checkmate"
                               <=> Rules!Checkmate(b, color, ep, still)
                          /\ game[g].end_reason = "Stalemate"
                               <=> Rules!Stalemate(b, color, ep, still)
    BY DEF EndsByTheLaws
  <2>1. /\ Typed(board[g]) /\ InOrder(board[g])
        /\ LET status == ComputeStatus(board[g]) IN
           IF game[g].end_reason \in Verdicts THEN status = game[g].end_reason
                                              ELSE status = "Ongoing"
    BY DEF VerdictAt
  <2>2. /\ game[g].end_reason = "Checkmate" <=> ComputeStatus(board[g]) = "Checkmate"
        /\ game[g].end_reason = "Stalemate" <=> ComputeStatus(board[g]) = "Stalemate"
    BY <2>1 DEF Verdicts
  <2>3. /\ RightsKnown(board[g], Touched(history[g]))
        /\ Passed(history[g], board[g]) = TargetCoord(board[g])
        /\ {Coord(i) : i \in Square \ Touched(history[g])} = StillCoords(Touched(history[g]))
    BY DEF PastTold, StillCoords
  <2>. QED
    BY <2>1, <2>2, <2>3, StatusIsLaw
<1>. HIDE DEF Decided, Told
<1>. QED
  BY <1>1, <1>2, <1>3, <1>4, <1>5, BoardInvariance, PTL DEF BoardSpec

=============================================================================
