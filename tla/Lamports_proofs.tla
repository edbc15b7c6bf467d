---------------------------- MODULE Lamports_proofs ----------------------------
(***************************************************************************)
(* Lamports are conserved, for any finite sets of wallets and games.  The   *)
(* first half is about sums over finite sets: SumFunctionOnSet takes the    *)
(* elements of a set in an order of its own, and any other order gives the  *)
(* same.  Induction is stated over sets of sets and of numbers.             *)
(***************************************************************************)
EXTENDS ChessProgram_proofs, Lamports, FiniteSetTheorems

-----------------------------------------------------------------------------
(* Sums over finite sets.                                                  *)

\* The element the sum takes first.
Pick(s) == CHOOSE x \in s : TRUE

\* One unfolding of the sum of f over s.
Unfold(f, it, s) == IF s = {} THEN 0 ELSE f[Pick(s)] + it[s \ {Pick(s)}]
\* The sums over all subsets of S, in the order in which Pick takes their elements.
Adds(f, S, it) == it = [s \in SUBSET S |-> Unfold(f, it, s)]
Sums(f, S) == CHOOSE it : Adds(f, S, it)

\* The sum of the library is the one defined here.
LEMMA SumUnfolds ==
  ASSUME NEW f, NEW S
  PROVE  SumFunctionOnSet(f, S) = Sums(f, S)[S]
BY DEF SumFunctionOnSet, FoldFunctionOnSet, MapThenFoldSet, Sums, Adds, Unfold, Pick

\* What holds of the empty set, and of a set with one more element, holds of
\* every finite set.
LEMMA FinInduction ==
  ASSUME NEW S, IsFiniteSet(S), NEW F, {} \in F,
         \A T \in SUBSET S : \A x \in S \ T : T \in F => T \cup {x} \in F
  PROVE  S \in F
<1>. SUFFICES ASSUME S \notin F PROVE FALSE
  OBVIOUS
<1>. DEFINE Bad == {T \in SUBSET S : T \notin F}
            R == StrictSubsetOrdering(S)
<1>1. IsWellFoundedOn(R, FiniteSubsetsOf(S))
  BY FS_StrictSubsetOrderingWellFounded
<1>2. Bad \subseteq FiniteSubsetsOf(S) /\ Bad # {}
  BY FS_Subset DEF FiniteSubsetsOf
<1>. HIDE DEF R, Bad
<1>3. \E T \in Bad : \A U \in Bad : <<U, T>> \notin R
  BY <1>1, <1>2, WFMin
<1>. USE DEF Bad, R
<1>4. PICK T \in Bad : \A U \in Bad : <<U, T>> \notin R
  BY <1>3
<1>5. PICK x \in T : TRUE
  BY <1>4
<1>6. T \ {x} \in SUBSET S /\ x \in S \ (T \ {x}) /\ (T \ {x}) \cup {x} = T
  BY <1>4, <1>5
<1>7. <<T \ {x}, T>> \in R
  BY <1>4, <1>5, <1>6 DEF StrictSubsetOrdering
<1>. QED
  BY <1>4, <1>6, <1>7

\* The same over numbers: sets of numbers stand for what is to be shown of them.
LEMMA SizeInduction ==
  ASSUME NEW F, 0 \in F, \A n \in Nat : n \in F => n + 1 \in F, NEW n \in Nat
  PROVE  n \in F
<1>. DEFINE S == 1..n
            G == {T \in SUBSET S : Cardinality(T) \in F}
<1>1. IsFiniteSet(S) /\ Cardinality(S) = n
  BY FS_Interval
<1>2. {} \in G
  BY FS_EmptySet
<1>3. ASSUME NEW T \in SUBSET S, NEW x \in S \ T, T \in G PROVE T \cup {x} \in G
  <2>1. IsFiniteSet(T) /\ Cardinality(T) \in Nat
    BY <1>1, FS_Subset, FS_CardinalityType
  <2>2. Cardinality(T \cup {x}) = Cardinality(T) + 1
    BY <2>1, <1>3, FS_AddElement
  <2>3. Cardinality(T) \in F
    BY <1>3
  <2>. QED
    BY <2>1, <2>2, <2>3, <1>3
<1>4. S \in G
  <2>. HIDE DEF G, S
  <2>. QED
    BY <1>1, <1>2, <1>3, FinInduction
<1>. QED
  BY <1>1, <1>4

\* One element less.
LEMMA Picked ==
  ASSUME NEW S, IsFiniteSet(S), NEW s \in SUBSET S, s # {}
  PROVE  /\ Pick(s) \in s /\ s \ {Pick(s)} \in SUBSET S
         /\ Cardinality(s) \in Nat /\ Cardinality(s \ {Pick(s)}) = Cardinality(s) - 1
<1>1. Pick(s) \in s
  BY DEF Pick
<1>. QED
  BY <1>1, FS_Subset, FS_RemoveElement, FS_CardinalityType

\* The recursion has a solution: level by level, by the size of the subset.
LEMMA SumsDefined ==
  ASSUME NEW f, NEW S, IsFiniteSet(S)
  PROVE  Adds(f, S, Sums(f, S))
<1>. DEFINE Upto(n) == {s \in SUBSET S : Cardinality(s) =< n}
            Solves(n, it) == it = [s \in Upto(n) |-> Unfold(f, it, s)]
            F == {n \in Nat : \E it : Solves(n, it)}
<1>0. \A s \in SUBSET S : IsFiniteSet(s) /\ Cardinality(s) \in Nat
  BY FS_Subset, FS_CardinalityType
<1>1. 0 \in F
  <2>. DEFINE it == [s \in Upto(0) |-> 0]
  <2>1. \A s \in Upto(0) : s = {}
    BY <1>0, FS_EmptySet
  <2>2. Solves(0, it)
    BY <2>1 DEF Unfold
  <2>. QED
    BY <2>2
<1>2. ASSUME NEW n \in Nat, n \in F PROVE n + 1 \in F
  <2>1. PICK it : Solves(n, it)
    BY <1>2
  <2>. DEFINE jt == [s \in Upto(n + 1) |-> Unfold(f, it, s)]
  <2>2. ASSUME NEW s \in Upto(n + 1), s # {}
        PROVE  jt[s \ {Pick(s)}] = it[s \ {Pick(s)}]
    <3>. DEFINE r == s \ {Pick(s)}
    <3>1. r \in Upto(n) /\ r \in Upto(n + 1)
      BY <2>2, Picked
    <3>2. it[r] = Unfold(f, it, r)
      BY <2>1, <3>1
    <3>. QED
      BY <3>1, <3>2
  <2>3. \A s \in Upto(n + 1) : Unfold(f, jt, s) = Unfold(f, it, s)
    <3>. HIDE DEF jt
    <3>. QED
      BY <2>2 DEF Unfold
  <2>4. Solves(n + 1, jt)
    BY <2>3
  <2>. HIDE DEF jt, Solves
  <2>. QED
    BY <2>4
<1>3. \A n \in Nat : n \in F
  <2>. HIDE DEF F
  <2>. QED
    BY <1>1, <1>2, SizeInduction
<1>4. PICK it : Solves(Cardinality(S), it)
  BY <1>0, <1>3
<1>5. Upto(Cardinality(S)) = SUBSET S
  BY <1>0, FS_Subset
<1>6. Adds(f, S, it)
  BY <1>4, <1>5 DEF Adds
<1>. QED
  BY <1>6 DEF Sums
\* Sums of integers are integers.
LEMMA SumsType ==
  ASSUME NEW S, IsFiniteSet(S), NEW f \in [S -> Int]
  PROVE  Sums(f, S) \in [SUBSET S -> Int]
<1>. DEFINE it == Sums(f, S)
            F == {n \in Nat : \A s \in SUBSET S : Cardinality(s) = n => it[s] \in Int}
<1>0. /\ \A s \in SUBSET S : IsFiniteSet(s) /\ Cardinality(s) \in Nat
      /\ it = [s \in SUBSET S |-> Unfold(f, it, s)]
  BY FS_Subset, FS_CardinalityType, SumsDefined DEF Adds
<1>. HIDE DEF it
<1>1. 0 \in F
  BY <1>0, FS_EmptySet DEF Unfold
<1>2. ASSUME NEW n \in Nat, n \in F PROVE n + 1 \in F
  <2>. SUFFICES ASSUME NEW s \in SUBSET S, Cardinality(s) = n + 1 PROVE it[s] \in Int
    OBVIOUS
  <2>1. s # {}
    BY FS_EmptySet
  <2>2. it[s \ {Pick(s)}] \in Int /\ Pick(s) \in S
    BY <1>2, <2>1, Picked
  <2>3. it[s] = f[Pick(s)] + it[s \ {Pick(s)}]
    BY <1>0, <2>1 DEF Unfold
  <2>4. f[Pick(s)] \in Int
    BY <2>2
  <2>. QED
    BY <2>2, <2>3, <2>4
<1>3. \A n \in Nat : n \in F
  <2>. HIDE DEF F
  <2>. QED
    BY <1>1, <1>2, SizeInduction
<1>4. \A s \in SUBSET S : it[s] \in Int
  BY <1>0, <1>3
<1>. QED
  BY <1>0, <1>4 DEF it

\* Any element may be taken out first.
LEMMA SumsRemove ==
  ASSUME NEW S, IsFiniteSet(S), NEW f \in [S -> Int], NEW s \in SUBSET S, NEW x \in s
  PROVE  Sums(f, S)[s] = f[x] + Sums(f, S)[s \ {x}]
<1>. DEFINE it == Sums(f, S)
            F == {n \in Nat : \A t \in SUBSET S : \A y \in t :
                    Cardinality(t) = n => it[t] = f[y] + it[t \ {y}]}
<1>0. /\ \A t \in SUBSET S : IsFiniteSet(t) /\ Cardinality(t) \in Nat
      /\ it = [t \in SUBSET S |-> Unfold(f, it, t)]
      /\ \A t \in SUBSET S : it[t] \in Int
  <2>1. \A t \in SUBSET S : IsFiniteSet(t) /\ Cardinality(t) \in Nat
    BY FS_Subset, FS_CardinalityType
  <2>2. it = [t \in SUBSET S |-> Unfold(f, it, t)]
    <3>1. Adds(f, S, it)
      BY SumsDefined
    <3>. HIDE DEF it
    <3>. QED
      BY <3>1 DEF Adds
  <2>3. it \in [SUBSET S -> Int]
    BY SumsType
  <2>. HIDE DEF it
  <2>. QED
    BY <2>1, <2>2, <2>3
<1>. HIDE DEF it
<1>1. 0 \in F
  BY <1>0, FS_EmptySet
<1>2. ASSUME NEW n \in Nat, n \in F PROVE n + 1 \in F
  <2>. SUFFICES ASSUME NEW t \in SUBSET S, NEW y \in t, Cardinality(t) = n + 1
                PROVE  it[t] = f[y] + it[t \ {y}]
    OBVIOUS
  <2>. DEFINE p == Pick(t)
  <2>1. p \in t /\ Cardinality(t \ {p}) = n /\ Cardinality(t \ {y}) = n
    <3>1. p \in t /\ Cardinality(t \ {p}) = n
      BY <1>0, Picked
    <3>2. IsFiniteSet(t)
      BY <1>0
    <3>3. Cardinality(t \ {y}) = Cardinality(t) - 1
      BY <3>2, FS_RemoveElement
    <3>. QED
      BY <3>1, <3>3
  <2>2. it[t] = f[p] + it[t \ {p}]
    BY <1>0 DEF Unfold
  <2>. HIDE DEF p
  <2>3. CASE p = y
    BY <2>2, <2>3
  <2>4. CASE p # y
    <3>1. y \in t \ {p} /\ p \in t \ {y} /\ (t \ {p}) \ {y} = (t \ {y}) \ {p}
      BY <2>1, <2>4
    <3>2. it[t \ {p}] = f[y] + it[(t \ {p}) \ {y}]
      BY <1>2, <2>1, <3>1
    <3>3. it[t \ {y}] = f[p] + it[(t \ {y}) \ {p}]
      BY <1>2, <2>1, <3>1
    <3>4. f[p] \in Int /\ f[y] \in Int /\ it[(t \ {y}) \ {p}] \in Int
      BY <1>0, <2>1
    <3>5. it[t \ {p}] = f[y] + it[(t \ {y}) \ {p}]
      BY <3>1, <3>2
    <3>. QED
      BY <2>2, <3>3, <3>4, <3>5
  <2>. QED
    BY <2>3, <2>4
<1>3. \A n \in Nat : n \in F
  <2>. HIDE DEF F
  <2>. QED
    BY <1>1, <1>2, SizeInduction
<1>. QED
  BY <1>0, <1>3 DEF it

\* Functions that agree on a set have the same sum over it.
LEMMA SumsAgree ==
  ASSUME NEW S, IsFiniteSet(S), NEW f \in [S -> Int], NEW g \in [S -> Int],
         NEW s \in SUBSET S, \A x \in s : f[x] = g[x]
  PROVE  Sums(f, S)[s] = Sums(g, S)[s]
<1>. DEFINE it == Sums(f, S)
            jt == Sums(g, S)
            F == {t \in SUBSET s : it[t] = jt[t]}
<1>0. /\ it[{}] = 0 /\ jt[{}] = 0
      /\ \A t \in SUBSET S : \A x \in t : it[t] = f[x] + it[t \ {x}]
                                       /\ jt[t] = g[x] + jt[t \ {x}]
  <2>1. it[{}] = Unfold(f, it, {}) /\ jt[{}] = Unfold(g, jt, {})
    <3>1. \A h : Adds(h, S, Sums(h, S))
      BY SumsDefined
    <3>2. {} \in SUBSET S
      OBVIOUS
    <3>. QED
      BY <3>1, <3>2 DEF Adds
  <2>2. it[{}] = 0 /\ jt[{}] = 0
    BY <2>1 DEF Unfold
  <2>3. \A t \in SUBSET S : \A x \in t : it[t] = f[x] + it[t \ {x}]
    BY SumsRemove
  <2>4. \A t \in SUBSET S : \A x \in t : jt[t] = g[x] + jt[t \ {x}]
    BY SumsRemove
  <2>. HIDE DEF it, jt
  <2>. QED
    BY <2>2, <2>3, <2>4
<1>1. IsFiniteSet(s)
  BY FS_Subset
<1>. HIDE DEF it, jt
<1>2. {} \in F
  BY <1>0
<1>3. ASSUME NEW t \in SUBSET s, NEW x \in s \ t, t \in F PROVE t \cup {x} \in F
  <2>1. (t \cup {x}) \ {x} = t /\ t \cup {x} \in SUBSET S
    BY <1>3
  <2>. DEFINE u == t \cup {x}
  <2>2. it[u] = f[x] + it[u \ {x}] /\ jt[u] = g[x] + jt[u \ {x}]
    BY <1>0, <2>1
  <2>3. it[t] = jt[t] /\ f[x] = g[x] /\ u \in SUBSET s
    BY <1>3
  <2>. QED
    BY <2>1, <2>2, <2>3
<1>4. s \in F
  <2>. HIDE DEF F
  <2>. QED
    BY <1>1, <1>2, <1>3, FinInduction
<1>. QED
  BY <1>4 DEF it, jt

\* The sum of a function over a finite set.
LEMMA SumType ==
  ASSUME NEW S, IsFiniteSet(S), NEW f \in [S -> Int]
  PROVE  SumFunctionOnSet(f, S) \in Int
<1>1. Sums(f, S) \in [SUBSET S -> Int] /\ S \in SUBSET S
  BY SumsType
<1>2. Sums(f, S)[S] \in Int
  BY <1>1
<1>. QED
  BY <1>2, SumUnfolds

\* Nothing adds up to nothing.
LEMMA NoneIsZero ==
  ASSUME NEW S, IsFiniteSet(S), NEW f \in [S -> Int], \A x \in S : f[x] = 0
  PROVE  SumFunctionOnSet(f, S) = 0
<1>. DEFINE it == Sums(f, S)
            F == {t \in SUBSET S : it[t] = 0}
<1>1. {} \in F
  <2>1. Adds(f, S, it)
    BY SumsDefined
  <2>. HIDE DEF it
  <2>. QED
    BY <2>1 DEF Adds, Unfold
<1>2. ASSUME NEW t \in SUBSET S, NEW x \in S \ t, t \in F PROVE t \cup {x} \in F
  <2>. DEFINE u == t \cup {x}
  <2>1. u \in SUBSET S /\ x \in u /\ u \ {x} = t
    BY <1>2
  <2>2. it[u] = f[x] + it[u \ {x}]
    BY <2>1, SumsRemove
  <2>. HIDE DEF it
  <2>. QED
    BY <1>2, <2>1, <2>2
<1>3. S \in F
  <2>. HIDE DEF F
  <2>. QED
    BY <1>1, <1>2, FinInduction
<1>. QED
  BY <1>3, SumUnfolds

\* The sum changes as the one value that changes.
LEMMA SumChanges ==
  ASSUME NEW S, IsFiniteSet(S), NEW f \in [S -> Int], NEW g \in [S -> Int], NEW x \in S,
         \A y \in S \ {x} : g[y] = f[y]
  PROVE  SumFunctionOnSet(g, S) = SumFunctionOnSet(f, S) + (g[x] - f[x])
<1>1. Sums(f, S)[S] = f[x] + Sums(f, S)[S \ {x}] /\ Sums(g, S)[S] = g[x] + Sums(g, S)[S \ {x}]
  BY SumsRemove
<1>2. Sums(f, S)[S \ {x}] = Sums(g, S)[S \ {x}]
  BY SumsAgree
<1>3. Sums(f, S)[S \ {x}] \in Int /\ f[x] \in Int /\ g[x] \in Int
  <2>1. Sums(f, S) \in [SUBSET S -> Int] /\ S \ {x} \in SUBSET S
    BY SumsType
  <2>. QED
    BY <2>1
<1>. QED
  BY <1>1, <1>2, <1>3, SumUnfolds

-----------------------------------------------------------------------------
(* Transfers.                                                              *)

Accounts == {g \in GameIds : Exists(g)}

\* What a step does to balances and accounts, address by address.
Unmoved == wallet' = wallet /\ vault' = vault /\ Accounts' = Accounts
Staked(g, from, amount) == Stake(from, g, amount, 0) /\ Accounts' = Accounts
Opened(g, from, amount) == /\ Stake(from, g, amount, GameRent + StreamRent)
                           /\ g \notin Accounts /\ Accounts' = Accounts \cup {g}
Settled(g, G, result) == SettleWager(g, G, result) /\ Accounts' = Accounts
Drained(g) == /\ wallet' = [wallet EXCEPT ![g[1]] = @ + (vault[g] + GameRent + StreamRent)]
              /\ vault' = [vault EXCEPT ![g] = 0]
              /\ g \in Accounts /\ Accounts' = Accounts \ {g}

MoneyMoves ==
  \/ Unmoved
  \/ \E g \in GameIds, from \in Wallets, amount \in Nat :
       Staked(g, from, amount) \/ Opened(g, from, amount)
  \/ \E g \in GameIds, G \in Account, result \in {"WhiteWins", "BlackWins", "Draw"} :
       /\ G.player[0] \in Wallets /\ G.player[1] \in Wallets
       /\ G.player[0] # G.player[1]
       /\ Settled(g, G, result)
  \/ \E g \in GameIds : Drained(g)

\* An address whose account is written, not created or closed.
LEMMA AccountsKept ==
  ASSUME game \in [GameIds -> Account], NEW g \in GameIds, Exists(g), NEW G,
         G.status # "NoAccount", game' = [game EXCEPT ![g] = G]
  PROVE  Accounts' = Accounts
BY DEF Accounts, Exists

\* A game that ends settles; its account stays.
LEMMA EndMoves ==
  ASSUME TypeOK, SeatsTaken, NEW g \in GameIds, Active(g),
         NEW G \in Account, G.player = game[g].player,
         NEW result \in {"WhiteWins", "BlackWins", "Draw"}, NEW reason,
         EndGame(g, G, result, reason)
  PROVE  MoneyMoves
<1>1. /\ G.player[0] \in Wallets /\ G.player[1] \in Wallets
      /\ G.player[0] # G.player[1]
  BY TwoPlayers
<1>2. FinalizeGame(G, result, reason).status # "NoAccount"
  BY DEF FinalizeGame, Account
<1>3. Accounts' = Accounts
  BY <1>2, AccountsKept DEF EndGame, TypeOK, Active, Exists
<1>. QED
  BY <1>1, <1>3 DEF MoneyMoves, Settled, EndGame

\* So does one that is lost on time.
LEMMA FlagMoves ==
  ASSUME TypeOK, SeatsTaken, NEW g \in GameIds, Active(g), LoseOnTime(g)
  PROVE  MoneyMoves
<1>. DEFINE c == game[g].side_to_move
            G == [game[g] EXCEPT !.clock_ms[c] = 0]
<1>1. game[g] \in Account /\ [game[g].clock_ms EXCEPT ![c] = 0] \in [Colors -> Nat]
  BY DEF TypeOK, Account
<1>2. G \in Account /\ G.player = game[g].player
  BY <1>1 DEF Account
<1>3. EndGame(g, G, Wins(1 - c), "Timeout")
  BY DEF LoseOnTime
<1>4. Wins(1 - c) \in {"WhiteWins", "BlackWins", "Draw"}
  BY DEF Wins
<1>. HIDE DEF G, c
<1>. QED
  BY <1>2, <1>3, <1>4, EndMoves

\* Every step is one of the transfers.
LEMMA StepMoves == TypeOK /\ SeatsTaken /\ [Next]_vars => MoneyMoves
<1>. SUFFICES ASSUME TypeOK, SeatsTaken, [Next]_vars PROVE MoneyMoves
  OBVIOUS
<1>0. /\ game \in [GameIds -> Account] /\ \A g \in GameIds : game[g] \in Account
      /\ \A c : Wins(c) \in {"WhiteWins", "BlackWins", "Draw"}
  BY DEF TypeOK, Wins
<1>1. ASSUME NEW creator \in Creators, NEW sid \in SessionIds,
             NEW tc \in TimeControls, NEW w \in Wagers, CreateGame(creator, sid, tc, w)
      PROVE  MoneyMoves
  <2>. DEFINE g == <<creator, sid>>
  <2>1. g \in GameIds /\ creator \in Wallets /\ w \in Nat
    BY WalletsAssumption, MoneyAssumption DEF GameIds
  <2>2. Stake(creator, g, w, GameRent + StreamRent) /\ ~Exists(g)
        /\ game' = [game EXCEPT ![g] = NewGame(creator, tc, w)]
    BY <1>1 DEF CreateGame
  <2>3. NewGame(creator, tc, w).status # "NoAccount"
    BY DEF NewGame
  <2>. HIDE DEF g
  <2>4. g \notin Accounts /\ Accounts' = Accounts \cup {g}
    BY <1>0, <2>1, <2>2, <2>3 DEF Accounts, Exists
  <2>. QED
    BY <2>1, <2>2, <2>4 DEF MoneyMoves, Opened
<1>2. ASSUME NEW g \in GameIds, NEW w \in Wallets, JoinGame(g, w) PROVE MoneyMoves
  <2>1. Accounts' = Accounts
    BY <1>0, <1>2 DEF JoinGame, Accounts, Exists, Account
  <2>2. Stake(w, g, game[g].wager_per_side, 0) /\ game[g].wager_per_side \in Nat
    BY <1>0, <1>2 DEF JoinGame, Account
  <2>. QED
    BY <2>1, <2>2 DEF MoneyMoves, Staked
<1>3. ASSUME NEW g \in GameIds, NEW w \in Wallets, NEW nonce \in 0..MAX_MOVE_HISTORY,
             MakeMove(g, w, nonce)
      PROVE  MoneyMoves
  <2>0. Active(g)
    BY <1>3 DEF MakeMove
  <2>1. CASE FlagFallen(game[g])
    BY <1>3, <2>0, <2>1, FlagMoves DEF MakeMove, RecordMove
  <2>2. CASE ~FlagFallen(game[g])
    <3>. DEFINE G == Played(game[g])
                c == game[g].side_to_move
    <3>1. G \in Account /\ G.player = game[g].player /\ G.status = game[g].status
      <4>1. game[g] \in Account /\ game[g].plies < MAX_MOVE_HISTORY
        BY <1>0, <1>3, <2>2 DEF MakeMove, RecordMove
      <4>2. G \in Account
        BY <4>1, PlayedType DEF TypeOK
      <4>3. G.status = game[g].status /\ G.player = game[g].player
        BY <4>1 DEF Played, Account
      <4>. QED
        BY <4>2, <4>3
    <3>2. PICK o \in MoveOutcome :
            \/ EndGame(g, G, ResultOf(o, c), ReasonOf(o))
            \/ game' = [game EXCEPT ![g] = G] /\ UNCHANGED <<vault, wallet>>
      BY <1>3, <2>2 DEF MakeMove, RecordMove
    <3>3. ResultOf(o, c) \in {"WhiteWins", "BlackWins", "Draw"}
      BY <1>0 DEF ResultOf
    <3>. HIDE DEF G
    <3>4. CASE game' = [game EXCEPT ![g] = G] /\ UNCHANGED <<vault, wallet>>
      <4>1. Accounts' = Accounts
        BY <1>0, <2>0, <3>1, <3>4, AccountsKept DEF Active, Exists
      <4>. QED
        BY <3>4, <4>1 DEF MoneyMoves, Unmoved
    <3>5. CASE EndGame(g, G, ResultOf(o, c), ReasonOf(o))
      <4>. HIDE DEF c
      <4>. QED
        BY <2>0, <3>1, <3>3, <3>5, EndMoves
    <3>. QED
      BY <3>2, <3>4, <3>5
  <2>. QED
    BY <2>1, <2>2
<1>4. ASSUME NEW g \in GameIds, NEW w \in Wallets, ResignGame(g, w) PROVE MoneyMoves
  <2>1. /\ Active(g)
        /\ EndGame(g, game[g], Wins(1 - ColorOf(game[g], w)), "Resignation")
    BY <1>4 DEF ResignGame
  <2>. QED
    BY <1>0, <2>1, EndMoves
<1>5. ASSUME NEW g \in GameIds, NEW w \in Wallets, AcceptDraw(g, w) PROVE MoneyMoves
  <2>1. Active(g) /\ EndGame(g, game[g], "Draw", "DrawAgreed")
    BY <1>5 DEF AcceptDraw
  <2>. QED
    BY <1>0, <2>1, EndMoves
<1>6. ASSUME NEW g \in GameIds, SyncClock(g) PROVE MoneyMoves
  <2>1. Active(g) /\ (LoseOnTime(g) \/ UNCHANGED <<game, vault, wallet>>)
    BY <1>6 DEF SyncClock
  <2>2. CASE UNCHANGED <<game, vault, wallet>>
    BY <2>2 DEF MoneyMoves, Unmoved, Accounts, Exists
  <2>. QED
    BY <2>1, <2>2, FlagMoves
<1>7. ASSUME NEW g \in GameIds, NEW w \in Wallets, OfferDraw(g, w) PROVE MoneyMoves
  <2>1. Accounts' = Accounts
    BY <1>0, <1>7 DEF OfferDraw, Accounts, Active, Exists, Account
  <2>. QED
    BY <1>7, <2>1 DEF OfferDraw, MoneyMoves, Unmoved
<1>8. ASSUME NEW g \in GameIds, NEW w \in Wallets, CloseGame(g, w) PROVE MoneyMoves
  <2>1. g \in Accounts /\ Accounts' = Accounts \ {g}
    BY <1>0, <1>8 DEF CloseGame, Accounts, Exists, NoGame
  <2>2. Drained(g)
    BY <1>8, <2>1 DEF CloseGame, Drained
  <2>. QED
    BY <2>2 DEF MoneyMoves
<1>9. ASSUME NEW g \in GameIds, NEW w \in Wallets, NEW amount \in Deposits,
             Deposit(w, g, amount)
      PROVE  MoneyMoves
  <2>1. Stake(w, g, amount, 0) /\ Accounts' = Accounts /\ amount \in Nat
    BY <1>9, MoneyAssumption DEF Deposit, Accounts, Exists
  <2>. QED
    BY <2>1 DEF MoneyMoves, Staked
<1>10. ASSUME NEW g \in GameIds, NEW kind \in ReactionKinds, NEW register \in BOOLEAN,
              RecordReaction(g, kind, register)
       PROVE  MoneyMoves
  <2>1. Accounts' = Accounts
    BY <1>0, <1>10 DEF RecordReaction, Accounts, Exists, Account
  <2>. QED
    BY <1>10, <2>1 DEF RecordReaction, MoneyMoves, Unmoved
<1>11. CASE Tick \/ UNCHANGED vars
  BY <1>11 DEF Tick, vars, MoneyMoves, Unmoved, Accounts, Exists
<1>. QED
  BY <1>1, <1>2, <1>3, <1>4, <1>5, <1>6, <1>7, <1>8, <1>9, <1>10, <1>11
  DEF Next, GameStep

-----------------------------------------------------------------------------
(* The balance sheet.                                                      *)

Rent == GameRent + StreamRent
Total == SumFunctionOnSet(wallet, Wallets) + SumFunctionOnSet(vault, GameIds)
         + Cardinality(Accounts) * Rent

\* The balances are integers, over finitely many holders.
Sheet == /\ IsFiniteSet(Wallets) /\ IsFiniteSet(GameIds)
         /\ wallet \in [Wallets -> Int] /\ vault \in [GameIds -> Int]

\* The three sums of a balance sheet are integers.
LEMMA SheetSums ==
  ASSUME Sheet
  PROVE  /\ SumFunctionOnSet(wallet, Wallets) \in Int
         /\ SumFunctionOnSet(vault, GameIds) \in Int
         /\ IsFiniteSet(Accounts) /\ Cardinality(Accounts) \in Nat
         /\ Rent \in Nat
<1>1. Accounts \in SUBSET GameIds
  BY DEF Accounts
<1>2. IsFiniteSet(Accounts) /\ Cardinality(Accounts) \in Nat
  BY <1>1, FS_Subset, FS_CardinalityType DEF Sheet
<1>3. Rent \in Nat
  BY MoneyAssumption DEF Rent
<1>. QED
  BY <1>2, <1>3, SumType DEF Sheet

\* One holder's balance changes by d.
Adjusts(f, h, x, d) == h = [f EXCEPT ![x] = f[x] + d]

\* The sum changes by as much.
LEMMA SumAfter ==
  ASSUME NEW S, IsFiniteSet(S), NEW f \in [S -> Int], NEW h, NEW x \in S, NEW d \in Int,
         Adjusts(f, h, x, d)
  PROVE  /\ h \in [S -> Int]
         /\ SumFunctionOnSet(h, S) = SumFunctionOnSet(f, S) + d
<1>1. /\ h \in [S -> Int] /\ h[x] = f[x] + d /\ f[x] \in Int
      /\ \A y \in S \ {x} : h[y] = f[y]
  BY DEF Adjusts
<1>2. SumFunctionOnSet(f, S) \in Int
  BY SumType
<1>3. SumFunctionOnSet(h, S) = SumFunctionOnSet(f, S) + (h[x] - f[x])
  BY <1>1, SumChanges
<1>. QED
  BY <1>1, <1>2, <1>3

\* A stake goes from a wallet to a vault, the rent out of the wallet.
LEMMA StakeBalances ==
  ASSUME Sheet, NEW g \in GameIds, NEW from \in Wallets, NEW amount \in Nat,
         NEW rent \in Nat, Stake(from, g, amount, rent)
  PROVE  /\ SumFunctionOnSet(wallet', Wallets) =
              SumFunctionOnSet(wallet, Wallets) - rent - amount
         /\ SumFunctionOnSet(vault', GameIds) = SumFunctionOnSet(vault, GameIds) + amount
<1>. DEFINE d == -(rent + amount)
<1>0. /\ IsFiniteSet(Wallets) /\ wallet \in [Wallets -> Int] /\ wallet[from] \in Int
      /\ IsFiniteSet(GameIds) /\ vault \in [GameIds -> Int]
  BY DEF Sheet
<1>1. wallet[from] - rent - amount = wallet[from] + d /\ d \in Int
  BY <1>0
<1>. HIDE DEF d
<1>2. Adjusts(wallet, wallet', from, d) /\ Adjusts(vault, vault', g, amount)
  BY <1>1 DEF Stake, Adjusts
<1>3. SumFunctionOnSet(wallet', Wallets) = SumFunctionOnSet(wallet, Wallets) + d
  BY <1>0, <1>1, <1>2, SumAfter
<1>4. SumFunctionOnSet(vault', GameIds) = SumFunctionOnSet(vault, GameIds) + amount
  BY <1>0, <1>2, SumAfter
<1>. QED
  BY <1>3, <1>4, SheetSums DEF d

\* A settlement takes from the vault what it gives to the two players.
LEMMA SettleBalances ==
  ASSUME Sheet, NEW g \in GameIds, vault[g] \in Nat, NEW G \in Account,
         NEW result \in {"WhiteWins", "BlackWins", "Draw"},
         G.player[0] \in Wallets, G.player[1] \in Wallets,
         G.player[0] # G.player[1], SettleWager(g, G, result)
  PROVE  /\ SumFunctionOnSet(wallet', Wallets) =
              SumFunctionOnSet(wallet, Wallets) + Payout(g, G)
         /\ SumFunctionOnSet(vault', GameIds) =
              SumFunctionOnSet(vault, GameIds) - Payout(g, G)
<1>. DEFINE white == G.player[0]
            black == G.player[1]
            a == Share(g, G, result, 0)
            b == Share(g, G, result, 1)
            pay == Payout(g, G)
            paid == [wallet EXCEPT ![white] = wallet[white] + a]
            minus == -pay
<1>1. a \in Int /\ b \in Int /\ pay \in Nat /\ a + b = pay
  BY ShareBounds DEF Colors
<1>2. wallet' = [wallet EXCEPT ![white] = wallet[white] + a, ![black] = wallet[black] + b]
  BY DEF SettleWager
<1>3. Adjusts(vault, vault', g, minus) /\ minus \in Int
  <2>1. vault' = [vault EXCEPT ![g] = vault[g] - pay] /\ pay \in Nat /\ vault[g] \in Nat
    BY <1>1 DEF SettleWager
  <2>. HIDE DEF pay
  <2>2. vault[g] - pay = vault[g] + minus /\ minus \in Int
    BY <2>1
  <2>. HIDE DEF minus
  <2>. QED
    BY <2>1, <2>2 DEF Adjusts
<1>. HIDE DEF a, b, pay, minus, white, black
<1>4. white \in Wallets /\ black \in Wallets /\ white # black
  BY DEF white, black
<1>5. Adjusts(paid, wallet', black, b) /\ Adjusts(wallet, paid, white, a)
  BY <1>2, <1>4 DEF Sheet, Adjusts
<1>. HIDE DEF paid
<1>6. /\ paid \in [Wallets -> Int]
      /\ SumFunctionOnSet(paid, Wallets) = SumFunctionOnSet(wallet, Wallets) + a
  BY <1>1, <1>4, <1>5, SumAfter DEF Sheet
<1>7. SumFunctionOnSet(wallet', Wallets) = SumFunctionOnSet(paid, Wallets) + b
  <2>1. IsFiniteSet(Wallets) /\ paid \in [Wallets -> Int] /\ black \in Wallets /\ b \in Int
        /\ Adjusts(paid, wallet', black, b)
    BY <1>1, <1>4, <1>5, <1>6 DEF Sheet
  <2>. QED
    BY <2>1, SumAfter
<1>8. SumFunctionOnSet(vault', GameIds) = SumFunctionOnSet(vault, GameIds) + minus
  BY <1>3, SumAfter DEF Sheet
<1>9. /\ SumFunctionOnSet(wallet', Wallets) = SumFunctionOnSet(wallet, Wallets) + pay
      /\ SumFunctionOnSet(vault', GameIds) = SumFunctionOnSet(vault, GameIds) - pay
  <2>1. SumFunctionOnSet(wallet, Wallets) \in Int /\ SumFunctionOnSet(vault, GameIds) \in Int
    BY SheetSums
  <2>. QED
    BY <1>1, <1>6, <1>7, <1>8, <2>1 DEF minus
<1>. QED
  BY <1>9 DEF pay

\* A close moves the vault and both rents to the creator.
LEMMA DrainBalances ==
  ASSUME Sheet, NEW g \in GameIds, vault[g] \in Nat, Drained(g)
  PROVE  /\ SumFunctionOnSet(wallet', Wallets) =
              SumFunctionOnSet(wallet, Wallets) + vault[g] + Rent
         /\ SumFunctionOnSet(vault', GameIds) = SumFunctionOnSet(vault, GameIds) - vault[g]
<1>. DEFINE d == vault[g] + GameRent + StreamRent
            minus == -vault[g]
<1>1. g[1] \in Wallets /\ d \in Int /\ minus \in Int /\ vault[g] + minus = 0
  BY WalletsAssumption, MoneyAssumption DEF GameIds
<1>2. Adjusts(wallet, wallet', g[1], d)
  BY DEF Drained, Adjusts
<1>3. Adjusts(vault, vault', g, minus)
  <2>1. vault' = [vault EXCEPT ![g] = 0]
    BY DEF Drained
  <2>. HIDE DEF minus
  <2>. QED
    BY <1>1, <2>1 DEF Adjusts
<1>. HIDE DEF d, minus
<1>4. SumFunctionOnSet(wallet', Wallets) = SumFunctionOnSet(wallet, Wallets) + d
  BY <1>1, <1>2, SumAfter DEF Sheet
<1>5. SumFunctionOnSet(vault', GameIds) = SumFunctionOnSet(vault, GameIds) + minus
  <2>1. IsFiniteSet(GameIds) /\ vault \in [GameIds -> Int] /\ minus \in Int
        /\ Adjusts(vault, vault', g, minus)
    BY <1>1, <1>3 DEF Sheet
  <2>. QED
    BY <2>1, SumAfter
<1>. QED
  BY <1>4, <1>5, SheetSums, MoneyAssumption DEF d, minus, Rent

\* No transfer changes the total.
LEMMA MovesBalance ==
  ASSUME Sheet, Sheet', \A g \in GameIds : vault[g] \in Nat, MoneyMoves
  PROVE  Total' = Total
<1>. DEFINE W == SumFunctionOnSet(wallet, Wallets)
            V == SumFunctionOnSet(vault, GameIds)
            n == Cardinality(Accounts)
<1>0. /\ W \in Int /\ V \in Int /\ n \in Nat /\ Rent \in Nat /\ IsFiniteSet(Accounts)
      /\ Total = W + V + n * Rent
  BY SheetSums DEF Total
<1>1. Total' = SumFunctionOnSet(wallet', Wallets) + SumFunctionOnSet(vault', GameIds)
               + Cardinality(Accounts') * Rent
  BY DEF Total
<1>. HIDE DEF W, V, n
<1>2. CASE Unmoved
  BY <1>0, <1>1, <1>2 DEF Unmoved, W, V, n
<1>3. ASSUME NEW g \in GameIds, NEW from \in Wallets, NEW amount \in Nat,
             Staked(g, from, amount)
      PROVE  Total' = Total
  <2>1. /\ SumFunctionOnSet(wallet', Wallets) = W - 0 - amount
        /\ SumFunctionOnSet(vault', GameIds) = V + amount
    BY <1>3, StakeBalances DEF Staked, W, V
  <2>2. Cardinality(Accounts') = n
    BY <1>3 DEF Staked, n
  <2>. QED
    BY <1>0, <1>1, <2>1, <2>2
<1>4. ASSUME NEW g \in GameIds, NEW from \in Wallets, NEW amount \in Nat,
             Opened(g, from, amount)
      PROVE  Total' = Total
  <2>1. /\ SumFunctionOnSet(wallet', Wallets) = W - Rent - amount
        /\ SumFunctionOnSet(vault', GameIds) = V + amount
    BY <1>0, <1>4, StakeBalances DEF Opened, Rent, W, V
  <2>2. Cardinality(Accounts') = n + 1
    BY <1>0, <1>4, FS_AddElement DEF Opened, n
  <2>3. (n + 1) * Rent = n * Rent + Rent /\ n * Rent \in Nat
    BY <1>0
  <2>. QED
    BY <1>0, <1>1, <2>1, <2>2, <2>3
<1>5. ASSUME NEW g \in GameIds, NEW G \in Account,
             NEW result \in {"WhiteWins", "BlackWins", "Draw"},
             G.player[0] \in Wallets, G.player[1] \in Wallets,
             G.player[0] # G.player[1], Settled(g, G, result)
      PROVE  Total' = Total
  <2>1. /\ SumFunctionOnSet(wallet', Wallets) = W + Payout(g, G)
        /\ SumFunctionOnSet(vault', GameIds) = V - Payout(g, G)
    BY <1>5, SettleBalances DEF Settled, W, V
  <2>2. Payout(g, G) \in Nat
    BY ShareBounds
  <2>3. Cardinality(Accounts') = n
    BY <1>5 DEF Settled, n
  <2>. QED
    BY <1>0, <1>1, <2>1, <2>2, <2>3
<1>6. ASSUME NEW g \in GameIds, Drained(g) PROVE Total' = Total
  <2>1. /\ SumFunctionOnSet(wallet', Wallets) = W + vault[g] + Rent
        /\ SumFunctionOnSet(vault', GameIds) = V - vault[g]
    BY <1>6, DrainBalances DEF W, V
  <2>2. Cardinality(Accounts') = n - 1 /\ vault[g] \in Nat
    BY <1>0, <1>6, FS_RemoveElement DEF Drained, n
  <2>3. (n - 1) * Rent = n * Rent - Rent /\ n * Rent \in Nat
    BY <1>0
  <2>. QED
    BY <1>0, <1>1, <2>1, <2>2, <2>3
<1>. QED
  BY <1>2, <1>3, <1>4, <1>5, <1>6 DEF MoneyMoves

\* Over any finite sets of wallets and games, any stakes, deposits and rents, and
\* in any order of the instructions, no lamport is created and none is lost.
THEOREM LamportsKept ==
  ASSUME IsFiniteSet(Wallets), IsFiniteSet(GameIds)
  PROVE  Spec => []LamportsConserved
<1>. DEFINE Balanced == Total = SumFunctionOnSet(Funds, Wallets)
<1>1. TypeOK => Sheet /\ \A g \in GameIds : vault[g] \in Nat
  BY WidthAssumption DEF TypeOK, Sheet
<1>2. Init => Balanced
  <2>. SUFFICES ASSUME Init PROVE Balanced
    OBVIOUS
  <2>1. Sheet
    BY <1>1, Initially DEF IInv
  <2>2. Accounts = {}
    BY DEF Init, Accounts, Exists, NoGame
  <2>3. Cardinality(Accounts) = 0
    BY <2>2, FS_EmptySet
  <2>4. SumFunctionOnSet(vault, GameIds) = 0
    BY <2>1, NoneIsZero DEF Sheet, Init
  <2>. QED
    BY <2>1, <2>3, <2>4, SheetSums DEF Total, Init
<1>3. IInv /\ IInv' /\ Balanced /\ [Next]_vars => Balanced'
  <2>. SUFFICES ASSUME IInv, IInv', [Next]_vars PROVE Total' = Total
    OBVIOUS
  <2>1. Sheet /\ Sheet' /\ \A g \in GameIds : vault[g] \in Nat
    BY <1>1 DEF IInv, TypeOK, Sheet
  <2>2. MoneyMoves
    BY StepMoves DEF IInv
  <2>. QED
    BY <2>1, <2>2, MovesBalance
<1>4. Balanced => LamportsConserved
  BY DEF Total, Accounts, Rent, LamportsConserved
<1>. QED
  BY <1>2, <1>3, <1>4, Invariance, PTL DEF Spec

=============================================================================
