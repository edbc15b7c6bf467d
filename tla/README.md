# Empire of Bits, Reactive Chess Engine: a TLA+ verification project

The repository is a Solana program (Rust, Anchor) that plays wagered chess matches on chain, with
a TypeScript client and an event subscriber. This directory holds TLA+ modules that model the
program, TLC configurations that model-check them on small instances, and TLAPS proofs of the
properties that matter most, for every value of the constants.

Paths below are relative to `src/programs/anchor-project/src/` unless they say otherwise.

## 1. Inventory

### Components

| Part | Source | State it keeps | Operations |
|---|---|---|---|
| Match lifecycle | `state.rs`, `instructions/create_game.rs`, `join_game.rs`, `resign_game.rs`, `close_game.rs` | a `Game` account per (creator, session id): status, result, end reason, seats | create, join, resign, close |
| Move handler | `instructions/make_move.rs` | side to move, history, nonce, clocks, draw offer of the `Game` | make_move |
| Draw agreement | `offer_draw.rs`, `accept_draw.rs` | `draw_offer` | offer, accept |
| Clocks | `make_move.rs`, `sync_clock.rs`, `TimeControl` in `state.rs` | two clocks in ms, `last_move_ts` in s | charged by make_move; sync_clock, callable by anyone, flags |
| Wager escrow | `instructions/mod.rs`, the transfers of create and join, the drain of close | lamports of a vault address per game | stake, settle, drain |
| Audience | `record_reaction.rs` | counters in `StreamSession` and `Game` | record_reaction |
| Events | `events.rs` | none; a list in each transaction's log | emitted by the handlers |
| Rules engine | `chess/board.rs`, `chess/mod.rs`, `chess/movegen.rs` | `ChessState`: squares, side, castling rights, en passant, two counters | `apply_move`, `compute_status`, the legality probe, packed moves |
| Entry points | `lib.rs` | none | nine instructions |
| Error codes | `errors.rs` | none | none |
| Client, subscriber | `src/app/client.ts`, `src/app/subscribe.ts` | none of their own | build and send transactions; print events |

### How they interact

The Solana runtime executes one instruction at a time on a given account: a transaction is atomic,
sees the effects of all earlier ones, and leaves no trace if it returns an error. What can
interleave is the order of whole transactions, sent by players, keepers, spectators and strangers,
and the passing of time between them. All handlers share the `Game` account; `create_game`,
`join_game` and `close_game` also move lamports to and from the vault, and every handler that ends a
game calls `settle_wager` and then `finalize_game`. `make_move` calls `apply_move`, which calls the
legality probe, which calls `apply_move`. Clients and overlays see accounts and event lists only.

### What is hard

- *Races of whole transactions.* A late move, a resignation, an acceptance, a counter-offer and a
  keeper's flag for the same game; a join and a close.
- *The network.* A client signs what it saw; the transaction is executed late, after others, again
  on a retry, or in the next match at the same address.
- *Money.* Vault addresses outlive games and can receive lamports from anyone at any time; the same
  address hosts game after game.
- *Time.* Clocks in milliseconds over a cluster clock in seconds that may step back.
- *All or nothing.* A final result written before an error is returned is lost.
- *Rules of chess.* Pins, castling through attack, en passant and the verdicts, over arithmetic on
  square numbers.
- *Recursion.* The legality probe.
- *Progress.* Nothing runs by itself on chain; a deserted game ends only if somebody calls.

`PROJECT.json` lists the hazards one by one, each at its line, with the properties that watch it.

### What makes each part correct

| Part | Correctness |
|---|---|
| Lifecycle | forward only; terms, players and result, once written, stand; finished is final; result fits reason; two different players |
| Moves | nonce, history and side to move never drift apart |
| Draws | an offer belongs to a running game; every move clears it; between moves only another offer replaces it |
| Clocks | an empty clock means a lost game; each player pays for its own time; a fallen flag is final; a flagged game ends |
| Escrow | the vault is exact; payouts are exact; lamports are conserved |
| Audience | counters saturate |
| Events | the end of a game is announced once, last, by the transaction that ends it; `MovePlayed` redraws the board |
| Escrow, seen by players | the program implements the match it promises: two stakes, one outcome, one payout |
| Moves in transit | a move takes effect at the ply it was decided for; at most one per ply |
| Board in the account | the verdict recorded is the one the position bears and the laws of chess give; history and counters tell the board |
| Engine | accepts exactly the legal moves; verdicts agree, are the laws' and are due; a material draw takes a win from nobody; the history replays |
| Probe | right when it returns |

## 2. Modules

| Module | Models |
|---|---|
| `ChessProgram` | the nine instructions over all accounts, one atomic action each, with the cluster clock and strangers' deposits as environment |
| `WagerMatch` | abstract: what a wagered match promises, without escrow, clocks or board |
| `MatchRefinement` | the mapping under which `ChessProgram` implements `WagerMatch` |
| `MoveDelivery` | `ChessProgram` and the clients: requests decided, signed, retried; transactions delayed, reordered, repeated, lost |
| `BoardMatch` | `ChessProgram` with `ChessEngine` inside: boards and histories in the accounts |
| `ChessEngine` | the rules engine as operators: `Legal`, `Apply`, `Outcome`, `ComputeStatus`, `Pack` |
| `ChessRules` | the laws of chess, written independently: the reference for `ChessEngine` |
| `ChessView` | positions of `ChessEngine` as `ChessRules` sees them: the two vocabularies side by side |
| `ChessPlay` | a game as `make_move` drives the engine, with history variables |
| `MateProbe` | the recursion of the legality probe, call by call |
| `Lamports` | the sum of all accounts' lamports, over `ChessProgram` |
| `X_proofs` | TLAPS: the theorems about module `X` |
| `MCX` | constants, start positions, lines of play and symmetry for TLC |

How they compose: `MatchRefinement`, `MoveDelivery` and `BoardMatch` each EXTEND `ChessProgram` and
use its actions whole. `ChessView` EXTENDS `ChessEngine` and takes `ChessRules` by INSTANCE;
`BoardMatch` and `ChessPlay` EXTEND it, `MateProbe` the engine alone. That the two compositions are `ChessProgram` again (`NetworkSafe`, `EngineInside`) is
proved, so every theorem about `ChessProgram` holds of them.

### ChessProgram and the code

- `game`, `stream` and `vault` are functions over addresses. An address is derived from the creator
  and a session id (`create_game.rs` 39-71), the other two from the game's, so one pair names all
  three accounts. `status = "NoAccount"` says that nothing is there.
- Each action is a whole handler with its account constraints. A refused transaction changes
  nothing, so refusals are guards. Which error is reported is not modelled.
- The board is reduced to what the other handlers can tell: the side to move, the number of plies
  and the outcome (`MoveOutcome`) of a legal move, chosen freely among the combinations the engine
  can report. Whether a move is legal is left to the mover; `ChessPlay` is about that.
- `player[0]` and `player[1]` are `white` and `black`, `clock_ms[c]` the two clocks; `plies` is
  `move_history.len()`. `move_nonce` wraps at its width as in the code.
- `EndGame` is `settle_wager` followed by `finalize_game`. On the eight paths that end a game the
  code calls both in that order, with the other writes before.
- `log` is what the last transaction left in the program log. `used` (the seconds each colour of a
  timed game has had the move) and `stray` are history variables that no action reads.
- Seconds pass in `Tick`. `MaxSkew > 0` lets the cluster clock step back.
- `MayDebit` is the runtime's rule that only the owner of an account may take lamports from it
  (`OwnerDebitOnly`). The vault belongs to the system program, so with the rule no wagered game can
  be settled (see Findings). All other runs and all proofs take the code as meant,
  `OwnerDebitOnly = FALSE`, or leave the constant open.

### WagerMatch and MatchRefinement

`WagerMatch` has five steps: offer a match, accept it, conclude it, clear it away, leave a gift at
its venue. A conclusion pays in the same step. The mapping forgets vaults, clocks, boards, offers
and counters; a gift is a stranger's deposit at the vault's address. All nine instructions, ticks
and deposits are steps of `WagerMatch` or stutter. What this says beyond the single invariants is
that they fit: no instruction, in any order, pays anybody anything but what the match owes.

### MoveDelivery and the code

- `Decide` is a player's choice of a move, with the nonce it sees (`client.ts` 126-134), or to offer
  a draw. `Submit` is the rest of `makeMove`: fetch the account for the payees, sign, send. A retry
  submits again. `Execute` is the cluster running any transaction ever signed, any number of times
  up to `MaxRepeats`: one signature is executed once only, but a retry has a new one.
- `make_move` pins both payees to the account's players (`make_move.rs` 58-65), hence `seats`.
- `life` counts the matches at an address; `applied` records successful executions. `AppliedAsDecided`
  compares plies and says nothing of which match; that is `MovesApplyOnce` (see Findings).
- `Direct` lets everything else happen at once, moves of other clients included.

### BoardMatch and the code

- `board` and `history` are `Game.chess` and `Game.move_history`. `PlayMove` is `make_move` with the
  engine's answers in place of a free choice; its last branch, which recomputes the status
  (`make_move.rs` 264-286), is folded into `Verdict`.
- `Candidates` is a bound, not code: players send moves from `Lines` only, since all of chess is out of
  TLC's reach, and at any time one the engine refuses. `make_move` looks at the flag before it looks at
  the move, so with the refused one a late player loses on time wherever its line has ended. The proofs
  hold for every set of lines.
- `Replayed` is what a reader makes of a history: entries decoded as the client does and played on a
  board. It is part of a property and stands for no function of the repository.

### ChessEngine, ChessRules, ChessPlay, MateProbe and the code

- `ChessEngine` has one operator per function of `movegen.rs` or per block of `apply_move`. Bit sets
  are sets of names. Squares and pieces keep the code's numbers, since the arithmetic on them is
  what could be wrong.
- `InOrder` says what the engine takes for granted of a position: one king each, the side that has
  moved not in check, a sound en-passant target, kings and rooks at home where there are rights.
- `ChessRules` uses none of it: coordinates from 1 to 8, lines of sight, squares between, and the
  right to castle judged by which squares have been left or entered since the start.
- `ChessPlay` plays legal moves from `Starts`. `event` is the payload of `MovePlayed` (`make_move.rs`
  174-194): colour, squares, piece, captured piece, promotion, flags. `EventRedraws` and
  `CaptureReported` read nothing else of a move. `touched`, `quiet` and `before` record what happened,
  independently of the engine's own bookkeeping.
- In the code, `AnyLegal` is a search that calls `apply_move` again. `ChessEngine` has the answer
  the search gives when it gives one. `MateProbe` models the search: `Descend` is one pair of call
  frames, `Return` the unwinding of all of them, since every frame returns true as soon as the call
  below it has returned.

`ChessProgram`, `BoardMatch` and `ChessPlay` are partial-correctness models in this respect: a move whose probe
runs out of stack or compute budget is a failed transaction, that is, a stutter.

## 3. Runs

Passing runs, all exhaustive:

| Run | Question | Bounds |
|---|---|---|
| `MCMoney` | is the escrow exact, over two games at once and over a sequence of games at one address? | 2 wallets, both creators; stakes 0 and 1, deposits of 1, rent 1, one ply |
| `MCClocks` | are clocks, nonces and flags right, and does a flagged game end? | 2500+1000 ms and 2000+0 ms, 5 s, 3 plies, stake 1; fairness of `sync_clock` |
| `MCMatch` | do all ways to end a match fit together? | 3 wallets; casual, timed and rejected time controls; 3 s, steps back of 1 s, so that clocks are held to account under skew too; 2 plies; reactions of kinds 0, 3 and the refused 4, counters of width 2 and 1 |
| `MCEngine` | does the engine accept exactly the legal moves, report what happened, and give the verdict of the laws on the right ply? | two plies from fourteen positions, every pair of squares, promotion bytes 0..7 |
| `MCBoard` | does the account record the verdict its position bears, are its mates and stalemates those of the laws, and do history and counters tell the board? | seven lines from the opening, to ply 101; 1 s clocks; the real capacity of 256 plies |
| `MCDelivery` | what may late, repeated and reordered requests do? | two requests, each applied up to twice; two matches at one address; 3 plies; 1 s |
| `MCProbe` | is the probe right when it returns? | all 62 placings of a queen against a cornered king |

Why the bounds are enough. In `ChessProgram` no guard looks at more than one game, at most two
players and one time stamp; two games, three wallets and two plies already give every pair of
conflicting transactions in both orders, before and after the first move of each colour, and a
closed address used again. Widths are small (`U64_MAX` at most 12 rather than 2^64 - 1), so that
counters saturate and transfers that would overflow are refused. In `ChessPlay` a state is compared
with the laws of chess for all 64 x 64 x 7 candidate moves, so a run of 3600 positions checks a
hundred million decisions; the start positions are chosen for the branches of the validators:
castling both ways with rooks that attack, capture and check, captures en passant that are legal
and one that exposes the king, promotions by push and capture, mates, stalemate, the hundredth
quiet ply, bare bishops, one minor piece against another, and the opening itself. In `MoveDelivery` a violation of either property
needs two executions of two requests, or of one twice, and a match between them (`MaxRequests`,
`MaxRepeats` and `MaxLives` are 2). In `BoardMatch` every verdict is reached by a line of its own,
and flags, resignations and agreements cut the lines at every ply.

`MCDelivery` uses two reductions. Requests are interchangeable names (SYMMETRY). Its VIEW drops the
log and the outcome of a game, which no guard and neither property reads; everything else a step
depends on is kept.

`CHECK_DEADLOCK FALSE` stands where the system may really stop: with time at `MaxTime`, funds spent
or the plies used up, nothing more can happen.

### Fairness

- `FairKeepers`: weak fairness of `SyncClock(g)`. Any wallet may sign it, it needs no stake, and
  its guard, an active game, stays true until the game ends. No player owes a step.
- `FairMovers`, only for `MCHistoryFull`: the movers go on submitting moves that would be accepted.
- `MateProbe`: sequential code takes its next step.

### Findings

Each is a run that TLC ends with a counterexample; `PROJECT.json` quotes the line it contradicts.

1. `MCHistoryFull`: with the history full, `make_move` writes the result `Abandoned` and then
   returns an error, so nothing is written and no further move is possible (`make_move.rs` 152-153).
2. `MCProbeDepth`: after 1.e2-e4 the legality probe plays a game of its own that after 84 plies
   repeats a position; it never returns (`movegen.rs` 186, 564). On chain the call stack ends it.
3. `MCOwnerRule`: the program debits a vault it does not own (`instructions/mod.rs` 129,
   `close_game.rs` 81), which the runtime forbids. A wagered game can neither be settled nor closed.
4. `MCReplay`: `create_game` starts the nonce at 0 again (`create_game.rs` 119). A request signed, or
   signed again, for a ply of a closed match is played at that ply of the next one at its address.
   Within one match it cannot be: `RetryMovesOnce` is proved.
5. `MCStaleOffer`: `offer_draw` carries no nonce. Its retry after a move arms the offer the move had
   declined.

Smaller ones that need no run: `close_game` emits no event (`events.rs` 4: "emitted by every
state-changing instruction"); the flag branch of `make_move` (106-127) emits `GameEnded` only, where
`src/README.md` 150 lists `MovePlayed` for every successful `make_move`; `SpectatorJoined` comes with every
registration, not the first (`src/README.md` 158), so the spectator "headcount" (`state.rs` 175) counts one
wallet any number of times.

## 4. Proofs

`ChessProgram_proofs` proves `Invariance`, `Spec => []IInv`, where `IInv` is the conjunction of

- the checked invariants `TypeOK`, `SeatsTaken`, `VaultExact`, `NonceNamesPly`, `OutcomeFitsReason`,
  `OfferIsLive`, `ZeroClockMeansTimeout`, `TimeConserved`, and
- two strengthenings: `NoFutureStamp` (without skew no time stamp lies ahead of the clock), without
  which a move could be charged a negative time, and `WaitingIsFresh` (a waiting game has no plies
  and both clocks full), without which `join_game` could start a game whose clocks are already off.

None of the interesting conjuncts is inductive alone. That a payout is exact needs the vault to hold
both stakes, which needs that two were paid in, by different wallets. That clocks add up needs the
flag test to have kept every charge below the clock it is taken from, and the plies to say whose move
it was (`NonceNamesPly`). The proof has one lemma per action, and under it one step per conjunct the
action can disturb.

`TimeConserved` is about each clock by itself: initial time, one increment per move of its owner
(`MovesOf`), less the seconds that ticked while its owner was on the move, up to the last move. A
handler that charged the other side, or one side twice, would keep the sum of both clocks and break it.

The action properties `PayoutExact`, `ForwardOnly`, `FinishedIsFinal`, `OfferStands` and
`FlagIsFinal` follow from `IInv` in the first state of a step. `FlagStays` assumes `MaxSkew = 0`:
when the cluster clock steps back, a flag that nobody has claimed may indeed rise again.
`MatchForward` says that no step but the one that ends a match writes its result, and none its stake,
time control or, once both are there, its players. `OfferKept` has two halves: a step with a ply more
is `make_move`, which clears the offer; any other step with a new offer is `offer_draw` of that very
game (`OffersSigned`). `EndAnnounced` looks at every position of a transaction's log: a lemma per kind of
list says where in it `GameEnded` stands (`EndsOfLists`, `MoveAnnounces`), an action at a time.
`CountersKept` is proved action by action too.

`Lamports_proofs` proves `LamportsKept` for any finite sets of wallets and games. Every step of the
program is one of five kinds (stake, open, settle, drain, unmoved), and each kind changes the three
sums by amounts that cancel; that `settle` pays out no more than it takes is `VaultExact`. What a sum
over a finite set does when one entry changes is proved first, from the well-foundedness of
strict inclusion among finite sets, since induction theorems cannot be used.

`ChessEngine_proofs` is about one position and one move. Its results are

- `OrderKept`: from a position `InOrder`, every legal move leads to a position `InOrder`. A king that
  could be taken would stand on an attacked square, and the side that has moved leaves none; hence a
  legal move never takes a king, kings stay unique, and the pawn behind an en-passant target is there.
  For the same reason the last refusal of `apply_move`, a responder without a king (`movegen.rs` 184, a
  conjunct of `Legal`), never happens (`OtherKing`).
  Everything about games rests on it, because the engine's own tests (a king found by scanning, rights
  kept by square, a victim looked up behind the target) are right only in such positions.
- `LegalAgrees`: in a position `InOrder`, `apply_move` accepts exactly what the laws allow. The two
  sides share no definition. The engine adds 7, 8, 9 or 1 to a square number and watches for a jump
  across the edge; `ChessRules` speaks of files, ranks and lines of sight. The lemmas climb from one
  to the other: a ray in a direction is a line of coordinates, walked without wrapping (`WalkOn`,
  `LineOf`); what it passes is what lies between (`PassedIsBetween`); a target that scans outwards
  sees the same attackers as they see it (`SightBack`, `AttackedAgrees`); pawns, castling and pieces
  agree one by one (`PawnAgrees`, `CastleAgrees`, `ShapeAgrees`); so do the boards after a move
  (`PlayAgrees`), hence who is in check there.
- `VerdictsAreLaws`: check, mate and stalemate are those of the laws, because the probe's candidates
  are all the moves the laws know (`StuckAgrees`), promotions included.
- `ScarceIs`, `ScarceKept`, `NoMate`: what the code counts as insufficient material comes to bare
  kings with at most one minor piece, or one bishop each on squares of one colour. A legal move leaves
  such a position only for another one, since a bishop never changes the colour of its squares. And
  nobody is mated there: of a king's steps along rank and file one leads away from the other king
  (`StepAway`). A step along rank or file changes the colour of the square. If a bishop gives check,
  every bishop on the board stands on the colour the king leaves; if a knight does, it attacks the
  colour the king leaves and stands on the one it goes to, where it can only be captured.

`ChessPlay_proofs` proves, for every set of start positions that are typed and `InOrder` and every
number of plies:

- positions stay typed and in order; kings, en-passant targets and castling rights are sound;
- the draw comes on the hundredth quiet ply exactly, and the two verdicts never differ;
- the 16-bit history entry of every move replays to the position held by the account (`PackUnpack`:
  the packing loses nothing, because a legal promotion fits in four bits);
- `MovePlayed` redraws the board, and the captured piece it names is the one that leaves it. A
  castling move, a capture en passant and a promotion are cases of their own in both;
- `EngineSound` and `LawfulSound`: the engine accepts exactly the legal moves of chess, and reports
  check, mate and stalemate exactly when the laws do;
- `DeadSound`: the draw for want of material is given in positions without mate and without a way
  out of them. `DeadForever` says the same of play without end: as if the draw had not been given, no
  series of legal moves of any length from such a position ever mates. TLC cannot check that one,
  since nothing bounds the play; its first step is `DrawIsDead`, which it does check.

What the engine stores and what the laws ask of the game so far are tied by three invariants:
positions are in order, a right is there as long as its squares are untouched (`RightsInvariance`),
and the target is the square the last two boards say a pawn has passed (`PassedInvariance`). Start
positions are assumed to be in order, as `Initial` is (`OrderAssumption`).

`MatchRefinement_proofs` proves `PromiseKept`, `Spec => KeepsPromise`: one lemma per instruction
names the step of `WagerMatch` it is. It needs `IInv`: that `settle_wager` pays what a conclusion
owes takes `VaultExact`, and that a closer gets back what it put in takes `SeatsTaken`.

`MoveDelivery_proofs` proves `NetworkSafe`, `DeliverySpec => Spec`, and the two properties of requests,
from an invariant that dates everything: in a running match a request's nonce is the ply at which it
was decided, and what was applied lies before the ply the match has reached.

`BoardMatch_proofs` proves `EngineInside`, `BoardSpec => Spec` (the engine never reports a mate
without check or with stalemate, which `ChessProgram` excludes), `CountersSound`, and

- `VerdictSound`: positions in the accounts are in order, by `OrderKept`, so that the outcome recorded
  is the one `compute_status` gives the position;
- `EndsSound`: an account records checkmate or stalemate exactly when the laws of chess find it in
  the account's own board and history (`EndsByTheLaws`). The invariant added here, `PastTold`, is that
  the history tells what the laws ask of the past: the squares its entries have touched stand for the
  castling rights, its last entry and the board for the en-passant target. Nothing outside the
  account is needed to judge who has lost the stake;
- `HistoryTells`: the replay is a recursive function over the history. Instead of an induction over
  data the invariant says that there is exactly one function with the replay's recursion, and where
  it ends; appending a move extends that function in exactly one way.

One lemma, `HistoryMoves`, lists what any step does to board and history of an address (nothing, a
fresh start, or one legal move on both); the last two theorems rest on it.

`MateProbe_proofs` proves `ProbeSound`. The position on top of the call stack differs from the one its
caller tries out in counters only, which no legality test reads, so one line of play decides.

The only assumptions are the named ASSUMEs of the modules, which TLC evaluates in every run of those
modules, and the finiteness of `Wallets` and `GameIds` in `LamportsKept`.

Only model-checked: the liveness properties `FlaggedGameEnds`, `FullHistoryEnds` and `ProbeReturns`,
since fairness and ENABLED are out of the prover's reach.

## 5. Seeded faults

Beside some definitions stands an operator marked `Seeded fault`: the definition as a plausible slip
would have it. Each property of a passing run is paired in `PROJECT.json` with one of them; with the
definition replaced by it, TLC finds the property violated in that run. No specification uses them.

## 6. Not modelled

- The runtime's transaction fees, compute units and rent-state rules for very small balances; an
  account's rent is a constant paid on creation and returned on close.
- `position_hash`: written to events, read by no instruction.
- Which error a refusal reports (`errors.rs`, `MoveError`): all refusals are alike.
- `delay_ms`: validated, then used by nothing. Free text (`stream_meta`, labels, comments,
  payloads): stored or emitted, never read.
- `DrawDeclined` and other declared but unused events and codes; the payloads of all events but
  `MovePlayed`.
- `src/app`: address derivation and encoding; `subscribe.ts` keeps no state. `src/migrations`, `src/tests`.

## 7. Plan

Done, in this order: `ChessProgram` and its proofs; `ChessEngine` against `ChessRules`; `MateProbe`;
`WagerMatch` and the refinement; `MoveDelivery`; `BoardMatch`; the proofs about engine, games, boards,
probe and lamports; the verdicts against the laws and the draw for want of material. What remains
worth doing:

1. That the fifty-move counter in an account is what its history says, for whole games: today the
   count is compared with the plies played since a start position (`FiftyMoveExact`).
2. That the probe's depth is bounded on boards with few pieces, where it does return.
