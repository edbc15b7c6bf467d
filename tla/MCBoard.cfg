\* Whole games on the board, each to its verdict unless it ends before by flag,
\* resignation or agreement; the address is used again and again.
SPECIFICATION BoardSpec
CONSTANTS
  Wallets <- MCWallets
  Creators <- MCCreators
  SessionIds <- OneSession
  Nobody = Nobody
  Wagers = {0}
  TimeControls <- Timed1s
  MAX_MOVE_HISTORY = 256
  GameRent = 0
  StreamRent = 0
  Funds <- NoPurse
  Deposits <- NoAmount
  ReactionKinds = {}
  U64_MAX = 20
  U32_MAX = 2
  U16_MAX = 65535
  MaxTime = 1
  MaxSkew = 0
  OwnerDebitOnly = FALSE
  Lines <- Games
  alice = alice
  bob = bob
INVARIANT VerdictTaken
INVARIANT HistoryTellsBoard
INVARIANT CountersInStep
INVARIANT EndsByTheLaws
CHECK_DEADLOCK FALSE
