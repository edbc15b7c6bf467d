\* A casual game whose players keep moving reaches the history's capacity.
SPECIFICATION PlayedSpec
CONSTANTS
  Wallets <- TwoPlayers
  Creators <- MCCreators
  SessionIds <- OneSession
  Nobody = Nobody
  Wagers = {0}
  TimeControls <- Casual
  MAX_MOVE_HISTORY = 2
  GameRent = 0
  StreamRent = 0
  Funds <- NoPurse
  Deposits <- NoAmount
  ReactionKinds = {}
  U64_MAX = 20
  U32_MAX = 2
  U16_MAX = 65535
  MaxTime = 0
  MaxSkew = 0
  OwnerDebitOnly = FALSE
  alice = alice
  bob = bob
  carol = carol
PROPERTY FullHistoryEnds
CHECK_DEADLOCK FALSE
