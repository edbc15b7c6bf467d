\* A move that was applied is sent again after its game was closed and created anew.
SPECIFICATION DeliverySpec
CONSTANTS
  Wallets <- MCWallets
  Creators <- MCCreators
  SessionIds <- OneSession
  Nobody = Nobody
  Wagers = {0}
  TimeControls <- Timed1s
  MAX_MOVE_HISTORY = 3
  GameRent = 0
  StreamRent = 0
  Funds <- NoPurse
  Deposits <- NoAmount
  ReactionKinds = {}
  U64_MAX = 20
  U32_MAX = 2
  U16_MAX = 65535
  MaxTime = 1
  MaxSkew = 0
  OwnerDebitOnly = FALSE
  MoveIds <- TwoRequests
  OfferIds <- OneRequest
  MaxRequests = 2
  MaxLives = 2
  MaxRepeats = 2
  alice = alice
  bob = bob
  r1 = r1
  r2 = r2
  r3 = r3
INVARIANT MovesApplyOnce
CHECK_DEADLOCK FALSE
