\* Every way to end a game, draw offers, reactions, and re-creation of a closed
\* game, over a cluster clock that may step back a second.
SPECIFICATION Spec
CONSTANTS
  Wallets <- MCWallets
  Creators <- MCCreators
  SessionIds <- OneSession
  Nobody = Nobody
  Wagers = {0}
  TimeControls <- AllControls
  MAX_MOVE_HISTORY = 2
  GameRent = 0
  StreamRent = 0
  Funds <- NoPurse
  Deposits <- NoAmount
  ReactionKinds = {0, 3, 4}
  U64_MAX = 2
  U32_MAX = 1
  U16_MAX = 65535
  MaxTime = 3
  MaxSkew = 1
  OwnerDebitOnly = FALSE
  alice = alice
  bob = bob
  carol = carol
INVARIANT OutcomeFitsReason
INVARIANT OfferIsLive
INVARIANT ZeroClockMeansTimeout
INVARIANT TimeConserved
PROPERTY ForwardOnly
PROPERTY FinishedIsFinal
PROPERTY OfferStands
PROPERTY EndIsAnnounced
PROPERTY CountersNeverWrap
CHECK_DEADLOCK FALSE
