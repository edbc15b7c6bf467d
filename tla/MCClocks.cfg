\* Wagered games with Fischer clocks over a monotone cluster clock.  Keepers call
\* sync_clock; players may stop at any point.
SPECIFICATION LiveSpec
CONSTANTS
  Wallets <- TwoPlayers
  Creators <- MCCreators
  SessionIds <- OneSession
  Nobody = Nobody
  Wagers = {1}
  TimeControls <- ClockControls
  MAX_MOVE_HISTORY = 3
  GameRent = 0
  StreamRent = 0
  Funds <- Purse
  Deposits <- NoAmount
  ReactionKinds = {}
  U64_MAX = 12
  U32_MAX = 2
  U16_MAX = 65535
  MaxTime = 5
  MaxSkew = 0
  OwnerDebitOnly = FALSE
  alice = alice
  bob = bob
  carol = carol
INVARIANT NonceNamesPly
INVARIANT ZeroClockMeansTimeout
INVARIANT TimeConserved
PROPERTY FlagIsFinal
PROPERTY FlaggedGameEnds
CHECK_DEADLOCK FALSE
