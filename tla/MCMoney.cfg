\* Wagered and casual games of two creators, at once and one after the other at the
\* same addresses, while strangers send lamports to the vaults; without time.
SPECIFICATION Spec
CONSTANTS
  Wallets <- TwoPlayers
  Creators <- TwoCreators
  SessionIds <- OneSession
  Nobody = Nobody
  Wagers = {0, 1}
  TimeControls <- Casual
  MAX_MOVE_HISTORY = 1
  GameRent = 1
  StreamRent = 0
  Funds <- TwoPurses
  Deposits = {1}
  ReactionKinds = {}
  U64_MAX = 7
  U32_MAX = 2
  U16_MAX = 65535
  MaxTime = 0
  MaxSkew = 0
  OwnerDebitOnly = FALSE
  alice = alice
  bob = bob
  carol = carol
INVARIANT TypeOK
INVARIANT VaultExact
INVARIANT LamportsConserved
INVARIANT SeatsTaken
PROPERTY PayoutExact
PROPERTY KeepsPromise
CHECK_DEADLOCK FALSE
