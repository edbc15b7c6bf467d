\* The runtime's rule that only the owner of an account may debit it: the vault
\* is owned by the system program, and the program debits it directly.
SPECIFICATION LiveSpec
CONSTANTS
  Wallets <- TwoPlayers
  Creators <- MCCreators
  SessionIds <- OneSession
  Nobody = Nobody
  Wagers = {1}
  TimeControls <- Blitz
  MAX_MOVE_HISTORY = 1
  GameRent = 0
  StreamRent = 0
  Funds <- Purse
  Deposits <- NoAmount
  ReactionKinds = {}
  U64_MAX = 12
  U32_MAX = 2
  U16_MAX = 65535
  MaxTime = 3
  MaxSkew = 0
  OwnerDebitOnly = TRUE
  alice = alice
  bob = bob
  carol = carol
PROPERTY FlaggedGameEnds
CHECK_DEADLOCK FALSE
