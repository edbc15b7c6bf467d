SPECIFICATION Spec
CONSTANTS
  Starts <- EngineLab
  Promotions <- AllPromotions
  MaxPly = 2
CHECK_DEADLOCK FALSE
INVARIANT TypeOK
INVARIANT RightsMeanUntouched
INVARIANT EnPassantSound
INVARIANT CaptureReported
INVARIANT HistoryReplays
INVARIANT EventRedraws
INVARIANT EngineAgrees
INVARIANT VerdictsAgree
INVARIANT FiftyMoveExact
INVARIANT KingsSafe
INVARIANT VerdictsLawful
INVARIANT DrawIsDead
