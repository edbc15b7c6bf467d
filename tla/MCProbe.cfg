SPECIFICATION Spec
CONSTANT Positions <- QueenMates
CHECK_DEADLOCK FALSE
INVARIANT AnswerIsRight
