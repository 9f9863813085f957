\* Two turns, so that a child is replaced while it dies, and the second child
\* numbers its requests as the first did.
SPECIFICATION FairCodexSpec
CONSTANTS
  MaxTurns = 2
  RpcIds = {0}
INVARIANT EndsItsTurnOnce
PROPERTIES AnswersAreAwaited SendReturns
CHECK_DEADLOCK FALSE
