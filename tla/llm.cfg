SPECIFICATION FairSpec
CONSTANTS
    MaxRetries = 2
    Timeout = 3

CHECK_DEADLOCK FALSE
INVARIANT TypeOK
INVARIANT AnswerIsUsable
INVARIANT CallIsBounded
INVARIANT CancellationEndsCall
PROPERTY Returns
