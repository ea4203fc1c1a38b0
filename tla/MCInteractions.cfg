SPECIFICATION FairSpec
CONSTANTS
    Requests = {review, plain}
    Timed = {review}
    Reviews = {review}
    Cancellers = {c1}
    EarlyLimit = 2
    None = None
INVARIANTS
    TypeOK
    OneOwner
    ShutdownSweeps
    CancelEndsDocuments
PROPERTIES
    CancelledIsNotAnswered
    CancelledReturns
    PromptCloses
CHECK_DEADLOCK FALSE
