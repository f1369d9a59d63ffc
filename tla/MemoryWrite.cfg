SPECIFICATION Spec
CONSTANTS
    Content <- MCContent
    Empty = "empty"
    Nothing = "nothing"
    Finding <- MCFinding
    Risk <- MCRisk
    Normal <- MCNormal
    Rest <- MCRest
    Patches <- MCPatches
    Rejections <- MCRejections
    Kind <- MCKind
    Signature <- MCSignature
    OutputHash <- MCOutputHash
    Requests <- MCRequests
    HumanPort = TRUE
    MaxAttempts = 2
    MaxRejections = 2
    MaxRevisions = 3
    MaxRepairs = 2
    MaxNormal = 2
    MaxReviews = 1
    MaxRefreshes = 1
    MaxCalls = 4
    RepeatLimit = 2
    MaxFaults = 2
CHECK_DEADLOCK FALSE
INVARIANTS CommittedIsCleared TruthfulResult SentOnce
PROPERTIES CheckpointsAdvance Terminates CommittedIsFinished
