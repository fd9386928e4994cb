SPECIFICATION FairSpec
CONSTANTS
    r1 = r1
    r2 = r2
    r3 = r3
    s1 = s1
    NoReq = NoReq
    Requests <- MCAnswers
    Streams = {}
    Abortable <- MCAbortable
    Slots = 2
    MaxChunks = 1
    StreamQueue = 1
    RequestTimeout = FALSE
    Backpressure = FALSE
INVARIANTS
    NoAnswerDropped
PROPERTIES
    CloseReleases
CHECK_DEADLOCK FALSE
