SPECIFICATION FairSpec
CONSTANTS
    r1 = r1
    r2 = r2
    r3 = r3
    s1 = s1
    NoReq = NoReq
    Requests <- MCRequests
    Streams <- MCStreams
    Abortable <- MCAbortable
    Slots = 2
    MaxChunks = 2
    StreamQueue = 1
    RequestTimeout = TRUE
    Backpressure = TRUE
INVARIANTS
    ApiTypeOK
    DispatcherSurvives
    StreamComplete
    StreamContiguous
    StreamConserved
    CancelClears
PROPERTIES
    HandlersReturn
    DispatcherReturns
CHECK_DEADLOCK FALSE
