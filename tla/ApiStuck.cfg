SPECIFICATION ReadingSpec
CONSTANTS
    r1 = r1
    r2 = r2
    r3 = r3
    s1 = s1
    NoReq = NoReq
    Requests <- MCRequests
    Streams <- MCStreams
    Abortable <- MCAbortable
    Slots = 2
    MaxChunks = 2
    StreamQueue = 1
    RequestTimeout = TRUE
    Backpressure = FALSE
PROPERTIES
    DispatcherReturns
CHECK_DEADLOCK FALSE
