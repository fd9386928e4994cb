SPECIFICATION FairSpec
CONSTANTS
    r1 = r1
    r2 = r2
    s1 = s1
    NoReq = NoReq
    Requests <- MCRequests
    Streams <- MCStreams
    NumWorkers = 2
    Mortal = {1, 2}
    Faulty = {1, 2}
    MaxChunks = 1
    StreamBuffer = 1
    MaxPending = 2
    MaxConcurrent = 2
    InferenceLimit = FALSE
    QueueLimit = FALSE
PROPERTIES
    DeadPoolReported
