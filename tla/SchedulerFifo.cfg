SPECIFICATION Spec
CONSTANTS
    r1 = r1
    r2 = r2
    s1 = s1
    NoReq = NoReq
    Requests <- MCRequests
    Streams <- MCStreams
    NumWorkers = 2
    Mortal = {}
    Faulty = {}
    MaxChunks = 1
    StreamBuffer = 1
    MaxPending = 2
    MaxConcurrent = 1
    InferenceLimit = FALSE
    QueueLimit = FALSE
PROPERTIES
    Fifo
