SPECIFICATION Spec
CONSTANTS
    r1 = r1
    r2 = r2
    s1 = s1
    NoReq = NoReq
    Requests <- MCRequests
    Streams <- MCStreams
    NumWorkers = 2
    Mortal = {1, 2}
    Faulty = {1, 2}
    MaxChunks = 2
    StreamBuffer = 1
    MaxPending = 2
    MaxConcurrent = 1
    InferenceLimit = TRUE
    QueueLimit = TRUE
INVARIANTS
    TypeOK
    OncePlaced
    WithinBounds
    BlastRadius
    StreamInOrder
    CloseIsComplete
PROPERTIES
    KeepsLifecycle
