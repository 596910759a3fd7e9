SPECIFICATION FifoSpec
CONSTANTS
    commit = commit  send = send  sampling = sampling  stop = stop
    Committer <- OneCommit
    Sender <- OneSend
    Sampler <- Nobody
    Stop = stop
    MaxEvents = 4
    MaxCalls = 2
    MaxSessions = 2
INVARIANT ShutdownDrains
