SPECIFICATION FairSpec
CONSTANTS
    commit = commit  send = send  sampling = sampling  stop = stop
    Committer <- OneCommit
    Sender <- OneSend
    Sampler <- OneSampling
    Stop = stop
    MaxEvents = 3
    MaxCalls = 1
    MaxSessions = 2
INVARIANTS TypeOK CallsStayInTheirSession
PROPERTIES ImplementsLog QueueDrains LogoutEnds
