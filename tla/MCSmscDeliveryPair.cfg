SPECIFICATION Spec
CONSTANTS
    s1 = s1
    s2 = s2
    Sms = {s1, s2}
    Kinds = {"imsi"}
    Interconnect = FALSE
    DispatchQueueLen = 1
    PushQueueLen = 1
    RetryAfter = 0
    StaleAfter = 0
    SubmitTimeout = 0
    DbErrors = FALSE
    MaxAttempts = 1
    MaxCrashes = 0
    MaxStreams = 2
SYMMETRY Symmetry
INVARIANTS
    
    OneCarrier
