SPECIFICATION Spec
CONSTANTS
    s1 = s1
    Sms = {s1}
    Kinds = {"number"}
    Interconnect = TRUE
    DispatchQueueLen = 1
    PushQueueLen = 1
    RetryAfter = 1
    StaleAfter = 2
    SubmitTimeout = 1
    DbErrors = FALSE
    MaxAttempts = 3
    MaxCrashes = 1
    MaxStreams = 1
PROPERTIES
    OkNotRetried
