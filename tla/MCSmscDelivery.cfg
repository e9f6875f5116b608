SPECIFICATION Spec
CONSTANTS
    s1 = s1
    Sms = {s1}
    Kinds = {"imsi", "local", "number", "empty", "ingress"}
    Interconnect = TRUE
    DispatchQueueLen = 1
    PushQueueLen = 1
    RetryAfter = 0
    StaleAfter = 0
    SubmitTimeout = 1
    DbErrors = TRUE
    MaxAttempts = 2
    MaxCrashes = 1
    MaxStreams = 2
INVARIANTS
    TypeOK
    AttemptsMatchState
    DeliveredIsAcknowledged
    ForwardedIsOwned
    OneCarrier
    IngressNeverForwarded
PROPERTIES
    
    ImplementsLifecycle
