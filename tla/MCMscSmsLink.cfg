\* CommandQueueLen + OutcomeQueueLen + 1 commands: the most for which neither
\* side can fill the other's channel and wait.
CONSTANTS
    c1 = c1
    c2 = c2
    c3 = c3
    Cmds = {c1, c2, c3}
    Traffic = {c3}
    CommandQueueLen = 1
    OutcomeQueueLen = 1
    TagModulus = 8
    MaxBreaks = 1
    None = None

SPECIFICATION Spec

INVARIANTS
    TypeOK
    OneFate
    DeliveredOnlyIfHeard

PROPERTIES
    
    Answered

\* Once every command is answered nothing more happens.
CHECK_DEADLOCK FALSE
