\* Default timing (retry_after = interval) and one row more than a page.
CONSTANTS
    u1 = u1
    u2 = u2
    r1 = r1
    Rows <- ThreeRows
    Reachable = {r1}
    PageSize = 2
    RetryAfter = 1
    StaleAfter = 2

SPECIFICATION Spec
PROPERTY Drains
