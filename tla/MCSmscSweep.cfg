\* Three held messages, the two newest to absent handsets, two rows a page.
CONSTANTS
    u1 = u1
    u2 = u2
    r1 = r1
    Rows <- ThreeRows
    Reachable = {r1}
    PageSize = 2
    RetryAfter = 1
    StaleAfter = 2

SPECIFICATION Spec

INVARIANT TypeOK
 
