\* One connection; two requests, two invalidations (three in flight at most),
\* two access tokens held.
CONSTANTS
    Req = {r1, r2}
    PoolSize = 1
    MaxEpoch = 2
    MaxJwt = 2
SPECIFICATION Spec
SYMMETRY Symmetry
INVARIANTS
    TypeOK
    VerifiedIsCurrent
PROPERTY ImplementsAccessGrants
