\* One connection; two requests at a time, four tokens.
CONSTANTS
    Req = {r1, r2}
    Token = {t1, t2, t3, t4}
    None = None
    PoolSize = 1
SPECIFICATION Spec
SYMMETRY Symmetry
INVARIANTS
    TypeOK
    OnlyLatestOpen
    SetsPasswordOnce
PROPERTY ImplementsResetLink
