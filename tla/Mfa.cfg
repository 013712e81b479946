\* One connection; two requests, three generations of two backup codes.
CONSTANTS
    Req = {r1, r2}
    PoolSize = 1
    None = None
    BatchSize = 2
    MaxGen = 3
SPECIFICATION Spec
SYMMETRY Symmetry
INVARIANTS
    TypeOK
    EnabledIsProved
    CodesOfLastBatch
    UsedIsGone
PROPERTY ImplementsSecondFactor
