\* One connection: a refresh after a password change.
CONSTANTS
    Req = {r1, r2}
    PoolSize = 1
    MaxEpoch = 2
    MaxJwt = 2
SPECIFICATION Spec
SYMMETRY Symmetry
INVARIANT OldLoginsRejected
