\* One connection: a password change with a TOTP code.
CONSTANTS
    Req = {r1, r2}
    PoolSize = 1
    None = None
    BatchSize = 2
    MaxGen = 2
SPECIFICATION Spec
SYMMETRY Symmetry
INVARIANT RightCodeAccepted
