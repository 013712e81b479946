\* The default pool: one connection.  Two requests at a time, three tokens;
\* liveness is among the properties, so there is no symmetry.
CONSTANTS
    Req = {r1, r2}
    Token = {t1, t2, t3}
    None = None
    PoolSize = 1
SPECIFICATION FairSpec
INVARIANTS
    TypeOK
    OneUnrevokedPerFamily
    RedeemedOnce
    IssuedForRevoked
PROPERTIES
    RevokeAllLeavesNoOther
    ImplementsSessionFamily
    ConnectionsReturn
