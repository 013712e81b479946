\* Two connections; three requests at a time, two accounts, three links.
CONSTANTS
    Req = {r1, r2, r3}
    Id = {u1, u2}
    Token = {t1, t2, t3}
    None = None
    PoolSize = 2
SPECIFICATION Spec
SYMMETRY Symmetry
INVARIANTS
    TypeOK
    OneUser
    VerifiedByMail
PROPERTIES
    VerificationKept
    ImplementsAddress
