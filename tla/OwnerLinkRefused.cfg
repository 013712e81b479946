\* One connection: the link the owner sends.
CONSTANTS
    Req = {r1, r2}
    Token = {t1, t2}
    None = None
    PoolSize = 1
SPECIFICATION Spec
SYMMETRY Symmetry
INVARIANTS
    OpenLinkWorks
