\* The instance of OwnedRows.cfg; one of the updates is delivered twice.
CONSTANTS
    Req = {r1, r2}
    Device = {d1, d2}
    DeviceRow = {t1, t2, t3}
    OrgKey = {k1, k2}
    User = {u1, u2}
    Workspace = {w1}
    HostRow = {h1, h2, h3}
    Host = {a, b}
    Fingerprint = {f1, f2}
    Agent = {g1, g2}
    AgentKey = {c1, c2}
    Name = {n1, n2}
    Limit = {tokens}
    Update = {x1}
    Role = {"owner", "plus_plan", "unsubscribed"}
    None = None
    PoolSize = 2
SPECIFICATION RowsSpec
CONSTRAINT OnePart
SYMMETRY Symmetry
INVARIANTS
    AppliedOnce
