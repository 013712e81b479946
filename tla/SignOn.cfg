\* One connection; two processes, three requests, one state, three keys of
\* two providers, one of them a service.
CONSTANTS
    p1 = p1
    p2 = p2
    r1 = r1
    r2 = r2
    r3 = r3
    Req = {r1, r2, r3}
    Proc = {p1, p2}
    ProcOf <- TwoProcesses
    State = {s1}
    Service = {gmail}
    Provider = {gmail, openai}
    Key = {k1, k2, k3}
    None = None
    PoolSize = 1
SPECIFICATION SignOnSpec
SYMMETRY Symmetry
INVARIANTS
    SignOnTypes
    AcceptedOncePerProcess
    AcceptedIsGone
    OnePrimary
    OneConnection
PROPERTIES
    PrimaryHandedOver
