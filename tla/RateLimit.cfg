\* Two processes, five requests, at most two in a window of two ticks.
CONSTANTS
    Proc = {p1, p2}
    Request = {q1, q2, q3, q4, q5}
    Redis = Redis
    None = None
    Limit = 2
    Window = 2
    MaxTime = 3
SPECIFICATION Spec
SYMMETRY Symmetry
INVARIANTS
    TypeOK
    MemoryLimit
    RedisLimit
PROPERTY RefusedOnlyWhenFull
