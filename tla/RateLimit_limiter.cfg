SPECIFICATION Spec
CONSTANTS
    Request = {r1, r2, r3}
    User = {u1, u2}
    Worker = {w1, w2}
    Allowance = 1
    Window = 4
    Second = 4
    MaxTracked = 1
    MaxLag = 1
    MaxSkew = 1
    Horizon = 4
SYMMETRY Interchangeable
INVARIANTS TypeOK RedisWindowBound WorkerWindowBound TableBounded NoLeakedSlot RetryAfterKept
CHECK_DEADLOCK FALSE
