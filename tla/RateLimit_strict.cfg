SPECIFICATION Spec
CONSTANTS
    Request = {r1, r2, r3, r4}
    User = {u1}
    Worker = {w1}
    Allowance = 2
    Window = 4
    Second = 2
    MaxTracked = 1
    MaxLag = 2
    MaxSkew = 0
    Horizon = 7
SYMMETRY Interchangeable
INVARIANTS NeverOverPermissive
CHECK_DEADLOCK FALSE
