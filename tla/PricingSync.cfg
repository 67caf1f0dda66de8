SPECIFICATION Spec
CONSTANTS
    a = a
    k1 = k1
    k2 = k2
    s1 = s1
    s2 = s2
    None = None
    PKeys = {k1, k2}
    Accesses = {a}
    Slots = {s1, s2}
    KeyOf <- MCKeyOf
    AccessOf <- MCAccessOf
    Prices = {p1, p2}
    Ids = {i1, i2, i3}
    MaxPasses = 3
    MaxOutside = 1
INVARIANTS
    ReportsAreTrue
    CleanPassConverges
SYMMETRY Interchangeable
CHECK_DEADLOCK FALSE
