CONSTANTS
    a = a
    b = b
    p1 = p1
    p2 = p2
    a1 = a1
    a2 = a2
    b1 = b1
    g = g
    k1 = k1
    k2 = k2
    None = None
    Models = {a1, a2, b1}
    Aliases = {a, b}
    Providers = {p1, p2}
    Alias <- MCAlias
    Provider <- MCProvider
    Passthrough = {b1}
    Groups = {g}
    Keys = {k1, k2}
    StartFiles <- MCFiles
    MaxEdits = 3
SPECIFICATION EditsSpec
CHECK_DEADLOCK FALSE
INVARIANTS
    NamesAreServed
    ChoiceRepairs
PROPERTIES
    ServiceIsKept
    AdoptionPreserves
