SPECIFICATION Spec
CONSTANTS
    a1 = a1
    a2 = a2
    r1 = r1
    v1 = v1
    v2 = v2
    Accesses = {a1, a2}
    References = {a1, r1}
    Values = {v1, v2}
    Gateways <- MCGateways
    Releases <- MCReleases
    Clients = {c1, c2}
    None = None
    Missing = Missing
    MaxRequests = 3
    MaxWorld = 1
PROPERTIES
    ShownIsTrue
    ImplementsLayers
SYMMETRY Interchangeable
