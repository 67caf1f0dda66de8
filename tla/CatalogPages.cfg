SPECIFICATION LibrarySpec
CONSTANTS
    a1 = a1
    a2 = a2
    b2 = b2
    c3 = c3
    r = r
    s = s
    Nil = Nil
    Malformed = Malformed
    Accesses <- MCAccesses
    ProviderOf <- MCProviderOf
    Called <- MCCalled
    Prefixed = {a2, b2}
    Ids <- MCIds
    CardName <- MCCardName
    Discovered <- MCDiscovered
    References = {r, s}
    FactValues = {1}
    RegistryFiles <- MCFiles
    MaxChanges = 2
    MaxElsewhere = 1
    MaxGets = 1
    MaxVisits = 1
    Looked = {a1, r}
INVARIANTS
    TilesAreTrue
PROPERTIES
    LibraryChangesAreChosen
CHECK_DEADLOCK FALSE
