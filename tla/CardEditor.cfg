SPECIFICATION EditorSpec
CONSTANTS
    a1 = a1
    a2 = a2
    b1 = b1
    c3 = c3
    h2 = h2
    r = r
    s = s
    chat = chat
    Nothing = Nothing
    Unlinked = Unlinked
    Accesses <- MCAccesses
    ProviderOf <- MCProviderOf
    Called <- MCCalled
    Prefixed = {h2}
    Declared <- MCDeclared
    Endpoints = {chat}
    References = {r, s}
    Values = {1, 2}
    Names = {"new"}
    Ids = {"new", "taken"}
    CardName <- MCCardName
    TakenIds = {"taken"}
    Files <- MCFiles
    MaxEdits = 3
    MaxSaves = 1
    MaxElsewhere = 1
INVARIANTS SavedIsAsShown OfferedIsAccepted ComesBackAsSaved
PROPERTIES KeepMatchesPreview
