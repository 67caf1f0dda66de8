SPECIFICATION PagesSpec
CONSTANTS
    k1 = k1
    k2 = k2
    k3 = k3
    m1 = m1
    m2 = m2
    m3 = m3
    m4 = m4
    g = g
    p = p
    q = q
    x = x
    y = y
    v = v
    u = u
    All = All
    None = None
    Keys = {k1, k2, k3}
    Models = {m1, m2, m3, m4}
    Groups = {g}
    Providers = {p, q}
    Clients = {"c"}
    Aggregators = {q}
    By <- MCBy
    Named <- MCNamed
    Terms = {"one"}
    Says <- MCSays
    Unsaved <- MCUnsaved
    Worlds <- MCWorlds
    Starts <- MCStarts
    Inventory <- MCInventory
    Rules = {"r1", "r2"}
    KeyOptions <- MCKeyOptions
    Choices <- MCChoices
    Preferred <- MCPreferred
    PageSize = 1
    Sessions <- MCSessions
    Contents = {1, 2, 3}
    Invalid = {3}
    LModels = {x, y}
    Lists <- MCLists
    Files <- MCFiles
    MaxReads = 2
    MaxLeft = 1
    Values = {v, u}
    Drafts <- MCDrafts
    Proposals <- MCProposals
INVARIANTS
    ResultsAreNotHidden
    ListsKeepTheirState
    SecretIsOfShownKey
PROPERTIES
    SelectionIsVisible
    ImportIsReviewed
    SettingsAreAsListed
    SuggestionIsReviewed
CHECK_DEADLOCK FALSE
