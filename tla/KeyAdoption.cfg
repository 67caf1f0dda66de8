SPECIFICATION LedgerSpec
CONSTANTS
    a = a
    b = b
    Star = Star
    None = None
    Provs <- MCProvs
    Names <- MCNames
    Worlds <- MCWorlds
    MaxForeign = 1
    MaxEdits = 1
    EmptyAllows = TRUE
    Changes <- MCChanges
    MaxSaves = 1
INVARIANTS ChoicesSettle LedgerIsTrue
PROPERTIES DoesWhatItShows
