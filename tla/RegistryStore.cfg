SPECIFICATION FairSpec
CONSTANTS
    Stores = {st1}
    Savers = {s1, s2}
    seed = seed
    plain = plain
    unclear = unclear
    huge = huge
    Revisions = {seed, plain, unclear, huge}
    Aliases = {a1}
    Ambiguous <- MCAmbiguous
    Oversize = {huge}
    Seed = seed
    Absent = Absent
    Torn = Torn
    Nil = Nil
    MaxFaults = 1
    Edits = {unclear}
PROPERTIES
    EverySaveReturns
    AmbiguityNeverGrows
    StaysLoadable
    ImplementsRegister
CHECK_DEADLOCK FALSE
