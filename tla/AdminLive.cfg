SPECIFICATION Spec
CONSTANTS
    Keys = {k1, k2}
    Models = {m1, m2}
    None = None
    Gone = Gone
    MaxOutside = 2
    MaxJobs = 3
INVARIANTS
    PublishesAreTrue
PROPERTIES
    NativeWritesAreBacked
SYMMETRY Interchangeable
