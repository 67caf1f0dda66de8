CONSTANTS
    a = a
    x = x
    p1 = p1
    p2 = p2
    p3 = p3
    a1 = a1
    a2 = a2
    x1 = x1
    k1 = k1
    k2 = k2
    t1 = t1
    t2 = t2
    e1 = e1
    e2 = e2
    p1a = p1a
    p2a = p2a
    p1x = p1x
    p3z = p3z
    i1 = i1
    i2 = i2
    r1 = r1
    None = None
    Models = {a1, a2, x1}
    Aliases = {a, x}
    Providers = {p1, p2, p3}
    Alias <- MCAlias
    Provider <- MCProvider
    Passthrough = {x1}
    Groups = {}
    Keys = {k1, k2}
    Requests = {r1}
    Slots = {i1, i2}
    Tokens = {t1, t2}
    Endpoints = {e1, e2}
    Serves <- MCServes
    Attempts = {p1a, p2a, p1x, p3z}
    AttemptProvider <- MCAttemptProvider
    NativeOf <- MCNativeOf
    Targets <- MCTargets
    Snapshots <- MCSnapshots
    Asked <- MCAsked
    MaxNames = 2
SYMMETRY Symmetry
SPECIFICATION Spec
CHECK_DEADLOCK FALSE
INVARIANTS
    SentWithinPolicy
    AnswerIsConfirmed
    AcceptedIsServed
