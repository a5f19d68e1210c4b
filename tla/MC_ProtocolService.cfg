CONSTANTS
    c1 = c1
    c2 = c2
    r1 = r1
    r2 = r2
    r3 = r3
    d1 = d1
    d2 = d2
    h1 = h1
    u1 = u1
    w1 = w1
    NoHandle = NoHandle
    Conns <- MCConns
    Refs <- MCRefs
    Raws <- MCRaws
SPECIFICATION Spec
INVARIANT TypeOK
INVARIANT RunQueriesUsesOwnHandles
