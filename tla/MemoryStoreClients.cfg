SPECIFICATION Spec
CONSTANTS
    Proc = {p1, p2, p3}
    Clients = {c1, c2}
    Indices = {k1, k2}
    Values = {v1, v2}
    Guids = {g1}
    Calls <- ClientCalls
    Absent = Absent
    NoCall = NoCall
    NoObj = NoObj
    c1 = c1
    c2 = c2
    k1 = k1
    k2 = k2
    v1 = v1
    v2 = v2
    g1 = g1
    g2 = g2
    g3 = g3
SYMMETRY Perms
INVARIANTS
    RaceFree
    PointersCurrent
PROPERTIES
    Linearizable
