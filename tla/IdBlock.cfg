SPECIFICATION Spec
CONSTANTS
    Gen = {g1, g2}
    Digest = {d1}
    Ids = {i1, i2}
    Policy = {p1, p2}
    DefaultPolicy = p1
    IdKey = {k1, k2}
    AuthorKey = {k1}
    None = None
SYMMETRY Symmetry
INVARIANTS
    TypeOK
    AcceptedWasGenerated
    IntactPairStarts
    RefusedOnlyIfChanged
