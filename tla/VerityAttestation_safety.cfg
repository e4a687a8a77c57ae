SPECIFICATION Spec
CONSTANTS
    Script = {s1, s2}
    SshKey = {k1, k2}
    None = None
    Garbled = Garbled
SYMMETRY Symmetry
INVARIANTS
    TypeOK
    SilentOnlyWhenProven
    VerdictOfUndisturbed
