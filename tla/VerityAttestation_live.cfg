SPECIFICATION FairSpec
CONSTANTS
    Script = {s1}
    SshKey = {k1, k2}
    None = None
    Garbled = Garbled
PROPERTIES
    AttestedInTheEnd
