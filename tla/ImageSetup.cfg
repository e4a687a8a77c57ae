SPECIFICATION Spec
CONSTANTS
    Run = {r1, r2}
    Luks = {r1}
    Lvm = {r1}
    HostVolume = {v}
    MaxStarts = 2
    None = None
INVARIANTS
    TypeOK
    
    FreeInTheEnd
