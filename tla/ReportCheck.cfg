SPECIFICATION Spec
CONSTANTS
    Component = {bootloader, snp}
    IdField = {guest_svn, id_key}
    MaxLevel = 1
    None = None
INVARIANTS
    TypeOK
    AcceptedHostStaysAtLeast
    VerdictNamesTheCause
    RefusedOnlyWhileUncommitted
