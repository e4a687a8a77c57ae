SPECIFICATION Spec
CONSTANTS
    Workflow = {luks}
    Hand = {hand}
    Cpus = {one, two}
    Policy = {strict, debug}
    DefaultCpus = one
    DefaultPolicy = strict
    Pull = {}
    MaxBuild = 0
    None = None
INVARIANTS
    TypeOK
    AcceptedUnlessChanged
    AcceptedFlagsAgree
