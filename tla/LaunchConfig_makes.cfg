SPECIFICATION Spec
CONSTANTS
    Workflow = {luks, verity}
    Hand = {}
    Cpus = {one, two}
    Policy = {strict}
    DefaultCpus = one
    DefaultPolicy = strict
    Pull = {verity}
    MaxBuild = 1
    None = None
INVARIANTS
    VMAsOrdered
    AcceptedUnlessChanged
