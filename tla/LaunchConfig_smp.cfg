SPECIFICATION Spec
CONSTANTS
    Workflow = {luks}
    Hand = {hand}
    Cpus = {one, two}
    Policy = {strict}
    DefaultCpus = one
    DefaultPolicy = strict
    Pull = {}
    MaxBuild = 0
    None = None
INVARIANTS
    LoadConfigLoadsCpus
