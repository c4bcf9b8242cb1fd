SPECIFICATION Spec
CONSTANTS
    beads = beads
    run = run
    Triggers <- Inputs
    Simple = {beads}
    Deps <- BeadsOfRun
    Jobs = {j1, j2}
    NoJob = NoJob
    NoTrigger = NoTrigger
    Daemons = {d1}
    NoDaemon = NoDaemon
    Bad = {}
    Events <- AllButTerm
SYMMETRY Symmetry
INVARIANTS
    TypeOK
    DoneIsComplete
    DependenciesExist
    DInv
PROPERTIES
    ImplementsBook
