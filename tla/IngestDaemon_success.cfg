SPECIFICATION Spec
CONSTANTS
    beads = beads
    run = run
    Triggers = {beads}
    Simple = {beads}
    Deps = {}
    Jobs = {j1}
    NoJob = NoJob
    NoTrigger = NoTrigger
    Daemons = {d1}
    NoDaemon = NoDaemon
    Bad = {}
    Events = {"fault"}
INVARIANTS
    ProcessedSuccessfully
