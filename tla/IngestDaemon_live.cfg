SPECIFICATION FairSpec
CONSTANTS
    beads = beads
    run = run
    Triggers = {beads}
    Simple = {beads}
    Deps = {}
    Jobs = {j1, j2}
    NoJob = NoJob
    NoTrigger = NoTrigger
    Daemons = {d1, d2}
    NoDaemon = NoDaemon
    Bad = {}
    Events = {"term"}
PROPERTIES
    TriggerLeaves
    TermStops
