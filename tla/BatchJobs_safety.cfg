SPECIFICATION Spec
CONSTANTS
    Hosts = {h1}
    Jobs = {j1, j2}
    NoHost = NoHost
    Events <- AllEvents
SYMMETRY Symmetry
INVARIANTS
    BInv
    CompleteRowIsComplete
    DeletedJobHasEnded
    StartedRowNamesNode
PROPERTIES
    ImplementsLedger
