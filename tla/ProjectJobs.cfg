SPECIFICATION FairProjectSpec
CONSTANTS
    Jobs = {j1, j2}
    New = {j2}
    Names = {n1, n2}
    Listed = {xml}
    Others = {log}
    Lines = 2
    PipeSize = 1
    Events = {"fault", "disk", "kill"}
CHECK_DEADLOCK FALSE
INVARIANTS
    CompleteIsWhole
    PartialIsAbandoned
    ProvenanceHolds
    PInv
    NeverStuck
PROPERTIES
    ProjectJobEnds
    ImplementsStore
    StepsLeadOn
