SPECIFICATION Spec
CONSTANTS
    Hosts = {h1, h2}
    Jobs = {j1}
    NoHost = NoHost
    Accounts = {a1, a2}
    NoAccount = NoAccount
    Events <- AllEvents
    RollbackOnException = FALSE
    SnapshotReads = FALSE
SYMMETRY Symmetry
INVARIANTS
    IInv
    LiveSessionTracked
    HostStaysOffline
    NoBatchBesideUser
    NoJobForgotten
