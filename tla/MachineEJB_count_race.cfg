SPECIFICATION Spec
CONSTANTS
    Hosts = {h1, h2}
    Jobs = {j1}
    NoHost = NoHost
    Accounts = {a1, a2}
    NoAccount = NoAccount
    Events = {}
    RollbackOnException = FALSE
    SnapshotReads = FALSE
INVARIANTS
    NodeWithUserIsOffline
