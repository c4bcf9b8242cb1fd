SPECIFICATION FairSpec
CONSTANTS
    Hosts = {h1, h2}
    Jobs = {j1}
    NoHost = NoHost
    Accounts = {a1, a2}
    NoAccount = NoAccount
    Events = {}
    RollbackOnException = TRUE
    SnapshotReads = TRUE
PROPERTIES
    ExpiredAccountGoes
    NodeComesBack
    ImplementsLease
