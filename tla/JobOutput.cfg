SPECIFICATION Spec
CONSTANTS
    Hosts = {h1}
    Jobs = {j1, j2}
    Tracked = {j1}
    Requests = {r1}
    NoHost = NoHost
    NoJob = NoJob
    Events = {"scp", "reboot"}
CHECK_DEADLOCK FALSE
INVARIANTS
    JInv
    HomeIsOwn
    OutputKept
    CompletedIsWhole
    DeletedIsGone
PROPERTIES
    JobEnds
    RunsOnce
