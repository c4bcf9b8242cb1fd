SPECIFICATION FairSpec
CONSTANTS
    Hosts = {h1}
    Jobs = {j1, j2}
    NoHost = NoHost
    Events = {"qstat"}
PROPERTIES
    CompletionNoticed
