\* A second process starts beside the server: do published values stay?
SPECIFICATION Spec
CONSTANTS
    server = server
    k1 = k1
    k2 = k2
    x = x
    y = y
    Processes = {server, cli}
    Importers = {i1}
    Readers = {r1}
    Home <- MCHome
    Keys = {k1, k2}
    Values = {x, y}
    NoValue = NoValue
    Batches <- MCBatches
    Base <- MCBase
    MaxFiles = 2
    NoStore = NoStore
    NoRequest = NoRequest
    NoBody = NoBody
INVARIANT PublishedKept
CHECK_DEADLOCK FALSE
