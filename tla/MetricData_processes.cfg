\* The server with two publications and a query, and a second process beside it.
SPECIFICATION Spec
CONSTANTS
    server = server
    k1 = k1
    k2 = k2
    x = x
    y = y
    Processes = {server, cli}
    Importers = {i1, i2}
    Readers = {r1}
    Home <- MCHome
    Keys = {k1, k2}
    Values = {x, y}
    NoValue = NoValue
    Batches <- MCBatches
    Base <- MCBase
    MaxFiles = 2
    NoStore = NoStore
    NoRequest = NoRequest
    NoBody = NoBody
INVARIANTS Inv AnswerWhole ReportTrue PublishedSurvives
PROPERTY Implements
CHECK_DEADLOCK FALSE
SYMMETRY Symmetric
VIEW View
