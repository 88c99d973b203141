SPECIFICATION Spec
CONSTANTS
    Clients = {c1, c2, c3}
    QueryQueue = 1
    MaxClients = 2
    NoClient = NoClient
SYMMETRY Symmetry
INVARIANTS
    LeaseExact
    WriteAccounted
    SendsNeverBlock
    ReplyHasReceiver
    CleanExit
