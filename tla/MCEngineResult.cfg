SPECIFICATION Spec
CONSTANTS
    Clients = {c1}
    QueryQueue = 1
    MaxClients = 1
    NoClient = NoClient
INVARIANT
    ResultReported
