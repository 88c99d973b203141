SPECIFICATION FairSpec
CONSTANTS
    Clients = {c1}
    QueryQueue = 1
    MaxClients = 1
    NoClient = NoClient
PROPERTIES
    LeaseSpec
    DueIsWritten
    ShutdownCompletes
