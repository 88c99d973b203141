SPECIFICATION ManualSpec
CONSTANTS
    Clients = {c1, c2}
    QueryQueue = 1
    MaxClients = 1
    NoClient = NoClient
PROPERTY
    ClientServed
