SPECIFICATION SocketSpec
CHECK_DEADLOCK FALSE
CONSTANTS
    Daemons = {d1, d2, d3}
    None = None
    File = File
    Supervised = FALSE
INVARIANTS
    BusySocketKept
