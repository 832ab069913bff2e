\* DestroyedAtEnd does not hold: a write to the pipe of a child that ended kills the
\* main process before it calls destroyAllServices.
CONSTANTS
    Pid = {p1, p2}
    MaxClients = 2
    Chunk = 1
    TableBound = 3
    CountBound = 3
    Timer = 1
    NULL = NULL
    Dangling = Dangling
SPECIFICATION ShutdownSafety
INVARIANTS DestroyedAtEnd
\* The main process ends.
CHECK_DEADLOCK FALSE
