\* CountExact does not hold: a child that ends before addClient registers it
\* is counted for ever.
CONSTANTS
    Pid = {p1, p2}
    MaxClients = 2
    Chunk = 1
    TableBound = 3
    CountBound = 3
    NULL = NULL
    Dangling = Dangling
SPECIFICATION SafetySpec
INVARIANTS CountExact
CHECK_DEADLOCK FALSE
