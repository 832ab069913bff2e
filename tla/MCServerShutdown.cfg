\* Two children and three slots: holes and ghosts before and behind live
\* clients, with either kind of shutdown, or one on top of the other.
CONSTANTS
    Pid = {p1, p2}
    MaxClients = 2
    Chunk = 1
    TableBound = 3
    CountBound = 3
    Timer = 1
    NULL = NULL
    Dangling = Dangling
SPECIFICATION ShutdownSpec
INVARIANTS AllTold
PROPERTIES ShutdownEnds
\* The main process ends.
CHECK_DEADLOCK FALSE
