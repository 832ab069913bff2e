\* One slot to begin with and one more after each of two appends: they happen
\* with live clients in the table, and again after clients leave ghosts.
CONSTANTS
    Pid = {p1, p2, p3}
    MaxClients = 2
    Chunk = 1
    TableBound = 3
    CountBound = 3
    NULL = NULL
    Dangling = Dangling
SPECIFICATION Spec
INVARIANTS TypeOK   LiveRegistered
PROPERTIES ZombiesReaped
\* The main process may crash, and the bounds may stop the accepting.
CHECK_DEADLOCK FALSE
