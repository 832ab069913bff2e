\* ReleasedAtEnd does not hold: only the end of the client's stream releases the
\* services.
CONSTANTS
    MaxUnits = 1
    MaxPosts = 1
    QueueBound = 2
    NULL = NULL
SPECIFICATION SafetySpec
INVARIANTS ReleasedAtEnd
\* The process ends, and a client that stops to read may block it for ever.
CHECK_DEADLOCK FALSE
