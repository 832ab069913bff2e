\* Two units and one message: every way a client can leave, or stall, the reader
\* and the response thread.
CONSTANTS
    MaxUnits = 2
    MaxPosts = 1
    QueueBound = 2
    NULL = NULL
SPECIFICATION Spec
PROPERTIES ClientGoneEnds MessageEnds
\* The process ends, and a client that stops to read may block it for ever.
CHECK_DEADLOCK FALSE
