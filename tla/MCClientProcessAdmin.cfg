\* AdminCloses does not hold: a client that sends the start of a request, or
\* stops to read, keeps its process from ending.
CONSTANTS
    MaxUnits = 1
    MaxPosts = 1
    QueueBound = 2
    NULL = NULL
SPECIFICATION Spec
PROPERTIES AdminCloses
\* The process ends, and a client that stops to read may block it for ever.
CHECK_DEADLOCK FALSE
