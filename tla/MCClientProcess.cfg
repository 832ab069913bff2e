\* Three units and one message: a request split in two behind another request,
\* so that a read can drop its start and take the rest for a message.
CONSTANTS
    MaxUnits = 3
    MaxPosts = 1
    QueueBound = 2
    NULL = NULL
SPECIFICATION SafetySpec
INVARIANTS ServiceProtocol RequestsInOrder
\* The process ends, and a client that stops to read may block it for ever.
CHECK_DEADLOCK FALSE
