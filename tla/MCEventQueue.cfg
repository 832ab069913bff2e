\* Three events in memory at once: two queued and one in the handler, or three
\* queued, so that the tail, the middle and the only node are all removed.
CONSTANTS
    Node = {n1, n2, n3}
    Event = {quit, request}
    NULL = NULL
SPECIFICATION Spec
INVARIANTS TypeOK ListOK MemoryOK NoLostWakeup
PROPERTIES FifoSpec
CHECK_DEADLOCK TRUE
