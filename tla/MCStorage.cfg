\* Arrays of one page and of two in a file of three, a buffer that holds one.
CONSTANTS
    Block <- Blocks
    Array <- Arrays2
    MaxPage = 3
    NULL = NULL
    m_capacity = 1
SPECIFICATION BufferSpec
INVARIANT PagesApart
PROPERTIES LostByFailureOnly ImplementsStore
CHECK_DEADLOCK FALSE
