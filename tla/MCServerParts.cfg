CONSTANTS
\* Three commands: one can be cut by the 20 bytes of a read and hide the next.
\* Two connections and two pids: a ghost, and its pid given out again.
    Pid = {1, 2}
    BufSize = 20
    Digits = 4
    Slots = 2
    MaxCommands = 3
    MaxConns = 2
    MaxStarts = 2
\* Two growths of the array of services and one of the parameters.
    Name = {a, b}
    Parameter = {v}
    Chunk = 2
    ParaChunk = 2
    NULL = NULL
    Junk = Junk
    Heap = {NULL, Junk}
    MaxServices = 5
    MaxParas = 3
\* Three options: a file, a directory and a parameter, in any order.
    Lib = {"a", "b"}
    Key = {"port"}
    Value = {1, 2}
    DefaultLibs <- HomeLibs
    DirLibs <- MoreLibs
    MaxArgs = 3
    MaxLines = 1
\* A child forked before, between and after the creation of two services.
    NService = 2
    Child = {c1, c2}
\* A connection ends, fails or is collected while the next one is forked and a
\* third still has both in its memory.
    Connection = {k1, k2, k3}
    MaxAdmin = 2
\* All strings of up to four characters over a separator and two others.
    Char = {"=", "a", "b"}
    MaxLen = 4
SPECIFICATION Spec
INVARIANTS OneShutdownPerCommand OnlyAskedClosed ListingComplete 
    ParametersFit LastSettingWins OptionsDelivered HangsUp   SearchesRight
PROPERTIES AloneObeyed 
\* Every part may end.
CHECK_DEADLOCK FALSE
