------------------------------ MODULE AdminPipe ------------------------------
(***************************************************************************)
(* The administration pipe: open_admin_pipe and do_admin of tg_process.c,  *)
(* write_data of tg_process_admin.c, and what the scripts in bin/ do to    *)
(* the file at its other end.                                              *)
(*                                                                         *)
(* A script redirects echo to /tmp/tgp.  If the server made a FIFO there,  *)
(* the bytes join those not read yet, or wait for a server to open it; if  *)
(* nothing is there the shell makes a file, which the next server opens in *)
(* place of its FIFO.  The SIGCHLD handler interrupts do_admin anywhere.   *)
(***************************************************************************)
EXTENDS Integers, Sequences, FiniteSets

CONSTANTS
    Pid,            \* process ids, given out again after they were collected
    BufSize,        \* bytes do_admin reads at a time
    Digits,         \* digits of a pid
    Slots,          \* slots of g_clients
    MaxCommands,    \* bound of the model: commands written
    MaxConns,       \* bound of the model: connections
    MaxStarts       \* bound of the model: times the server is started

ASSUME PipeAssumption ==
    /\ BufSize \in Nat /\ Digits \in Nat /\ Slots \in Nat
    /\ MaxCommands \in Nat /\ MaxConns \in Nat /\ MaxStarts \in Nat

VARIABLES
    path,           \* what is at /tmp/tgp: "none", "fifo" or "file"
    fifo,           \* bytes in the FIFO
    waiting,        \* commands whose echo waits for a server to open it
    file,           \* the command in the file
    pos,            \* how far the server has read it
    opened,         \* what the server opened: "fifo" or "file"; "none" without one
    apc,            \* where do_admin is
    cmd,            \* the command it works on
    slot,           \* k: the slot of the table its loops are at
    pC,             \* the connection whose TGClient it holds; 0: none or freed
    table,          \* g_clients: a connection in every slot, or 0
    pidOf,          \* pid of every connection, 0 before it
    ended,          \* connections whose process has ended
    conns,          \* connections so far
    printed,        \* connections the reply in the making lists
    told,           \* connections that were sent tg://1005
    written,        \* commands written so far
    starts,         \* starts of the server so far
    shutdowns       \* shutdowns by command so far

pipeVars  == <<path, fifo, waiting, file, pos, opened>>
adminVars == <<apc, cmd, slot, pC, printed, told>>
connVars  == <<table, pidOf, ended, conns>>
countVars == <<written, starts, shutdowns>>
adminPipeVars == <<pipeVars, adminVars, connVars, countVars>>

Conn == 1 .. MaxConns

None == [op |-> "none", pid |-> 0]

Command == [op : {"shutdown", "list"}, pid : {0}] \cup [op : {"close"}, pid : Pid]

\* A command as bytes: ten of them, and the digits of the pid.
Bytes(c) == [n \in 1 .. IF c.op = "close" THEN 10 + Digits ELSE 10 |-> <<c, n>>]

\* Mutant: the command is expected to end with a newline.
ParseLine(buf) ==
    IF buf = <<>> \/ buf[1][2] # 1 \/ Len(buf) < 10 THEN None
    ELSE IF buf[1][1].op = "shutdown" /\ Len(buf) # 11 THEN None
    ELSE buf[1][1]

\* The command do_admin makes of the bytes it read.  Only those at the start of
\* a command compare equal; tg://1003/ must stand alone, the others need not.
Parse(buf) ==
    IF buf = <<>> \/ buf[1][2] # 1 \/ Len(buf) < 10 THEN None
    ELSE IF buf[1][1].op = "shutdown" /\ Len(buf) # 10 THEN None
    ELSE buf[1][1]

Up == opened # "none"

PipeInit ==
    /\ path = "none" /\ fifo = <<>> /\ waiting = {} /\ file = None
    /\ pos = 0 /\ opened = "none"
    /\ apc = "select" /\ cmd = None /\ slot = 1 /\ pC = 0 /\ printed = {} /\ told = {}
    /\ table = [s \in 1 .. Slots |-> 0] /\ pidOf = [c \in Conn |-> 0]
    /\ ended = {} /\ conns = 0
    /\ written = {} /\ starts = 0 /\ shutdowns = 0

-----------------------------------------------------------------------------
(* The scripts                                                             *)

\* echo -n ... > /tmp/tgp.  A file is truncated first.  Commands are told apart
\* by their order: written holds them with a number.
Echo(c) ==
    /\ Cardinality(written) < MaxCommands
    /\ written' = written \cup {<<Cardinality(written) + 1, c>>}
    /\ CASE path = "none" -> path' = "file" /\ file' = c /\ UNCHANGED <<fifo, waiting>>
         [] path = "file" -> file' = c /\ UNCHANGED <<path, fifo, waiting>>
         [] path = "fifo" /\ opened = "fifo" ->
                fifo' = fifo \o Bytes(c) /\ UNCHANGED <<path, waiting, file>>
         [] OTHER -> waiting' = waiting \cup {c} /\ UNCHANGED <<path, fifo, file>>
    /\ UNCHANGED <<pos, opened, adminVars, connVars, starts, shutdowns>>

\* An echo that waited goes on when the server has opened the FIFO.
EchoGoesOn(c) ==
    /\ opened = "fifo" /\ c \in waiting
    /\ fifo' = fifo \o Bytes(c)
    /\ waiting' = waiting \ {c}
    /\ UNCHANGED <<path, file, pos, opened, adminVars, connVars, countVars>>

-----------------------------------------------------------------------------
(* The server starts and ends                                              *)

\* open_admin_pipe: mkfifo, which may fail with EEXIST, and open.
OpenAdminPipe ==
    /\ ~Up /\ starts < MaxStarts
    /\ starts' = starts + 1
    /\ path' = IF path = "none" THEN "fifo" ELSE path
    /\ opened' = path' /\ fifo' = <<>> /\ pos' = 0
    /\ UNCHANGED <<waiting, file, adminVars, connVars, written, shutdowns>>

\* The main process is gone, and with it its FIFO's contents and its table; its
\* children are not children of the next one.
Down ==
    /\ opened' = "none" /\ fifo' = <<>> /\ pos' = 0
    /\ apc' = "select" /\ cmd' = None /\ slot' = 1 /\ pC' = 0 /\ printed' = {}
    /\ table' = [s \in 1 .. Slots |-> 0]
    /\ ended' = 1 .. conns
    /\ UNCHANGED <<waiting, pidOf, conns, told, written, starts>>

\* SIGTERM, or a crash: the FIFO stays where it is.
Terminate == Up /\ Down /\ UNCHANGED <<path, file, shutdowns>>

-----------------------------------------------------------------------------
(* Clients: do_accept, and the SIGCHLD handler                             *)

PidAt(s) == IF table[s] = 0 THEN 0 ELSE pidOf[table[s]]

\* The first slot with pid p, or the first empty one: a set of at most one.
FirstSlot(p) == {s \in 1 .. Slots : PidAt(s) = p /\ \A r \in 1 .. s - 1 : PidAt(r) # p}

\* A pid that no process of this server has; one that was not collected yet is
\* still taken.
Free(p) == \A c \in 1 .. conns : pidOf[c] # p \/ c \in ended

\* do_accept, from select to select.  A child that ended and was collected
\* before addClient is registered all the same (ghost).
Accept(p, ghost) ==
    /\ Up /\ apc = "select"
    /\ conns < MaxConns /\ Free(p)
    /\ conns' = conns + 1
    /\ pidOf' = [pidOf EXCEPT ![conns'] = p]
    /\ ended' = IF ghost THEN ended \cup {conns'} ELSE ended
    /\ \E s \in FirstSlot(0) : table' = [table EXCEPT ![s] = conns']
    /\ UNCHANGED <<pipeVars, adminVars, countVars>>

\* A child ends and the handler collects it: closeClient empties the first slot
\* with its pid and frees that client.
CollectClient(c) ==
    /\ Up /\ c \in (1 .. conns) \ ended
    /\ ended' = ended \cup {c}
    /\ \E s \in FirstSlot(pidOf[c]) :
          /\ table' = [table EXCEPT ![s] = 0]
          /\ pC' = IF pC = table[s] THEN 0 ELSE pC
    /\ UNCHANGED <<pipeVars, apc, cmd, slot, printed, told, pidOf, conns, countVars>>

-----------------------------------------------------------------------------
(* do_admin                                                                *)

\* What is in the file behind pos, or in the FIFO.
Input == IF opened = "fifo" THEN fifo
         ELSE LET b == IF file = None THEN <<>> ELSE Bytes(file)
              IN  SubSeq(b, pos + 1, Len(b))

Buf == SubSeq(Input, 1, IF Len(Input) < BufSize THEN Len(Input) ELSE BufSize)

Consume ==
    IF opened = "fifo"
    THEN fifo' = SubSeq(fifo, Len(Buf) + 1, Len(fifo)) /\ UNCHANGED pos
    ELSE pos' = pos + Len(Buf) /\ UNCHANGED fifo

\* Mutant: the FIFO is left where it is.
AdminShutdownKeeps ==
    /\ Up /\ apc = "select" /\ Parse(Buf).op = "shutdown"
    /\ path' = path
    /\ file' = file
    /\ shutdowns' = shutdowns + 1
    /\ Down

\* tg://1003/: PIPE is removed and the server shuts down.
AdminShutdown ==
    /\ Up /\ apc = "select" /\ Parse(Buf).op = "shutdown"
    /\ path' = "none"
    /\ file' = None
    /\ shutdowns' = shutdowns + 1
    /\ Down

\* Mutant: the walk through the table starts in front of it.
AdminReadFromZero ==
    /\ Up /\ apc = "select" /\ Buf # <<>> /\ Parse(Buf).op # "shutdown"
    /\ Consume
    /\ cmd' = Parse(Buf)
    /\ apc' = CASE cmd'.op = "list" -> "list" [] cmd'.op = "close" -> "find" [] OTHER -> "select"
    /\ slot' = 0 /\ pC' = 0 /\ printed' = {}
    /\ UNCHANGED <<path, waiting, file, opened, told, connVars, countVars>>

\* Anything else goes to write_data; what is no command has no effect.
AdminRead ==
    /\ Up /\ apc = "select" /\ Buf # <<>> /\ Parse(Buf).op # "shutdown"
    /\ Consume
    /\ cmd' = Parse(Buf)
    /\ apc' = CASE cmd'.op = "list" -> "list" [] cmd'.op = "close" -> "find" [] OTHER -> "select"
    /\ slot' = 1 /\ pC' = 0 /\ printed' = {}
    /\ UNCHANGED <<path, waiting, file, opened, told, connVars, countVars>>

\* getCurrentClientsInfo loads slot k, and prints the client it found.  Of one
\* that was freed in between it prints what the memory holds, or crashes.
ListLoad ==
    /\ apc = "list" /\ slot <= Slots
    /\ pC' = table[slot]
    /\ apc' = IF table[slot] = 0 THEN "list" ELSE "print"
    /\ slot' = slot + 1
    /\ UNCHANGED <<pipeVars, cmd, printed, told, connVars, countVars>>

\* Mutant: only the last line is kept.
ListPrintLast ==
    /\ apc = "print"
    /\ printed' = IF pC = 0 THEN printed ELSE {pC}
    /\ apc' = "list"
    /\ UNCHANGED <<pipeVars, cmd, slot, pC, told, connVars, countVars>>

ListPrint ==
    /\ apc = "print"
    /\ printed' = IF pC = 0 THEN printed ELSE printed \cup {pC}
    /\ apc' = "list"
    /\ UNCHANGED <<pipeVars, cmd, slot, pC, told, connVars, countVars>>

ListCrash == apc = "print" /\ pC = 0 /\ Down /\ UNCHANGED <<path, file, shutdowns>>

ListDone ==
    /\ apc = "list" /\ slot > Slots
    /\ apc' = "select"
    /\ UNCHANGED <<pipeVars, cmd, slot, pC, printed, told, connVars, countVars>>

\* Mutant: any client will do.
FindAny ==
    /\ apc = "find"
    /\ pC' \in {table[s] : s \in 1 .. Slots}
    /\ apc' = IF pC' = 0 THEN "select" ELSE "send"
    /\ UNCHANGED <<pipeVars, cmd, slot, printed, told, connVars, countVars>>

\* findClient: the first slot with the pid; else an error message is printed.
FindClient ==
    /\ apc = "find"
    /\ \/ \E s \in FirstSlot(cmd.pid) : pC' = table[s] /\ apc' = "send"
       \/ FirstSlot(cmd.pid) = {} /\ pC' = 0 /\ apc' = "select"
    /\ UNCHANGED <<pipeVars, cmd, slot, printed, told, connVars, countVars>>

\* tg://1005 goes into the pipe of the client found.  If it was freed since, the
\* descriptor is whatever the memory holds and the message is lost.
SendClose ==
    /\ apc = "send" /\ pC \notin ended
    /\ told' = IF pC = 0 THEN told ELSE told \cup {pC}
    /\ apc' = "select"
    /\ UNCHANGED <<pipeVars, cmd, slot, pC, printed, connVars, countVars>>

\* A ghost's pipe has no reader: SIGPIPE ends the server.
SendKilled ==
    /\ apc = "send" /\ pC \in ended
    /\ Down /\ UNCHANGED <<path, file, shutdowns>>

AdminStep ==
    \/ AdminShutdown \/ AdminRead \/ ListLoad \/ ListPrint \/ ListCrash \/ ListDone
    \/ FindClient \/ SendClose \/ SendKilled

-----------------------------------------------------------------------------
PipeNext ==
    \/ \E c \in Command : Echo(c) \/ EchoGoesOn(c)
    \/ OpenAdminPipe \/ Terminate
    \/ \E p \in Pid, ghost \in BOOLEAN : Accept(p, ghost)
    \/ \E c \in Conn : CollectClient(c)
    \/ AdminStep

\* The main loop is scheduled and looks at the pipe after every accept; nobody
\* promises a command, a client or a start.
PipeSpec == PipeInit /\ [][PipeNext]_adminPipeVars /\ WF_adminPipeVars(AdminStep)

-----------------------------------------------------------------------------
\* Type correctness.
PipeTypeOK ==
    /\ path \in {"none", "fifo", "file"} /\ opened \in {"none", "fifo", "file"}
    /\ fifo \in Seq(Command \X Nat) /\ waiting \subseteq Command
    /\ file \in Command \cup {None} /\ pos \in Nat
    /\ apc \in {"select", "list", "print", "find", "send"}
    /\ cmd \in Command \cup {None} /\ slot \in 1 .. Slots + 1
    /\ pC \in Conn \cup {0} /\ printed \subseteq Conn /\ told \subseteq Conn
    /\ table \in [1 .. Slots -> Conn \cup {0}]
    /\ pidOf \in [Conn -> Pid \cup {0}]
    /\ ended \subseteq Conn /\ conns \in 0 .. MaxConns
    /\ written \subseteq Nat \X Command /\ starts \in 0 .. MaxStarts /\ shutdowns \in Nat

\* However commands are merged, cut, kept in a file or waiting over restarts,
\* each shutdown that was asked for shuts down at most one server.
OneShutdownPerCommand ==
    shutdowns <= Cardinality({w \in written : w[2].op = "shutdown"})

\* Only a connection whose pid was named in a command is told to close, although
\* clients are collected between the search and the message.
OnlyAskedClosed ==
    \A c \in told : \E w \in written : w[2].op = "close" /\ w[2].pid = pidOf[c]

\* The slots the walk has passed hold nothing that it did not print: a listing
\* names every client that is there when it ends, although clients are
\* collected while it is made.
ListingComplete ==
    apc = "list" => {table[s] : s \in 1 .. slot - 1} \ {0} \subseteq printed

\* A shutdown command that is alone in the pipe is obeyed unless another one
\* joins it first.
AloneObeyed ==
    opened = "fifo" /\ Input = Bytes([op |-> "shutdown", pid |-> 0])
        ~> ~Up \/ Len(Input) > 10
=============================================================================
