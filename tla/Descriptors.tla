----------------------------- MODULE Descriptors -----------------------------
(***************************************************************************)
(* Who holds which descriptor: the socket and the two pipes of every       *)
(* connection through do_accept, fork, the closing on both sides of it,    *)
(* closeAllClient in the child and closeClient in the SIGCHLD handler of   *)
(* the main process; and OUT_PIPE, which do_admin opens.                   *)
(*                                                                         *)
(* A fork copies every descriptor.  A connection ends for its client when  *)
(* the last process that holds its socket has closed it, and a pipe ends   *)
(* when the last writer has.                                               *)
(***************************************************************************)
EXTENDS Integers, FiniteSets

CONSTANTS
    Connection,     \* connections
    MaxAdmin        \* bound of the model: administration commands

ASSUME AdminAssumption == MaxAdmin \in Nat

VARIABLES
    main,           \* descriptors of the main process
    child,          \* those of the process of a connection
    g_clients,      \* connections with a TGClient in the table
    copy,           \* g_clients as a child's fork copied it
    life,           \* "none", "setup", "serving", "zombie" or "gone", by
                    \* connection; "failed" where fork failed
    mpc,            \* where do_accept is: "select", "forked" or "closed"
    cur,            \* the connections it works on: at most one
    admin           \* commands so far

descVars == <<main, child, g_clients, copy, life, mpc, cur, admin>>

\* fd[0] and fd1[1] are the child's ends of the pipes, fd[1] and fd1[0] those of
\* the main process.
ChildEnds(c) == {"sock", "fd0", "fd1_1"} \X {c}
MainEnds(c)  == {"fd1", "fd1_0"} \X {c}
EndsOf(c)    == ChildEnds(c) \cup MainEnds(c)
Listening    == {<<"listenfd", 0>>, <<"localAdminfd", 0>>}
OutPipe(n)   == <<"out", n>>

Desc == Listening \cup (UNION {EndsOf(c) : c \in Connection}) \cup {OutPipe(n) : n \in 1 .. MaxAdmin}

DescInit ==
    /\ main = Listening /\ child = [c \in Connection |-> {}]
    /\ g_clients = {} /\ copy = [c \in Connection |-> {}]
    /\ life = [c \in Connection |-> "none"]
    /\ mpc = "select" /\ cur = {} /\ admin = 0

-----------------------------------------------------------------------------
(* The main process                                                        *)

\* do_accept, up to a fork that succeeds.
Fork(c) ==
    /\ mpc = "select" /\ life[c] = "none"
    /\ life' = [life EXCEPT ![c] = "setup"]
    /\ main' = main \cup EndsOf(c)
    /\ child' = [child EXCEPT ![c] = main']
    /\ copy' = [copy EXCEPT ![c] = g_clients]
    /\ mpc' = "forked" /\ cur' = {c}
    /\ UNCHANGED <<g_clients, admin>>

\* The fork fails: do_accept returns, and nothing is closed.
ForkFails(c) ==
    /\ mpc = "select" /\ life[c] = "none"
    /\ life' = [life EXCEPT ![c] = "failed"]
    /\ main' = main \cup EndsOf(c)
    /\ UNCHANGED <<child, g_clients, copy, mpc, cur, admin>>

\* Mutant: the parent leaves the accepted socket open.
CloseChildEndsButSocket ==
    /\ mpc = "forked"
    /\ \E c \in cur : main' = main \ (ChildEnds(c) \ {<<"sock", c>>})
    /\ mpc' = "closed"
    /\ UNCHANGED <<child, g_clients, copy, life, cur, admin>>

\* The parent closes the child's ends, and the socket.
CloseChildEnds ==
    /\ mpc = "forked"
    /\ \E c \in cur : main' = main \ ChildEnds(c)
    /\ mpc' = "closed"
    /\ UNCHANGED <<child, g_clients, copy, life, cur, admin>>

\* addClient.
AddClient ==
    /\ mpc = "closed"
    /\ g_clients' = g_clients \cup cur
    /\ mpc' = "select" /\ cur' = {}
    /\ UNCHANGED <<main, child, copy, life, admin>>

\* do_admin opens OUT_PIPE for every command but a shutdown and leaves it open.
DoAdmin ==
    /\ mpc = "select" /\ admin < MaxAdmin
    /\ admin' = admin + 1
    /\ main' = main \cup {OutPipe(admin')}
    /\ UNCHANGED <<child, g_clients, copy, life, mpc, cur>>

\* Mutant: closeClient empties the slot and forgets the client.
CollectForgets(c) ==
    /\ life[c] = "zombie"
    /\ life' = [life EXCEPT ![c] = "gone"]
    /\ main' = main
    /\ g_clients' = g_clients \ {c}
    /\ UNCHANGED <<child, copy, mpc, cur, admin>>

\* The SIGCHLD handler collects a child, at any step of the main loop: closeClient
\* closes the pipes of a client that is registered already, and no other.
Collect(c) ==
    /\ life[c] = "zombie"
    /\ life' = [life EXCEPT ![c] = "gone"]
    /\ main' = IF c \in g_clients THEN main \ MainEnds(c) ELSE main
    /\ g_clients' = g_clients \ {c}
    /\ UNCHANGED <<child, copy, mpc, cur, admin>>

-----------------------------------------------------------------------------
(* A child                                                                 *)

\* Mutant: a child keeps the clients of its parent.
SetUpKeepsSiblings(c) ==
    /\ life[c] = "setup"
    /\ child' = [child EXCEPT ![c] = (@ \ MainEnds(c)) \ Listening]
    /\ life' = [life EXCEPT ![c] = "serving"]
    /\ UNCHANGED <<main, g_clients, copy, mpc, cur, admin>>

\* It closes the parent's ends of its pipes, its copies of those of the clients
\* in the table (closeAllClient) and what the main loop listens to, and serves.
SetUp(c) ==
    /\ life[c] = "setup"
    /\ child' = [child EXCEPT
          ![c] = ((@ \ MainEnds(c)) \ UNION {MainEnds(d) : d \in copy[c]}) \ Listening]
    /\ life' = [life EXCEPT ![c] = "serving"]
    /\ UNCHANGED <<main, g_clients, copy, mpc, cur, admin>>

\* It ends, turned away or when its connection ends, and all it held is closed.
ChildExit(c) ==
    /\ life[c] \in {"setup", "serving"}
    /\ life' = [life EXCEPT ![c] = "zombie"]
    /\ child' = [child EXCEPT ![c] = {}]
    /\ UNCHANGED <<main, g_clients, copy, mpc, cur, admin>>

DescNext ==
    \/ \E c \in Connection : Fork(c) \/ ForkFails(c) \/ Collect(c) \/ SetUp(c) \/ ChildExit(c)
    \/ CloseChildEnds \/ AddClient \/ DoAdmin

DescSpec == DescInit /\ [][DescNext]_descVars

-----------------------------------------------------------------------------
\* Type correctness.
DescTypeOK ==
    /\ main \subseteq Desc /\ child \in [Connection -> SUBSET Desc]
    /\ g_clients \subseteq Connection /\ copy \in [Connection -> SUBSET Connection]
    /\ life \in [Connection -> {"none", "setup", "serving", "zombie", "gone", "failed"}]
    /\ mpc \in {"select", "forked", "closed"} /\ cur \subseteq Connection
    /\ admin \in 0 .. MaxAdmin

Failed == {c \in Connection : life[c] = "failed"}

\* What is left open for good: OUT_PIPE, once for each command, and everything
\* of a connection whose fork failed.
Leaked == {OutPipe(n) : n \in 1 .. MaxAdmin} \cup (UNION {EndsOf(c) : c \in Failed})

\* A client sees the end of its connection as soon as its process has ended and
\* the main loop is back in select: nobody else holds the socket, whoever was
\* forked in between.
HangsUp ==
    \A c \in Connection : life[c] \in {"zombie", "gone"} /\ c \notin cur =>
        /\ <<"sock", c>> \notin main
        /\ \A d \in Connection : <<"sock", c>> \notin child[d]

\* A serving child holds its own three ends and, besides what leaked, nothing:
\* no sibling's pipe, so that each pipe has one writer, and nothing that would
\* keep the port or the administration pipe busy after the server has ended.
HoldsOwn ==
    \A c \in Connection : life[c] = "serving" =>
        /\ ChildEnds(c) \subseteq child[c]
        /\ child[c] \subseteq ChildEnds(c) \cup Leaked

\* In select the main process holds its ends of the clients in the table, what
\* it listens to and what leaked: nothing else is ever left over.
MainAccounted ==
    mpc = "select" =>
        /\ Listening \cup (UNION {MainEnds(c) : c \in g_clients}) \subseteq main
        /\ main \subseteq Listening \cup (UNION {MainEnds(c) : c \in g_clients}) \cup Leaked
=============================================================================
