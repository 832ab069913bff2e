----------------------------- MODULE ClientTable -----------------------------
(***************************************************************************)
(* Admission and registration of clients by the main process: do_accept    *)
(* and the SIGCHLD handler of tg_process.c, addClient, appendClient and    *)
(* closeClient of tg_context.c, and the limit check every child makes on   *)
(* the copy of curClientCounts it got from fork.                           *)
(*                                                                         *)
(* The handler interrupts the main loop between any two of its memory      *)
(* accesses; the main loop does not move while the handler runs.  The      *)
(* program is built without optimisation (Makefile, FLAGS), so that        *)
(* curClientCounts++ is a load and a store.                                *)
(***************************************************************************)
EXTENDS Integers, Sequences, FiniteSets

CONSTANTS
    Pid,            \* process ids: one that was reaped can be given out again
    MaxClients,     \* pServer->maxClients
    Chunk,          \* DEFAULT_MAX_CLIENTS, by which the table grows
    TableBound,     \* bound of the model: slots the table may have
    CountBound,     \* bound of the model: value curClientCounts may reach
    NULL,           \* an empty slot
    Dangling        \* a slot whose client was freed behind its back

ASSUME PidAssumption == IsFiniteSet(Pid) /\ NULL \notin Pid /\ Dangling \notin Pid
                        /\ NULL # Dangling
ASSUME LimitAssumption == MaxClients \in Int /\ Chunk \in Nat \ {0}
ASSUME BoundAssumption == TableBound \in Nat /\ CountBound \in Int

VARIABLES
    child,              \* what became of the child process of a pid
    snap,               \* curClientCounts in the memory a child was forked with
    g_clients,          \* the table: a slot holds the pid of its TGClient
    ppNew,              \* the larger table appendClient is filling
    curClientCounts,
    mpc,                \* where the main loop is
    pT,                 \* the client addClient is registering
    i,                  \* the slot it looks at, then currentPos
    tmp,                \* curClientCounts as loaded by curClientCounts++
    sigchld,            \* SIGCHLD is pending (one bit, however many children)
    handling            \* the SIGCHLD handler is running

tableVars == <<g_clients, ppNew, curClientCounts>>
mainVars  == <<mpc, pT, i, tmp>>
vars      == <<child, snap, tableVars, mainVars, sigchld, handling>>

Entry == Pid \cup {NULL, Dangling}

EmptySlots == [k \in 1 .. Chunk |-> NULL]

\* init() has made the first chunk.
Init ==
    /\ child = [p \in Pid |-> "none"]
    /\ snap = [p \in Pid |-> 0]
    /\ g_clients = EmptySlots /\ ppNew = <<>>
    /\ curClientCounts = 0
    /\ mpc = "select" /\ pT = NULL /\ i = 1 /\ tmp = 0
    /\ sigchld = FALSE /\ handling = FALSE

-----------------------------------------------------------------------------
(* The main loop: do_accept and addClient                                  *)

\* A connection is accepted and fork returns p to the parent; the child has
\* a copy of the count.  The last two conjuncts are bounds of the model.
Fork(p) ==
    /\ mpc = "select" /\ ~handling
    /\ child[p] = "none"
    /\ child' = [child EXCEPT ![p] = "forked"]
    /\ snap' = [snap EXCEPT ![p] = curClientCounts]
    /\ mpc' = "scan" /\ pT' = p /\ i' = 1
    /\ UNCHANGED <<tableVars, tmp, sigchld, handling>>
    /\ Len(g_clients) + Chunk <= TableBound
    /\ curClientCounts < CountBound

\* addClient looks for an empty slot.
ScanTaken ==
    /\ mpc = "scan" /\ ~handling
    /\ i <= Len(g_clients)
    /\ g_clients[i] # NULL
    /\ i' = i + 1
    /\ UNCHANGED <<child, snap, tableVars, mpc, pT, tmp, sigchld, handling>>

ScanEmpty ==
    /\ mpc = "scan" /\ ~handling
    /\ i <= Len(g_clients)
    /\ g_clients[i] = NULL
    /\ g_clients' = [g_clients EXCEPT ![i] = pT]
    /\ mpc' = "load"
    /\ UNCHANGED <<child, snap, ppNew, curClientCounts, pT, i, tmp, sigchld, handling>>

ScanFull ==
    /\ mpc = "scan" /\ ~handling
    /\ i > Len(g_clients)
    /\ mpc' = "copy"
    /\ UNCHANGED <<child, snap, tableVars, pT, i, tmp, sigchld, handling>>

\* appendClient: malloc, memset and memcpy; free of the old table; the two
\* assignments that install the new one.
Copy ==
    /\ mpc = "copy" /\ ~handling
    /\ ppNew' = g_clients \o EmptySlots
    /\ mpc' = "free"
    /\ UNCHANGED <<child, snap, g_clients, curClientCounts, pT, i, tmp, sigchld, handling>>

\* Mutant: the table variable is cleared together with the free.
FreeOldClears ==
    /\ mpc = "free" /\ ~handling
    /\ g_clients' = <<>>
    /\ mpc' = "swap"
    /\ UNCHANGED <<child, snap, ppNew, curClientCounts, pT, i, tmp, sigchld, handling>>

FreeOld ==
    /\ mpc = "free" /\ ~handling
    /\ mpc' = "swap"
    /\ UNCHANGED <<child, snap, tableVars, pT, i, tmp, sigchld, handling>>

Swap ==
    /\ mpc = "swap" /\ ~handling
    /\ g_clients' = ppNew
    /\ ppNew' = <<>>
    /\ mpc' = "place"
    /\ UNCHANGED <<child, snap, curClientCounts, pT, i, tmp, sigchld, handling>>

\* Mutant: currentPos is the size of the new table.
PlaceAtEnd ==
    /\ mpc = "place" /\ ~handling
    /\ g_clients' = [g_clients EXCEPT ![Len(g_clients) + 1] = pT]
    /\ mpc' = "load"
    /\ UNCHANGED <<child, snap, ppNew, curClientCounts, pT, i, tmp, sigchld, handling>>

\* Mutant: the count is incremented only where an empty slot was found.
PlaceUncounted ==
    /\ mpc = "place" /\ ~handling
    /\ g_clients' = [g_clients EXCEPT ![i] = pT]
    /\ mpc' = "select" /\ pT' = NULL /\ i' = 1
    /\ UNCHANGED <<child, snap, ppNew, curClientCounts, tmp, sigchld, handling>>

\* g_clients[currentPos] = pT.
Place ==
    /\ mpc = "place" /\ ~handling
    /\ g_clients' = [g_clients EXCEPT ![i] = pT]
    /\ mpc' = "load"
    /\ UNCHANGED <<child, snap, ppNew, curClientCounts, pT, i, tmp, sigchld, handling>>

\* The two halves of curClientCounts++.
Load ==
    /\ mpc = "load" /\ ~handling
    /\ tmp' = curClientCounts
    /\ mpc' = "store"
    /\ UNCHANGED <<child, snap, tableVars, pT, i, sigchld, handling>>

Store ==
    /\ mpc = "store" /\ ~handling
    /\ curClientCounts' = tmp + 1
    /\ mpc' = "select" /\ pT' = NULL /\ i' = 1 /\ tmp' = 0
    /\ UNCHANGED <<child, snap, g_clients, ppNew, sigchld, handling>>

MainStep ==
    \/ ScanTaken \/ ScanEmpty \/ ScanFull \/ Copy \/ FreeOld \/ Swap
    \/ Place \/ Load \/ Store

-----------------------------------------------------------------------------
(* A child process, from the fork to its end                               *)

\* Mutant: the limit itself is still accepted.
StartOverLimit(p) ==
    /\ child[p] = "forked"
    /\ snap[p] <= MaxClients
    /\ child' = [child EXCEPT ![p] = "serving"]
    /\ UNCHANGED <<snap, tableVars, mainVars, sigchld, handling>>

\* The check of do_accept on the child's copy of the count lets it serve.
Start(p) ==
    /\ child[p] = "forked"
    /\ snap[p] < MaxClients
    /\ child' = [child EXCEPT ![p] = "serving"]
    /\ UNCHANGED <<snap, tableVars, mainVars, sigchld, handling>>

\* The child ends: turned away by the check, at the end of its connection, or
\* killed by a signal at any time.  The kernel notes SIGCHLD for the parent.
ChildExit(p) ==
    /\ child[p] \in {"forked", "serving"}
    /\ child' = [child EXCEPT ![p] = "zombie"]
    /\ sigchld' = TRUE
    /\ UNCHANGED <<snap, tableVars, mainVars, handling>>

-----------------------------------------------------------------------------
(* __handle_child_quit_signal                                              *)

\* The handler is entered; SIGCHLD is blocked while it runs.
Deliver ==
    /\ sigchld /\ ~handling /\ mpc # "crashed"
    /\ handling' = TRUE
    /\ sigchld' = FALSE
    /\ UNCHANGED <<child, snap, tableVars, mainVars>>

\* closeClient found its client in slot k: the slot is emptied, the client
\* freed and the count decremented.  A table that appendClient has already
\* copied keeps the pointer to the freed client.
CloseSlot(k) ==
    /\ g_clients' = [g_clients EXCEPT ![k] = NULL]
    /\ ppNew' = IF mpc \in {"free", "swap"}
                THEN [ppNew EXCEPT ![k] = Dangling] ELSE ppNew
    /\ curClientCounts' = curClientCounts - 1
    /\ UNCHANGED mpc

\* The first slot that matches pid p.  Freed memory may read as anything: a
\* dangling slot before it may match too.
CloseFound(p) ==
    \E k \in 1 .. Len(g_clients) :
        /\ g_clients[k] \in {p, Dangling}
        /\ \A j \in 1 .. k - 1 : g_clients[j] # p
        /\ CloseSlot(k)

\* No slot matches: the client is not registered, or the handler searches the
\* table between its free and the assignment of the new one.
CloseNotFound(p) ==
    /\ \/ \A k \in 1 .. Len(g_clients) : g_clients[k] # p
       \/ mpc = "swap"
    /\ UNCHANGED <<tableVars, mpc>>

\* Following a pointer out of the freed table, or freeing a client twice, can
\* also end the main process.
CloseCrash ==
    /\ mpc = "swap" \/ \E k \in 1 .. Len(g_clients) : g_clients[k] = Dangling
    /\ mpc' = "crashed"
    /\ UNCHANGED tableVars

\* Mutant: one waitpid per signal instead of the loop.
ReapOnce(p) ==
    /\ handling /\ mpc # "crashed"
    /\ child[p] = "zombie"
    /\ child' = [child EXCEPT ![p] = "none"]
    /\ CloseFound(p) \/ CloseNotFound(p) \/ CloseCrash
    /\ handling' = FALSE
    /\ UNCHANGED <<snap, pT, i, tmp, sigchld>>

\* waitpid returns p, and closeClient(p).
Reap(p) ==
    /\ handling /\ mpc # "crashed"
    /\ child[p] = "zombie"
    /\ child' = [child EXCEPT ![p] = "none"]
    /\ CloseFound(p) \/ CloseNotFound(p) \/ CloseCrash
    /\ UNCHANGED <<snap, pT, i, tmp, sigchld, handling>>

\* waitpid finds no more zombies and the handler returns.
HandlerReturn ==
    /\ handling /\ mpc # "crashed"
    /\ \A p \in Pid : child[p] # "zombie"
    /\ handling' = FALSE
    /\ UNCHANGED <<child, snap, tableVars, mainVars, sigchld>>

HandlerStep == Deliver \/ (\E p \in Pid : Reap(p)) \/ HandlerReturn

-----------------------------------------------------------------------------
Next ==
    \/ \E p \in Pid : Fork(p) \/ Start(p) \/ ChildExit(p)
    \/ MainStep
    \/ HandlerStep

\* The main process is scheduled and signals are delivered; clients and
\* children promise nothing.
Fairness == WF_vars(MainStep) /\ WF_vars(HandlerStep)

SafetySpec == Init /\ [][Next]_vars

Spec == SafetySpec /\ Fairness

-----------------------------------------------------------------------------
MainPC == {"select", "scan", "copy", "free", "swap", "place", "load", "store", "crashed"}

\* The table in force: the copy, as soon as appendClient has made it.
Table == IF mpc \in {"free", "swap"} THEN ppNew ELSE g_clients

\* Children whose exit the main process has not collected yet.
Unreaped == {p \in Pid : child[p] # "none"}

Serving == {p \in Pid : child[p] = "serving"}

\* Type correctness; the scan never leaves the table by more than one slot.
TypeOK ==
    /\ child \in [Pid -> {"none", "forked", "serving", "zombie"}]
    /\ snap \in [Pid -> Int]
    /\ g_clients \in Seq(Entry)
    /\ ppNew \in Seq(Entry)
    /\ curClientCounts \in Int
    /\ mpc \in MainPC
    /\ pT \in Pid \cup {NULL}
    /\ i \in 1 .. Len(g_clients) + 1
    /\ tmp \in Int
    /\ sigchld \in BOOLEAN /\ handling \in BOOLEAN

\* Never more than maxClients connections are served at a time, although each
\* child decides from a count that may be old when it looks at it, and the
\* count itself is changed by a signal handler in the middle of an increment.
ServingLimit == Serving # {} => Cardinality(Serving) <= MaxClients

\* Whenever the main loop is about to accept, the count is at least the number
\* of children it has not collected: the races of the handler with addClient
\* and appendClient may lose decrements but never an increment.
NeverUndercounts == mpc = "select" => curClientCounts >= Cardinality(Unreaped)

\* Every child not collected has a slot, save the one being registered: a
\* message to all clients, or to a pid, reaches every child there is.
Unregistered == IF mpc \in {"scan", "copy", "free", "swap", "place"} THEN {pT} ELSE {}

LiveRegistered ==
    mpc # "crashed" =>
        \A p \in Unreaped \ Unregistered :
            \E k \in 1 .. Len(Table) : Table[k] = p

\* Every child that ends is collected, although signals of several children
\* may arrive as one.
ZombiesReaped ==
    \A p \in Pid : child[p] = "zombie" ~> (child[p] # "zombie" \/ mpc = "crashed")

\* What the comment on curClientCounts says (tg_context.c, addClient: "record
\* current client connection counts"): when the main loop is idle and every
\* exit has been collected, the count is the number of children.
CountExact ==
    (mpc = "select" /\ ~handling /\ ~sigchld)
        => curClientCounts = Cardinality(Unreaped)
=============================================================================
