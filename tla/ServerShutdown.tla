--------------------------- MODULE ServerShutdown ---------------------------
(***************************************************************************)
(* The shutdown of the main process, __handle_host_shutdown_signal: the    *)
(* message to all clients, the grace period, closeAllClient,               *)
(* destroyAllServices, release and exit.  SIGTERM runs it on top of        *)
(* whatever the main process does, registration of a client and SIGCHLD    *)
(* handler included; the administration pipe runs it from the main loop,   *)
(* where SIGTERM can still interrupt it and run it a second time.  It      *)
(* never returns.                                                          *)
(*                                                                         *)
(* The rest of the main process is ClientTable, whose main loop stands     *)
(* still and whose SIGCHLD handler goes on meanwhile.                      *)
(***************************************************************************)
EXTENDS ClientTable

CONSTANT Timer      \* seconds of grace

ASSUME TimerAssumption == Timer \in Nat

VARIABLES
    spc,        \* where the shutdown is: "idle" before, "exited" after it;
                \* "killed" by SIGPIPE
    slot,          \* the slot its loops are at
    timer,
    array,      \* the memory of g_clients in release(): "valid", "freed",
                \* "null" (g_clients is NULL) or "gone" (its size is 0 too)
    inTerm,     \* the handler of SIGTERM runs (SIGTERM is blocked)
    masked,     \* it interrupted the SIGCHLD handler (SIGCHLD stays blocked)
    told,       \* children that have tg://1003/ in their pipe
    hungUp,     \* children that have closed their end of it and still run
    destroyed   \* destroyAllServices was called

shutdownVars == <<spc, slot, timer, array, inTerm, masked, destroyed>>
childVars    == <<told, hungUp>>
allVars      == <<vars, shutdownVars, childVars>>

ShutdownInit ==
    /\ Init
    /\ spc = "idle" /\ slot = 1 /\ timer = Timer
    /\ array = "valid"
    /\ inTerm = FALSE /\ masked = FALSE
    /\ told = {} /\ hungUp = {}
    /\ destroyed = FALSE

\* The main process is there.
Alive == mpc # "crashed" /\ spc \notin {"exited", "killed"}

-----------------------------------------------------------------------------
(* The rest of the main process, and the children                          *)

\* The main loop goes on until a shutdown starts.  Bound of the model: a pid is
\* not given out again while the table still has it.
Serve ==
    /\ spc = "idle"
    /\ MainStep \/ (\E p \in Pid : Fork(p) /\ \A j \in 1 .. Len(g_clients) : g_clients[j] # p)
    /\ UNCHANGED <<shutdownVars, childVars>>

ChildStart(p) == Start(p) /\ UNCHANGED <<shutdownVars, childVars>>

\* destroyClient, up to two seconds before the child exits.
HangUp(p) ==
    /\ child[p] = "serving"
    /\ hungUp' = hungUp \cup {p}
    /\ UNCHANGED <<vars, shutdownVars, told>>

ChildEnd(p) ==
    /\ ChildExit(p)
    /\ told' = told \ {p}
    /\ hungUp' = hungUp \ {p}
    /\ UNCHANGED shutdownVars

\* closeClient during release(): the table is freed memory, then a NULL pointer
\* with a size that is not zero, then empty.
ReapReleased(p) ==
    /\ handling
    /\ child[p] = "zombie"
    /\ child' = [child EXCEPT ![p] = "none"]
    /\ \/ array \in {"freed", "gone"} /\ UNCHANGED mpc
       \/ array \in {"freed", "null"} /\ mpc' = "crashed"
    /\ UNCHANGED <<snap, tableVars, pT, i, tmp, sigchld, handling>>

\* __handle_child_quit_signal, in whatever the shutdown has left of the table.
Collect ==
    /\ Alive
    /\ \/ ~masked /\ Deliver
       \/ array = "valid" /\ \E p \in Pid : Reap(p)
       \/ array # "valid" /\ \E p \in Pid : ReapReleased(p)
       \/ HandlerReturn
    /\ UNCHANGED <<shutdownVars, childVars>>

-----------------------------------------------------------------------------
(* __handle_host_shutdown_signal                                           *)

Begin == spc' = "send" /\ slot' = 1

\* SIGTERM: on top of anything but itself.
SigTerm ==
    /\ Alive /\ ~inTerm
    /\ inTerm' = TRUE
    /\ masked' = (masked \/ handling)
    /\ handling' = FALSE
    /\ Begin
    /\ UNCHANGED <<child, snap, tableVars, mainVars, sigchld, timer, array, destroyed, childVars>>

\* do_admin reads tg://1003/.
AdminShutdown ==
    /\ Alive /\ spc = "idle" /\ mpc = "select" /\ ~handling
    /\ Begin
    /\ UNCHANGED <<vars, timer, array, inTerm, masked, destroyed, childVars>>

Runs(pc) == Alive /\ spc = pc /\ ~handling

Size == IF array = "gone" THEN 0 ELSE Len(g_clients)

\* What the loops read in slot slot is not a client: the table, or the client, was
\* freed, or there is no table.
Stray == mpc = "swap" \/ array = "freed" \/ g_clients[slot] = Dangling

Crash == mpc' = "crashed" /\ UNCHANGED <<tableVars, spc, slot, childVars>>

\* A write to the pipe of p raises SIGPIPE: nobody has it open for reading.
Broken(p) == child[p] \notin {"forked", "serving"} \/ p \in hungUp

\* Mutant: the loop ends at the first empty slot.
SendUntilHole ==
    /\ Runs("send") /\ slot <= Size
    /\ \/ (array = "null" \/ Stray) /\ Crash
       \/ /\ array # "null" /\ (Stray \/ g_clients[slot] = NULL)
          /\ slot' = IF Stray THEN slot + 1 ELSE Size + 1
          /\ UNCHANGED <<mpc, spc, childVars>>
       \/ /\ array = "valid" /\ ~Stray /\ g_clients[slot] \in Pid
          /\ IF Broken(g_clients[slot])
             THEN spc' = "killed" /\ UNCHANGED <<slot, told>>
             ELSE told' = told \cup {g_clients[slot]} /\ slot' = slot + 1 /\ UNCHANGED spc
          /\ UNCHANGED <<mpc, hungUp>>
    /\ UNCHANGED <<child, snap, g_clients, ppNew, curClientCounts, pT, i, tmp, sigchld, handling,
                   timer, array, inTerm, masked, destroyed>>

\* sendSignalToAllClients and sendSignalToClient, one slot.
Send ==
    /\ Runs("send") /\ slot <= Size
    /\ \/ (array = "null" \/ Stray) /\ Crash
       \/ /\ array # "null" /\ (Stray \/ g_clients[slot] = NULL)
          /\ slot' = slot + 1
          /\ UNCHANGED <<mpc, spc, childVars>>
       \/ /\ array = "valid" /\ ~Stray /\ g_clients[slot] \in Pid
          /\ IF Broken(g_clients[slot])
             THEN spc' = "killed" /\ UNCHANGED <<slot, told>>
             ELSE told' = told \cup {g_clients[slot]} /\ slot' = slot + 1 /\ UNCHANGED spc
          /\ UNCHANGED <<mpc, hungUp>>
    /\ UNCHANGED <<child, snap, g_clients, ppNew, curClientCounts, pT, i, tmp, sigchld, handling,
                   timer, array, inTerm, masked, destroyed>>

SendDone ==
    /\ Runs("send") /\ slot > Size
    /\ spc' = "wait" /\ timer' = Timer
    /\ UNCHANGED <<vars, slot, array, inTerm, masked, destroyed, childVars>>

\* Mutant: the server waits for its children, however long they take.
TickUntilGone ==
    /\ Runs("wait") /\ timer > 0
    /\ timer' = IF Unreaped = {} THEN 0 ELSE timer
    /\ UNCHANGED <<vars, spc, slot, array, inTerm, masked, destroyed, childVars>>

\* Mutant: the loop goes round once too often.
TickTooFar ==
    /\ Runs("wait")
    /\ timer' = timer - 1
    /\ UNCHANGED <<vars, spc, slot, array, inTerm, masked, destroyed, childVars>>

\* sleep(1), cut short by every SIGCHLD.
Tick ==
    /\ Runs("wait") /\ timer > 0
    /\ timer' = timer - 1
    /\ UNCHANGED <<vars, spc, slot, array, inTerm, masked, destroyed, childVars>>

WaitDone ==
    /\ Runs("wait") /\ timer = 0
    /\ spc' = "close" /\ slot' = 1
    /\ UNCHANGED <<vars, timer, array, inTerm, masked, destroyed, childVars>>

\* closeAllClient: releaseClient, and only then is the slot cleared.
Close ==
    /\ Runs("close") /\ slot <= Size
    /\ \/ (array = "null" \/ Stray) /\ Crash
       \/ /\ array # "null" /\ ~Stray /\ g_clients[slot] = NULL
          /\ slot' = slot + 1
          /\ UNCHANGED <<mpc, g_clients, spc, childVars>>
       \/ /\ array # "null" /\ (Stray \/ g_clients[slot] \in Pid)
          /\ g_clients' = [g_clients EXCEPT ![slot] = Dangling]
          /\ spc' = "clear"
          /\ UNCHANGED <<mpc, slot, childVars>>
    /\ UNCHANGED <<child, snap, ppNew, curClientCounts, pT, i, tmp, sigchld, handling,
                   timer, array, inTerm, masked, destroyed>>

ClearSlot ==
    /\ Runs("clear")
    /\ g_clients' = [g_clients EXCEPT ![slot] = NULL]
    /\ spc' = "close" /\ slot' = slot + 1
    /\ UNCHANGED <<child, snap, ppNew, curClientCounts, mainVars, sigchld, handling,
                   timer, array, inTerm, masked, destroyed, childVars>>

CloseDone ==
    /\ Runs("close") /\ slot > Size
    /\ spc' = "destroy"
    /\ UNCHANGED <<vars, slot, timer, array, inTerm, masked, destroyed, childVars>>

DestroyServices ==
    /\ Runs("destroy")
    /\ destroyed' = TRUE
    /\ spc' = "release"
    /\ UNCHANGED <<vars, slot, timer, array, inTerm, masked, childVars>>

\* release(): free of the table, g_clients = NULL, the context, the size; a
\* table that appendClient has freed already is freed twice.
Release ==
    /\ Runs("release") /\ array # "gone"
    /\ \/ mpc = "swap" /\ Crash /\ UNCHANGED array
       \/ /\ array' = [valid |-> "freed", freed |-> "null", null |-> "gone"][array]
          /\ UNCHANGED <<mpc, tableVars, spc, slot, childVars>>
    /\ UNCHANGED <<child, snap, pT, i, tmp, sigchld, handling, timer, inTerm, masked, destroyed>>

ExitMain ==
    /\ Runs("release") /\ array = "gone"
    /\ spc' = "exited"
    /\ UNCHANGED <<vars, slot, timer, array, inTerm, masked, destroyed, childVars>>

ShutdownStep ==
    \/ Send \/ SendDone \/ Tick \/ WaitDone \/ Close \/ ClearSlot \/ CloseDone
    \/ DestroyServices \/ Release \/ ExitMain

-----------------------------------------------------------------------------
ShutdownNext ==
    \/ Serve
    \/ \E p \in Pid : ChildStart(p) \/ HangUp(p) \/ ChildEnd(p)
    \/ Collect
    \/ SigTerm \/ AdminShutdown
    \/ ShutdownStep

ShutdownSafety == ShutdownInit /\ [][ShutdownNext]_allVars

\* The main process is scheduled, sleeps end and signals are delivered; children
\* promise nothing.
ShutdownSpec ==
    /\ ShutdownSafety
    /\ WF_allVars(ShutdownStep)
    /\ WF_allVars(Collect)

-----------------------------------------------------------------------------
\* Type correctness of the shutdown.
ShutdownTypeOK ==
    /\ spc \in {"idle", "send", "wait", "close", "clear", "destroy", "release", "exited", "killed"}
    /\ slot \in 1 .. Len(g_clients) + 1
    /\ timer \in 0 .. Timer
    /\ array \in {"valid", "freed", "null", "gone"}
    /\ inTerm \in BOOLEAN /\ masked \in BOOLEAN /\ destroyed \in BOOLEAN
    /\ told \in SUBSET Pid /\ hungUp \in SUBSET Pid

Past == {"wait", "close", "clear", "destroy", "release", "exited"}

\* Once the messages are sent, every child that still serves has been told,
\* whatever SIGTERM interrupted and however the handlers overlap; save the child
\* the main loop was about to register, and unless the table was being replaced.
AllTold ==
    (spc \in Past /\ mpc \notin {"swap", "crashed"}) =>
        \A p \in Pid \ Unregistered :
            child[p] \in {"forked", "serving"} => p \in told \cup hungUp

\* A shutdown that starts ends, whatever the children do.
ShutdownEnds == spc # "idle" ~> ~Alive

\* What tg_service.h says of destroy: "when server shut down this function will
\* be call".
DestroyedAtEnd == ~Alive => destroyed
=============================================================================
