-------------------------- MODULE ServiceLifecycle --------------------------
(***************************************************************************)
(* The life of services across processes: the thread that init_plugin      *)
(* starts runs createAllServices while the main thread already accepts     *)
(* clients, and every child calls init, do_request and release with the    *)
(* pGlobalData that fork copied.  A shutdown runs destroyAllServices in    *)
(* the main process, whatever the thread and the children are doing.       *)
(*                                                                         *)
(* A child has no creator thread: what was NULL at the fork stays NULL.    *)
(***************************************************************************)
EXTENDS Integers, FiniteSets

CONSTANTS
    NService,       \* services in the registry
    Child           \* client processes

ASSUME LifeAssumption == NService \in Nat

VARIABLES
    created,        \* services whose create has been entered (0 .. NService)
    stored,         \* services whose pGlobalData is set
    server,         \* "running"; "destroying" after the grace period; "exited"
    destroyed,      \* services whose destroy was called
    serving,        \* "none", "init", "serving", "release" or "ended", by child
    at,             \* the service a child's loop is at
    globals         \* services whose pGlobalData its fork copied

lifeVars == <<created, stored, server, destroyed, serving, at, globals>>

LifeInit ==
    /\ created = 0 /\ stored = 0
    /\ server = "running" /\ destroyed = 0
    /\ serving = [c \in Child |-> "none"]
    /\ at = [c \in Child |-> 1] /\ globals = [c \in Child |-> 0]

-----------------------------------------------------------------------------
(* The creator thread: createAllServices, one service after the other      *)

CallCreate ==
    /\ server # "exited" /\ created = stored /\ created < NService
    /\ created' = created + 1
    /\ UNCHANGED <<stored, server, destroyed, serving, at, globals>>

StoreGlobal ==
    /\ server # "exited" /\ stored < created
    /\ stored' = created
    /\ UNCHANGED <<created, server, destroyed, serving, at, globals>>

-----------------------------------------------------------------------------
(* A child                                                                 *)

\* Mutant: the memory shared is that before the last store.
ForkStale(c) ==
    /\ server = "running" /\ serving[c] = "none"
    /\ serving' = [serving EXCEPT ![c] = "init"]
    /\ globals' = [globals EXCEPT ![c] = IF stored = 0 THEN 0 ELSE stored - 1]
    /\ UNCHANGED <<created, stored, server, destroyed, at>>

\* do_accept.
ForkChild(c) ==
    /\ server = "running" /\ serving[c] = "none"
    /\ serving' = [serving EXCEPT ![c] = "init"]
    /\ globals' = [globals EXCEPT ![c] = stored]
    /\ UNCHANGED <<created, stored, server, destroyed, at>>

\* One round of the loop of initAllServices or releaseAllServices, or its end.
Walk(c, from, to) ==
    /\ serving[c] = from
    /\ IF at[c] <= NService
       THEN at' = [at EXCEPT ![c] = @ + 1] /\ UNCHANGED serving
       ELSE at' = [at EXCEPT ![c] = 1] /\ serving' = [serving EXCEPT ![c] = to]
    /\ UNCHANGED <<created, stored, server, destroyed, globals>>

\* initAllServices: do_init gets the parameters.  It runs twice (ClientProcess),
\* and the second time is no different.
InitServices(c) == Walk(c, "init", "serving")

\* releaseAllServices: do_release gets pGlobalData, NULL where the copy has none.
ReleaseServices(c) == Walk(c, "release", "ended")

\* The client leaves, or the child ends without releasing anything.
ClientLeaves(c) ==
    /\ serving[c] = "serving"
    /\ serving' = [serving EXCEPT ![c] = "release"]
    /\ UNCHANGED <<created, stored, server, destroyed, at, globals>>

ChildDies(c) ==
    /\ serving[c] \in {"init", "serving", "release"}
    /\ serving' = [serving EXCEPT ![c] = "ended"]
    /\ UNCHANGED <<created, stored, server, destroyed, at, globals>>

-----------------------------------------------------------------------------
(* Shutdown                                                                *)

\* The grace period is over.
StartDestroy ==
    /\ server = "running"
    /\ server' = "destroying"
    /\ UNCHANGED <<created, stored, destroyed, serving, at, globals>>

\* destroyAllServices: do_destroy gets the parameters.
DestroyService ==
    /\ server = "destroying" /\ destroyed < NService
    /\ destroyed' = destroyed + 1
    /\ UNCHANGED <<created, stored, server, serving, at, globals>>

\* release and exit, which ends the creator thread too.
ExitServer ==
    /\ server = "destroying" /\ destroyed = NService
    /\ server' = "exited"
    /\ UNCHANGED <<created, stored, destroyed, serving, at, globals>>

-----------------------------------------------------------------------------
Creator == CallCreate \/ StoreGlobal

LifeNext ==
    \/ Creator
    \/ \E c \in Child : ForkChild(c) \/ InitServices(c) \/ ClientLeaves(c) \/ ReleaseServices(c) \/ ChildDies(c)
    \/ StartDestroy \/ DestroyService \/ ExitServer

LifeSpec == LifeInit /\ [][LifeNext]_lifeVars

-----------------------------------------------------------------------------
\* Type correctness.
LifeTypeOK ==
    /\ created \in 0 .. NService /\ stored \in 0 .. NService
    /\ server \in {"running", "destroying", "exited"} /\ destroyed \in 0 .. NService
    /\ serving \in [Child -> {"none", "init", "serving", "release", "ended"}]
    /\ at \in [Child -> 1 .. NService + 1] /\ globals \in [Child -> 0 .. NService]

\* Once every service has been created, each child forked from then on has the
\* pGlobalData of all of them.
LateForksComplete ==
    [][stored = NService =>
        \A c \in Child : serving[c] = "none" /\ serving'[c] # "none" => globals'[c] = NService]_lifeVars
=============================================================================
