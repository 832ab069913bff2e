---------------------------- MODULE MCServerParts ----------------------------
(***************************************************************************)
(* Finite instances of the parts of the server that share no state with    *)
(* each other here: every behaviour is one of one part, and the others     *)
(* stay as they are.                                                       *)
(***************************************************************************)
EXTENDS AdminPipe, ServiceRegistry, Startup, ServiceLifecycle, Descriptors, StringHelpers

\* -s finds library "a" again and a new one.
HomeLibs == <<"a">>
MoreLibs == <<"b", "a">>

VARIABLE part

vars == <<part, adminPipeVars, registryVars, startVars, lifeVars, descVars, stringVars>>

Init ==
    /\ part \in {"pipe", "registry", "start", "life", "desc", "strings"}
    /\ PipeInit /\ RegistryInit /\ LifeInit /\ DescInit
    /\ IF part = "start" THEN StartInit
       ELSE /\ argv = <<>> /\ conf = <<>> /\ pc = "init" /\ i = 1 /\ line = 1 /\ services = <<>>
            /\ paras = <<>> /\ setting = [key \in Key |-> 0] /\ pluginRet = 1
    /\ IF part = "strings" THEN StringInit ELSE source = <<>> /\ sepr = "=" /\ before = "="

Rest(p) ==
    /\ part = p /\ UNCHANGED part
    /\ p # "pipe" => UNCHANGED adminPipeVars
    /\ p # "registry" => UNCHANGED registryVars
    /\ p # "start" => UNCHANGED startVars
    /\ p # "life" => UNCHANGED lifeVars
    /\ p # "desc" => UNCHANGED descVars
    /\ p # "strings" => UNCHANGED stringVars

Next ==
    \/ PipeNext /\ Rest("pipe")
    \/ RegistryNext /\ Rest("registry")
    \/ StartNext /\ Rest("start")
    \/ LifeNext /\ Rest("life")
    \/ DescNext /\ Rest("desc")
    \/ Call /\ Rest("strings")

\* The main loop looks at the administration pipe after every accept.
Spec == Init /\ [][Next]_vars /\ WF_vars(AdminStep /\ Rest("pipe"))
=============================================================================
