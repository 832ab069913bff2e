------------------------------- MODULE Startup -------------------------------
(***************************************************************************)
(* Start-up of the server: main, init_context and init_plugin, with        *)
(* __load_services, __read_conf_file and __parse_parameter.  The arguments *)
(* are read twice: for the context, where -f reads a file and -s loads a   *)
(* directory in the order given, and then for the parameters of plugins.   *)
(*                                                                         *)
(* The text of arguments and lines is reduced to what the code tells apart *)
(* with findSeparator, strncmp and switch.                                 *)
(***************************************************************************)
EXTENDS Integers, Sequences, FiniteSets

CONSTANTS
    Lib,            \* names of libraries
    Key,            \* settings: port, maxClients, ...
    Value,          \* their values; 0 is what atoi makes of anything else
    DefaultLibs,    \* libraries in TGSERVER_HOME/plugins/, as readdir lists them
    DirLibs,        \* those in the directory that -s names
    MaxArgs,        \* bound of the model: options of the command line
    MaxLines        \* bound of the model: lines of the configuration file

\* What readdir lists are names of libraries.
ASSUME StartAssumption ==
    DefaultLibs \in Seq(Lib) /\ DirLibs \in Seq(Lib) /\ MaxArgs \in Nat /\ MaxLines \in Nat

\* An option and its value, or a line.  "set": a key of Key; "D": a parameter of
\* a library; "D0": one without "="; "bad": no dash or no value; "other": a key
\* nobody knows; "text": a line without "=".
Set  == [kind : {"set"}, name : Key, val : Value]
Para == [kind : {"D"}, name : Lib, val : Value]
Odd(kinds) == [kind : kinds, name : {""}, val : {0}]

Option == Set \cup Para \cup Odd({"f", "s", "D0", "bad", "other"})
Line   == Set \cup Para \cup Odd({"other", "text"})

VARIABLES
    argv,           \* options of the command line
    conf,           \* lines of the configuration file, the default one or -f
    pc,             \* "init", "args", "lines", "plugin", then "listening",
                    \* "exited" (exit(1)) or "crashed"
    i,              \* the option looked at
    line,           \* the line looked at
    services,       \* libraries registered, in order
    paras,          \* parameters given to each of them
    setting,        \* settings in force; 0 is the default of each
    pluginRet       \* what init_plugin returned

startVars == <<argv, conf, pc, i, line, services, paras, setting, pluginRet>>

Sequences(S, n) == UNION {[1 .. m -> S] : m \in 0 .. n}

StartInit ==
    /\ argv \in Sequences(Option, MaxArgs) /\ conf \in Sequences(Line, MaxLines)
    /\ pc = "init" /\ i = 1 /\ line = 1
    /\ services = <<>> /\ paras = <<>>
    /\ setting = [k \in Key |-> 0]
    /\ pluginRet = 1

-----------------------------------------------------------------------------
\* __load_services: what a directory holds is appended to the registry.
LoadServices(libs) ==
    /\ services' = services \o libs
    /\ paras' = paras \o [n \in DOMAIN libs |-> <<>>]

\* Mutant: the last library of a name gets the parameters.
SetParaLast(o) ==
    LET hits == {n \in DOMAIN services : services[n] = o.name}
    IN  IF hits = {} THEN paras
        ELSE [paras EXCEPT ![CHOOSE n \in hits : \A k \in hits : k <= n] = Append(@, o.val)]

\* setServiceCreateParametersByN: the first library with the name.
SetPara(o) ==
    LET hits == {n \in DOMAIN services : services[n] = o.name}
    IN  IF hits = {} THEN paras
        ELSE [paras EXCEPT ![CHOOSE n \in hits : \A k \in hits : n <= k] = Append(@, o.val)]

\* Mutant: the first value of a key stays.
ParseOnce(o) == [setting EXCEPT ![o.name] = IF @ = 0 THEN o.val ELSE @]

\* __parse_parameter.  0 stands for the default.
ParseParameter(o) == [setting EXCEPT ![o.name] = o.val]

\* init_context begins: the default directory; the default file if there are no
\* options at all.
InitContext ==
    /\ pc = "init"
    /\ LoadServices(DefaultLibs)
    /\ pc' = IF argv = <<>> THEN "lines" ELSE "args"
    /\ UNCHANGED <<argv, conf, i, line, setting, pluginRet>>

\* __read_conf_file, one line.  A key nobody knows hands a NULL pointer to
\* __parse_parameter.
ReadLine ==
    /\ pc = "lines" /\ line <= Len(conf)
    /\ line' = line + 1
    /\ LET o == conf[line]
       IN  /\ setting' = IF o.kind = "set" THEN ParseParameter(o) ELSE setting
           /\ paras' = IF o.kind = "D" THEN SetPara(o) ELSE paras
           /\ pc' = IF o.kind = "other" THEN "crashed" ELSE pc
    /\ UNCHANGED <<argv, conf, i, services, pluginRet>>

EndOfFile ==
    /\ pc = "lines" /\ line > Len(conf)
    /\ pc' = "args" /\ line' = 1
    /\ UNCHANGED <<argv, conf, i, services, paras, setting, pluginRet>>

\* init_context, one option.  One that cannot be parsed ends the program; -D is
\* left to init_plugin, and an unknown one is only logged.
ContextArg ==
    /\ pc = "args" /\ i <= Len(argv)
    /\ LET o == argv[i]
       IN  /\ pc' = CASE o.kind = "f" -> "lines" [] o.kind = "bad" -> "exited" [] OTHER -> pc
           /\ IF o.kind = "s" THEN LoadServices(DirLibs) ELSE UNCHANGED <<services, paras>>
           /\ setting' = IF o.kind = "set" THEN ParseParameter(o) ELSE setting
    /\ i' = i + 1
    /\ UNCHANGED <<argv, conf, line, pluginRet>>

ContextDone ==
    /\ pc = "args" /\ i > Len(argv)
    /\ pc' = "plugin" /\ i' = 1
    /\ UNCHANGED <<argv, conf, line, services, paras, setting, pluginRet>>

\* init_plugin, one option.
PluginArg ==
    /\ pc = "plugin" /\ i <= Len(argv)
    /\ paras' = IF argv[i].kind = "D" THEN SetPara(argv[i]) ELSE paras
    /\ i' = i + 1
    /\ UNCHANGED <<argv, conf, pc, line, services, setting, pluginRet>>

\* It starts the thread that creates the services, and main goes on to startup.
PluginDone ==
    /\ pc = "plugin" /\ i > Len(argv)
    /\ pluginRet' = 0
    /\ pc' = "listening"
    /\ UNCHANGED <<argv, conf, i, line, services, paras, setting>>

StartNext ==
    \/ InitContext \/ ReadLine \/ EndOfFile \/ ContextArg \/ ContextDone
    \/ PluginArg \/ PluginDone

StartSpec == StartInit /\ [][StartNext]_startVars

-----------------------------------------------------------------------------
\* Type correctness; a service has its array of parameters.
StartTypeOK ==
    /\ argv \in Seq(Option) /\ conf \in Seq(Line)
    /\ pc \in {"init", "args", "lines", "plugin", "listening", "exited", "crashed"}
    /\ i \in 1 .. MaxArgs + 1 /\ line \in 1 .. MaxLines + 1
    /\ services \in Seq(Lib) /\ paras \in Seq(Seq(Value)) /\ Len(paras) = Len(services)
    /\ setting \in [Key -> Value \cup {0}]
    /\ pluginRet \in {0, 1}

\* The lines that give a key, up to line n; the options that decide it, up to
\* option n; and the parameters of a library among those options.
Lines(key, n)   == {x \in 1 .. n : conf[x].kind = "set" /\ conf[x].name = key}
Options(key, n) ==
    {x \in 1 .. n : \/ argv[x].kind = "set" /\ argv[x].name = key
                    \/ argv[x].kind = "f" /\ Lines(key, Len(conf)) # {}}
Asked(lib, n)   == {x \in 1 .. n : argv[x].kind = "D" /\ argv[x].name = lib}

\* The last of a set of lines, or of options.
IsLast(x, S) == x \in S /\ \A y \in S : y <= x

FromFile(key, n) == \E x \in Lines(key, n) : IsLast(x, Lines(key, n)) /\ setting[key] = conf[x].val

FromOptions(key, n) ==
    IF Options(key, n) = {} THEN setting[key] = 0
    ELSE \E x \in Options(key, n) :
            /\ IsLast(x, Options(key, n))
            /\ IF argv[x].kind = "f" THEN FromFile(key, Len(conf)) ELSE setting[key] = argv[x].val

\* The setting in force is the last one given, on the command line or in a file
\* where the command line names it; without a command line, in the default file.
LastSettingWins ==
    pc = "listening" =>
        \A key \in Key : IF argv = <<>> /\ Lines(key, Len(conf)) # {} THEN FromFile(key, Len(conf))
                        ELSE FromOptions(key, Len(argv))

\* The parameters of options 1 .. m end the array of the n-th library; a library
\* whose name one before it has gets none.
Delivered(m, n) ==
    LET all == Asked(services[n], m)
        p   == paras[n]
    IN  IF \E k \in 1 .. n - 1 : services[k] = services[n] THEN p = <<>>
        ELSE /\ Cardinality(all) <= Len(p)
             /\ \A x \in all : p[Len(p) - Cardinality({y \in all : y > x})] = argv[x].val

\* Every parameter given with -D reaches the service it names, in the order
\* given and behind those of files, wherever -s stands among the options; of two
\* libraries of a name the one loaded first gets them all.
OptionsDelivered == pc = "listening" => \A n \in DOMAIN services : Delivered(Len(argv), n)
=============================================================================
