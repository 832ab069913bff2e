--------------------------- MODULE ServiceRegistry ---------------------------
(***************************************************************************)
(* The registry of services, tg_service.c: an array of pointers that grows *)
(* by Chunk, searched up to the first NULL, and in every service an array  *)
(* of create parameters that grows by ParaChunk and ends the same way.     *)
(*                                                                         *)
(* One thread fills the registry before the server listens.  What malloc   *)
(* returns is not cleared: Heap is what a fresh slot can read as.  A walk  *)
(* that meets no NULL leaves the array (Overrun), and there anything can   *)
(* happen.                                                                 *)
(***************************************************************************)
EXTENDS Integers, Sequences, FiniteSets

CONSTANTS
    Name,           \* names of libraries: two paths may end in the same one
    Parameter,      \* values of create parameters
    Chunk,          \* DEFAULT_SERVICE_SIZE
    ParaChunk,      \* SERVICE_DEFAULT_PARA_COUNTS
    NULL, Junk,     \* contents of a slot besides services
    Heap,           \* what fresh memory reads as
    MaxServices,    \* bound of the model: libraries loaded
    MaxParas        \* bound of the model: parameters of a service

\* A slot reads as a service, as NULL or as something else.
ASSUME RegistryAssumption ==
    /\ Chunk \in Nat \ {0} /\ ParaChunk \in Nat \ {0} /\ MaxServices \in Nat
    /\ NULL # Junk /\ {NULL, Junk} \cap Int = {} /\ Heap \subseteq {NULL, Junk}

VARIABLES
    g_services,     \* the array, <<>> while the pointer is NULL
    sID,            \* ids given out so far: the services are 1 .. sID
    loaded,         \* those of them added since the last unLoadService
    serviceName,    \* name of a service
    parameters,     \* what was stored in its array of parameters
    space,          \* size of that array, 0 for the NULL pointer
    found           \* what the last search returned: a service, NULL or Overrun

registryVars == <<g_services, sID, loaded, serviceName, parameters, space, found>>

Service == 1 .. MaxServices

Overrun == -1

RegistryInit ==
    /\ g_services = <<>> /\ sID = 0 /\ loaded = <<>>
    /\ serviceName = [s \in Service |-> NULL]
    /\ parameters = [s \in Service |-> <<>>] /\ space = [s \in Service |-> 0]
    /\ found = NULL

-----------------------------------------------------------------------------
(* loadService: checkLib, getLibName and addService                        *)

\* The slots that are empty, and end a walk.
Ends == {k \in DOMAIN g_services : g_services[k] = NULL}

\* appendGServiceArrayCount: the old slots and Chunk fresh ones.
Appended(fresh) == g_services \o fresh

\* Mutant: the service takes the place of the last one when the array is full.
AddServiceOverwrites(s, fresh) ==
    IF g_services = <<>> THEN [fresh EXCEPT ![1] = s]
    ELSE IF Ends # {} THEN [g_services EXCEPT ![CHOOSE k \in Ends : \A j \in Ends : k <= j] = s]
    ELSE [Appended(fresh) EXCEPT ![Len(g_services)] = s]

\* addService: a fresh array and its first slot; the first NULL; or, in a full
\* array, the first of the fresh slots, whatever it holds.
AddService(s, fresh) ==
    IF g_services = <<>> THEN [fresh EXCEPT ![1] = s]
    ELSE IF Ends # {} THEN [g_services EXCEPT ![CHOOSE k \in Ends : \A j \in Ends : k <= j] = s]
    ELSE [Appended(fresh) EXCEPT ![Len(g_services) + 1] = s]

\* A library that has the five functions; any other changes nothing.
LoadService(n) ==
    /\ sID < MaxServices
    /\ sID' = sID + 1
    /\ serviceName' = [serviceName EXCEPT ![sID'] = n]
    /\ \E fresh \in [1 .. Chunk -> Heap] : g_services' = AddService(sID', fresh)
    /\ loaded' = Append(loaded, sID')
    /\ UNCHANGED <<parameters, space, found>>

-----------------------------------------------------------------------------
(* Searches                                                                *)

\* The slots a walk looks at before its first NULL.
Walked == {k \in DOMAIN g_services : \A j \in Ends : k < j}

\* The first service of the slots hits, those of Walked that match; NULL at the end of
\* the walk.  Reading a junk pointer is no better than leaving the array.
Search(hits) ==
    LET hit  == CHOOSE k \in hits : \A j \in hits : k <= j
        last == IF hits = {} THEN Walked ELSE 1 .. hit
    IN  IF \E k \in last : g_services[k] = Junk THEN Overrun
        ELSE IF hits # {} THEN g_services[hit]
        ELSE IF g_services = <<>> \/ Ends # {} THEN NULL
        ELSE Overrun

SearchN(n) == Search({k \in Walked : g_services[k] # Junk /\ serviceName[g_services[k]] = n})

FindServiceI(id) ==
    /\ found' = Search({k \in Walked : g_services[k] = id})
    /\ UNCHANGED <<g_services, sID, loaded, serviceName, parameters, space>>

FindServiceN(n) ==
    /\ found' = SearchN(n)
    /\ UNCHANGED <<g_services, sID, loaded, serviceName, parameters, space>>

-----------------------------------------------------------------------------
(* Parameters                                                              *)

\* Mutant: the array grows when it is one short of full.
SpaceLate(s) ==
    LET n == Len(parameters[s])
    IN  IF space[s] = 0 THEN ParaChunk
        ELSE IF n # 0 /\ n % (ParaChunk + 1) = 0 THEN n + ParaChunk ELSE space[s]

\* The size of the array when the next parameter is stored.
SpaceFor(s) ==
    LET n == Len(parameters[s])
    IN  IF space[s] = 0 THEN ParaChunk
        ELSE IF n # 0 /\ n % ParaChunk = 0 THEN n + ParaChunk ELSE space[s]

\* setServiceCreateParametersByN and setServiceCreateParameters; a name that is
\* not found is only logged.
SetParameter(n, v) ==
    /\ found' = SearchN(n)
    /\ IF found' \in Service
       THEN /\ Len(parameters[found']) < MaxParas
            /\ space' = [space EXCEPT ![found'] = SpaceFor(found')]
            /\ parameters' = [parameters EXCEPT ![found'] = Append(@, v)]
       ELSE UNCHANGED <<space, parameters>>
    /\ UNCHANGED <<g_services, sID, loaded, serviceName>>

\* unLoadService frees names, parameters and the array, not the services.  Its
\* walks, too, end at a NULL that is not there in a full array.
UnLoadService ==
    /\ g_services # <<>>
    /\ g_services' = <<>> /\ loaded' = <<>>
    /\ LET gone == {g_services[k] : k \in Walked} \ {Junk}
       IN  /\ serviceName' = [s \in Service |-> IF s \in gone THEN NULL ELSE serviceName[s]]
           /\ parameters' = [s \in Service |-> IF s \in gone THEN <<>> ELSE parameters[s]]
           /\ space' = [s \in Service |-> IF s \in gone THEN 0 ELSE space[s]]
          /\ found' = IF Ends = {} \/ \E q \in gone : space[q] > 0 /\ Len(parameters[q]) = space[q]
                      THEN Overrun ELSE found
    /\ UNCHANGED sID

-----------------------------------------------------------------------------
\* After an overrun nothing is said about the process.
RegistryNext ==
    /\ found # Overrun
    /\ \/ \E n \in Name : LoadService(n) \/ FindServiceN(n)
       \/ \E id \in Service : FindServiceI(id)
       \/ \E n \in Name, v \in Parameter : SetParameter(n, v)
       \/ UnLoadService

RegistrySpec == RegistryInit /\ [][RegistryNext]_registryVars

-----------------------------------------------------------------------------
\* Type correctness.
RegistryTypeOK ==
    /\ g_services \in Seq(Service \cup {NULL, Junk})
    /\ sID \in 0 .. MaxServices /\ loaded \in Seq(1 .. MaxServices)
    /\ serviceName \in [Service -> Name \cup {NULL}]
    /\ parameters \in [Service -> Seq(Parameter)]
    /\ space \in [Service -> Nat]
    /\ found \in Service \cup {NULL, Overrun}

\* The slots that hold a service.
Held == {k \in DOMAIN g_services : g_services[k] \in Service}

\* The array holds every service that was loaded, once and in this order, through
\* every growth and whatever fresh memory reads as: create, init, release and
\* destroy are called in the order of loading.
RegistryInOrder ==
    /\ Cardinality(Held) = Len(loaded)
    /\ \A k \in Held : g_services[k] = loaded[Cardinality({j \in Held : j <= k})]

\* A parameter is never stored behind the end of its array.
ParametersFit == \A s \in Service : Len(parameters[s]) <= space[s]
=============================================================================
