------------------------- MODULE ServerPartsProofs -------------------------
(***************************************************************************)
(* Proofs about the parts of the server that share no state with each      *)
(* other: the administration pipe, the registry of services, start-up, the *)
(* life cycle of services, the descriptors of the processes and the string *)
(* helpers.  Each theorem is about the specification of one part.          *)
(***************************************************************************)
EXTENDS AdminPipe, ServiceRegistry, Startup, ServiceLifecycle, StringHelpers, Descriptors,
        FunctionTheorems, FiniteSetTheorems, SequenceTheorems, WellFoundedInduction, TLAPS

\* A set of numbers has a least one.
LEMMA LeastExists ==
    ASSUME NEW S \in SUBSET Nat, S # {}
    PROVE  \E x \in S : \A y \in S : x <= y
<1>1. IsWellFoundedOn(OpToRel(<, Nat), Nat)
  BY NatLessThanWellFounded
<1>2. \E x \in S : \A y \in S : ~ (<<y, x>> \in OpToRel(<, Nat))
  BY <1>1, WFMin
<1>3. PICK x \in S : \A y \in S : ~ (<<y, x>> \in OpToRel(<, Nat))
  BY <1>2
<1>4. \A y \in S : ~ (y < x)
  BY <1>3 DEF OpToRel
<1> QED BY <1>4

-----------------------------------------------------------------------------
(* The life cycle of services                                              *)

\* Every step keeps the types.
LEMMA LifeTypeNext == LifeTypeOK /\ [LifeNext]_lifeVars => LifeTypeOK'
<1> SUFFICES ASSUME LifeTypeOK, [LifeNext]_lifeVars PROVE LifeTypeOK'
  OBVIOUS
<1> USE LifeAssumption DEF LifeTypeOK
<1>1. CASE CallCreate
  BY <1>1 DEF CallCreate
<1>2. CASE StoreGlobal
  BY <1>2 DEF StoreGlobal
<1>3. ASSUME NEW c \in Child, ForkChild(c) PROVE LifeTypeOK'
  BY <1>3 DEF ForkChild
<1>4. ASSUME NEW c \in Child, InitServices(c) \/ ReleaseServices(c) PROVE LifeTypeOK'
  BY <1>4 DEF InitServices, ReleaseServices, Walk
<1>5. ASSUME NEW c \in Child, ClientLeaves(c) \/ ChildDies(c) PROVE LifeTypeOK'
  BY <1>5 DEF ClientLeaves, ChildDies
<1>6. CASE StartDestroy \/ DestroyService \/ ExitServer
  BY <1>6 DEF StartDestroy, DestroyService, ExitServer
<1>7. CASE UNCHANGED lifeVars
  BY <1>7 DEF lifeVars
<1> QED
  BY <1>1, <1>2, <1>3, <1>4, <1>5, <1>6, <1>7 DEF LifeNext, Creator

\* The types are kept in every behaviour.
THEOREM LifeTypeCorrect == LifeSpec => []LifeTypeOK
<1>1. LifeInit => LifeTypeOK
  BY LifeAssumption DEF LifeInit, LifeTypeOK
<1> QED
  BY <1>1, LifeTypeNext, PTL DEF LifeSpec

\* A child forked after the last service was created has the data of all.
THEOREM LateForksHaveAll == LifeSpec => LateForksComplete
<1> DEFINE Late == stored = NService =>
        \A c \in Child : serving[c] = "none" /\ serving'[c] # "none" => globals'[c] = NService
<1>1. LifeTypeOK /\ [LifeNext]_lifeVars => [Late]_lifeVars
  <2> SUFFICES ASSUME LifeTypeOK, LifeNext, stored = NService,
                      NEW c \in Child, serving[c] = "none", serving'[c] # "none"
               PROVE  globals'[c] = NService
    BY DEF lifeVars
  <2> USE LifeAssumption DEF LifeTypeOK
  <2>1. ~ UNCHANGED serving
    OBVIOUS
  <2>2. PICK d \in Child : ForkChild(d) \/ InitServices(d) \/ ClientLeaves(d) \/ ReleaseServices(d) \/ ChildDies(d)
    BY <2>1 DEF LifeNext, Creator, CallCreate, StoreGlobal, StartDestroy, DestroyService, ExitServer
  <2>3. d = c
    BY <2>2 DEF ForkChild, InitServices, ReleaseServices, Walk, ClientLeaves, ChildDies
  <2> QED
    BY <2>2, <2>3 DEF ForkChild, InitServices, ReleaseServices, Walk, ClientLeaves, ChildDies
<1> QED
  BY <1>1, LifeTypeCorrect, PTL DEF LifeSpec, LateForksComplete

-----------------------------------------------------------------------------
(* The registry of services                                                *)

\* Services stand before every end; an array of parameters has grown by whole
\* chunks.
RegistryInv ==
    /\ RegistryTypeOK
    /\ \A j \in Held, k \in Ends : j < k
    /\ RegistryInOrder
    /\ ParametersFit
    /\ \A s \in Service : \E m \in Nat : space[s] = m * ParaChunk

LEMMA SlotsDistinct ==
    /\ NULL \notin Service /\ Junk \notin Service /\ NULL # Junk
    /\ Overrun \notin Service /\ Overrun # NULL
    /\ Service \subseteq Nat
BY RegistryAssumption DEF Service, Overrun

\* A search returns a service, NULL or Overrun.
LEMMA SearchTyped ==
    ASSUME RegistryTypeOK, NEW hits \in SUBSET Walked
    PROVE  Search(hits) \in Service \cup {NULL, Overrun}
<1> DEFINE least == CHOOSE k \in hits : \A j \in hits : k <= j
<1>1. DOMAIN g_services = 1 .. Len(g_services) /\ Len(g_services) \in Nat
      /\ \A k \in DOMAIN g_services : g_services[k] \in Service \cup {NULL, Junk}
  BY DEF RegistryTypeOK
<1>2. CASE hits # {}
  <2>1. hits \in SUBSET Nat
    BY <1>1 DEF Walked
  <2>2. least \in hits /\ \A j \in hits : least <= j
    BY <1>2, <2>1, LeastExists
  <2>3. least \in DOMAIN g_services /\ g_services[least] # NULL
    BY <1>1, <2>2 DEF Walked, Ends
  <2>4. least \in 1 .. least
    BY <1>1, <2>3
  <2> HIDE DEF least
  <2>5. Search(hits) = IF \E k \in 1 .. least : g_services[k] = Junk THEN Overrun ELSE g_services[least]
    BY <1>2 DEF Search, least
  <2> QED BY <1>1, <2>3, <2>4, <2>5
<1>3. CASE hits = {}
  BY <1>3 DEF Search
<1> QED BY <1>2, <1>3

\* The slot a new service goes to is behind every service and before every end
\* that is left; nothing else changes but the length.
LEMMA AddedBehind ==
    ASSUME RegistryInv, NEW id \in Service, NEW fresh \in [1 .. Chunk -> Heap],
           g_services' = AddService(id, fresh)
    PROVE  /\ g_services' \in Seq(Service \cup {NULL, Junk})
           /\ \E k \in DOMAIN g_services' :
                 /\ g_services'[k] = id /\ k \notin Held /\ Held' = Held \cup {k}
                 /\ \A j \in Held : j < k /\ g_services'[j] = g_services[j]
                 /\ \A e \in Ends' : k < e
<1> USE RegistryAssumption, SlotsDistinct
<1> DEFINE Cell == Service \cup {NULL, Junk}
<1> DEFINE g == g_services
<1>0. g \in Seq(Cell) /\ Len(g) \in Nat /\ DOMAIN g = 1 .. Len(g) /\ \A j \in DOMAIN g : g[j] \in Cell
  BY DEF RegistryInv, RegistryTypeOK
<1>1. fresh \in Seq(Cell) /\ Len(fresh) = Chunk /\ \A j \in 1 .. Chunk : fresh[j] \in {NULL, Junk}
  BY IsASeq
<1>2. CASE g = <<>>
  <2>1. g' = [fresh EXCEPT ![1] = id]
    BY <1>2 DEF AddService
  <2>2. g' \in Seq(Cell) /\ Len(g') = Chunk
    BY <1>1, <2>1, ExceptSeq
  <2>3. DOMAIN g' = 1 .. Chunk /\ g'[1] = id /\ \A j \in 2 .. Chunk : g'[j] = fresh[j]
    BY <1>1, <2>1
  <2>4. Held = {} /\ Held' = {1}
    BY <1>1, <1>2, <2>3 DEF Held
  <2>5. \A e \in Ends' : 1 < e
    BY <1>1, <2>3 DEF Ends
  <2> QED BY <2>2, <2>3, <2>4, <2>5
<1>3. CASE g # <<>> /\ Ends # {}
  <2> DEFINE first == CHOOSE k \in Ends : \A j \in Ends : k <= j
  <2>1. Ends \in SUBSET Nat
    BY <1>0 DEF Ends
  <2>2. first \in Ends /\ \A j \in Ends : first <= j
    BY <1>3, <2>1, LeastExists
  <2>3. g' = [g EXCEPT ![first] = id]
    BY <1>3 DEF AddService
  <2> HIDE DEF first
  <2>4. first \in 1 .. Len(g) /\ g[first] = NULL
    BY <1>0, <2>2 DEF Ends
  <2>5. g' \in Seq(Cell) /\ Len(g') = Len(g)
    BY <1>0, <2>3, <2>4, ExceptSeq
  <2>6. DOMAIN g' = 1 .. Len(g) /\ g'[first] = id /\ \A j \in 1 .. Len(g) : j # first => g'[j] = g[j]
    BY <1>0, <2>3, <2>4
  <2>7. first \notin Held /\ Held' = Held \cup {first}
    BY <1>0, <2>4, <2>6 DEF Held
  <2>8. \A j \in Held : j < first /\ g'[j] = g[j]
    BY <1>0, <2>2, <2>6, <2>7 DEF RegistryInv, Held
  <2>9. \A e \in Ends' : first < e
    <3> SUFFICES ASSUME NEW e \in Ends' PROVE first < e
      OBVIOUS
    <3>1. e \in 1 .. Len(g) /\ g'[e] = NULL
      BY <2>6 DEF Ends
    <3>2. e # first /\ e \in Ends
      BY <1>0, <2>6, <3>1 DEF Ends
    <3> QED BY <2>2, <2>4, <3>1, <3>2
  <2> QED BY <2>4, <2>5, <2>6, <2>7, <2>8, <2>9
<1>4. CASE g # <<>> /\ Ends = {}
  <2> DEFINE n == Len(g)
  <2> DEFINE long == g \o fresh
  <2>1. long \in Seq(Cell) /\ Len(long) = n + Chunk /\ (\A j \in 1 .. n : long[j] = g[j])
        /\ \A j \in n + 1 .. n + Chunk : long[j] = fresh[j - n]
    <3>1. long \in Seq(Cell) /\ Len(long) = n + Len(fresh)
      <4> HIDE DEF Cell, g
      <4> QED BY <1>0, <1>1, ConcatProperties DEF g
    <3>2. \A j \in 1 .. n : long[j] = g[j]
      BY <1>0, <1>1, ConcatProperties
    <3>3. \A j \in n + 1 .. n + Len(fresh) : long[j] = fresh[j - n]
      BY <1>0, <1>1, ConcatProperties
    <3> QED BY <1>1, <3>1, <3>2, <3>3
  <2>2. g' = [long EXCEPT ![n + 1] = id]
    BY <1>4 DEF AddService, Appended
  <2> HIDE DEF long
  <2>3. n + 1 \in 1 .. Len(long)
    BY <1>0, <2>1
  <2>4. g' \in Seq(Cell) /\ Len(g') = n + Chunk
    BY <2>1, <2>2, <2>3, ExceptSeq
  <2>5. DOMAIN g' = 1 .. n + Chunk /\ g'[n + 1] = id
        /\ \A j \in 1 .. n + Chunk : j # n + 1 => g'[j] = long[j]
    BY <1>0, <2>1, <2>2, <2>3
  <2>6. \A j \in 1 .. n : g'[j] = g[j] /\ g[j] # NULL
    <3> SUFFICES ASSUME NEW j \in 1 .. n PROVE g'[j] = g[j] /\ g[j] # NULL
      OBVIOUS
    <3>1. j \in 1 .. n + Chunk /\ j # n + 1
      BY <1>0
    <3>2. g[j] # NULL
      BY <1>0, <1>4 DEF Ends
    <3> QED BY <2>1, <2>5, <3>1, <3>2
  <2>7. \A j \in n + 2 .. n + Chunk : g'[j] \in {NULL, Junk}
    <3> SUFFICES ASSUME NEW j \in n + 2 .. n + Chunk PROVE g'[j] \in {NULL, Junk}
      OBVIOUS
    <3>1. j \in n + 1 .. n + Chunk /\ j # n + 1 /\ j \in 1 .. n + Chunk /\ j - n \in 1 .. Chunk
      BY <1>0
    <3> QED BY <1>1, <2>1, <2>5, <3>1
  <2>8. \A j \in 1 .. n + Chunk : j \in 1 .. n \/ j = n + 1 \/ j \in n + 2 .. n + Chunk
    BY <1>0
  <2>9. n + 1 \notin Held /\ Held' = Held \cup {n + 1}
    <3>1. Held = {j \in 1 .. n : g[j] \in Service}
      BY <1>0 DEF Held
    <3>2. Held' = {j \in 1 .. n + Chunk : g'[j] \in Service}
      BY <2>5 DEF Held
    <3>3. 1 .. n \subseteq 1 .. n + Chunk /\ n + 1 \in 1 .. n + Chunk /\ n + 1 \notin 1 .. n
      BY <1>0
    <3> HIDE DEF g, n
    <3> QED BY <2>5, <2>6, <2>7, <2>8, <3>1, <3>2, <3>3
  <2>10. \A j \in Held : j < n + 1 /\ g'[j] = g[j]
    BY <1>0, <2>6 DEF Held
  <2>11. \A e \in Ends' : n + 1 < e
    <3> SUFFICES ASSUME NEW e \in Ends' PROVE n + 1 < e
      OBVIOUS
    <3>1. e \in 1 .. n + Chunk /\ g'[e] = NULL
      BY <2>5 DEF Ends
    <3>2. e \notin 1 .. n /\ e # n + 1
      BY <2>5, <2>6, <3>1
    <3> QED BY <1>0, <3>1, <3>2
  <2>12. n + 1 \in DOMAIN g'
    BY <1>0, <2>5
  <2> QED BY <2>4, <2>5, <2>9, <2>10, <2>11, <2>12
<1> QED BY <1>2, <1>3, <1>4

\* Loading appends: the new slot is the last of those held, and the new id the
\* last of those loaded.
LEMMA LoadKeeps ==
    ASSUME RegistryInv, NEW n \in Name, LoadService(n)
    PROVE  RegistryInv'
<1> USE RegistryAssumption, SlotsDistinct
<1>1. sID' \in Service /\ sID' \in 0 .. MaxServices
  BY DEF RegistryInv, RegistryTypeOK, LoadService, Service
<1>2. PICK fresh \in [1 .. Chunk -> Heap] : g_services' = AddService(sID', fresh)
  BY DEF LoadService
<1>3. /\ g_services' \in Seq(Service \cup {NULL, Junk})
      /\ \E k \in DOMAIN g_services' :
            /\ g_services'[k] = sID' /\ k \notin Held /\ Held' = Held \cup {k}
            /\ \A j \in Held : j < k /\ g_services'[j] = g_services[j]
            /\ \A e \in Ends' : k < e
  BY <1>1, <1>2, AddedBehind
<1>4. PICK k \in DOMAIN g_services' :
            /\ g_services'[k] = sID' /\ k \notin Held /\ Held' = Held \cup {k}
            /\ \A j \in Held : j < k /\ g_services'[j] = g_services[j]
            /\ \A e \in Ends' : k < e
  BY <1>3
<1>5. k \in Nat /\ Held \subseteq 1 .. Len(g_services) /\ Len(g_services) \in Nat
  BY <1>3 DEF Held, RegistryInv, RegistryTypeOK
<1>6. IsFiniteSet(Held) /\ Cardinality(Held) \in Nat
  <2>1. IsFiniteSet(1 .. Len(g_services))
    BY <1>5, FS_Interval
  <2> QED BY <1>5, <2>1, FS_Subset, FS_CardinalityType
<1>7. loaded \in Seq(1 .. MaxServices) /\ loaded' = Append(loaded, sID') /\ Len(loaded) = Cardinality(Held)
  BY DEF RegistryInv, RegistryTypeOK, RegistryInOrder, LoadService
<1>8. /\ loaded' \in Seq(1 .. MaxServices) /\ Len(loaded') = Len(loaded) + 1
      /\ loaded'[Len(loaded) + 1] = sID' /\ \A m \in 1 .. Len(loaded) : loaded'[m] = loaded[m]
  BY <1>1, <1>7, AppendProperties DEF Service
<1>9. RegistryTypeOK'
  BY <1>1, <1>3, <1>8 DEF RegistryInv, RegistryTypeOK, LoadService
<1>10. \A j \in Held', e \in Ends' : j < e
  <2> SUFFICES ASSUME NEW j \in Held', NEW e \in Ends' PROVE j < e
    OBVIOUS
  <2>1. k < e /\ e \in Nat
    BY <1>3, <1>4 DEF Ends
  <2>2. j = k \/ (j \in Held /\ j < k)
    BY <1>4
  <2>3. j \in Nat
    <3>1. \A h \in Held : h \in Nat
      BY <1>5
    <3> QED BY <1>5, <2>2, <3>1
  <2> QED BY <1>5, <2>1, <2>2, <2>3
<1>11. RegistryInOrder'
  <2>1. Cardinality(Held') = Len(loaded')
    <3>1. Cardinality(Held \cup {k}) = Cardinality(Held) + 1
      BY <1>4, <1>6, FS_AddElement
    <3> QED BY <1>4, <1>7, <1>8, <3>1
  <2>2. ASSUME NEW h \in Held PROVE g_services'[h] = loaded'[Cardinality({j \in Held' : j <= h})]
    <3>1. {j \in Held' : j <= h} = {j \in Held : j <= h}
      BY <1>4, <1>5
    <3> DEFINE upto == {j \in Held : j <= h}
    <3>2. IsFiniteSet(upto) /\ Cardinality(upto) \in Nat /\ Cardinality(upto) <= Len(loaded)
      BY <1>6, <1>7, FS_Subset, FS_CardinalityType
    <3>3. h \in upto
      BY <1>5
    <3>4. Cardinality(upto) # 0
      BY <3>2, <3>3, FS_EmptySet
    <3>5. Cardinality(upto) \in 1 .. Len(loaded)
      BY <1>6, <1>7, <3>2, <3>4
    <3>6. g_services[h] = loaded[Cardinality(upto)]
      BY DEF RegistryInv, RegistryInOrder
    <3> QED BY <1>4, <1>8, <3>1, <3>5, <3>6
  <2>3. {j \in Held' : j <= k} = Held'
    <3>1. \A j \in Held : j \in Nat /\ j <= k
      BY <1>4, <1>5
    <3>2. k <= k
      BY <1>5
    <3>3. \A j \in Held' : j <= k
      BY <1>4, <3>1, <3>2
    <3> QED BY <3>3
  <2>4. g_services'[k] = loaded'[Cardinality({j \in Held' : j <= k})]
    BY <1>4, <1>7, <1>8, <2>1, <2>3
  <2>5. \A h \in Held' : h \in Held \/ h = k
    BY <1>4
  <2>6. \A h \in Held' : g_services'[h] = loaded'[Cardinality({j \in Held' : j <= h})]
    BY <2>2, <2>4, <2>5
  <2> QED BY <2>1, <2>6 DEF RegistryInOrder
<1>12. ParametersFit' /\ \A s \in Service : \E m \in Nat : space'[s] = m * ParaChunk
  BY DEF RegistryInv, ParametersFit, LoadService
<1> QED BY <1>9, <1>10, <1>11, <1>12 DEF RegistryInv

\* A number of whole chunks has no rest, and a number without a rest is one.
LEMMA ChunksNoRest ==
    ASSUME NEW m \in Nat, NEW c \in Nat \ {0}
    PROVE  m * c \in Nat /\ (m * c) % c = 0
<1>1. m * c \in Nat
  OBVIOUS
<1>2. (m * c) % c = 0
  OBVIOUS
<1> QED BY <1>1, <1>2

LEMMA NoRestChunks ==
    ASSUME NEW n \in Nat, NEW c \in Nat \ {0}, n % c = 0
    PROVE  \E q \in Nat : n = q * c
<1>1. n = (n \div c) * c
  OBVIOUS
<1>2. n \div c \in Nat
  OBVIOUS
<1> QED BY <1>1, <1>2

\* The array that grows has room for the next parameter.
LEMMA ParameterKeeps ==
    ASSUME RegistryInv, NEW n \in Name, NEW v \in Parameter, SetParameter(n, v)
    PROVE  RegistryInv'
<1> USE RegistryAssumption, SlotsDistinct
<1>1. found' \in Service \cup {NULL, Overrun}
  <2>1. {k \in Walked : g_services[k] # Junk /\ serviceName[g_services[k]] = n} \in SUBSET Walked
    OBVIOUS
  <2> QED BY <2>1, SearchTyped DEF RegistryInv, SetParameter, SearchN
<1>2. Held' = Held /\ Ends' = Ends /\ RegistryInOrder'
  BY DEF SetParameter, RegistryInv, RegistryInOrder, Held, Ends
<1>3. CASE found' \notin Service
  BY <1>1, <1>2, <1>3 DEF SetParameter, RegistryInv, RegistryTypeOK, ParametersFit
<1>4. CASE found' \in Service
  <2> DEFINE s == found'
  <2>1. /\ space' = [space EXCEPT ![s] = SpaceFor(s)]
        /\ parameters' = [parameters EXCEPT ![s] = Append(@, v)]
    BY <1>4 DEF SetParameter
  <2>2. parameters[s] \in Seq(Parameter) /\ Len(parameters[s]) \in Nat /\ space[s] \in Nat
    <3>1. parameters[s] \in Seq(Parameter) /\ space[s] \in Nat
      BY <1>4 DEF RegistryInv, RegistryTypeOK
    <3> QED BY <3>1, LenProperties
  <2>3. PICK m \in Nat : space[s] = m * ParaChunk
    BY <1>4 DEF RegistryInv
  <2>4. Len(parameters[s]) <= space[s]
    BY <1>4 DEF RegistryInv, ParametersFit
  <2> DEFINE len == Len(parameters[s])
  <2> HIDE DEF s
  <2>5. /\ SpaceFor(s) \in Nat /\ len + 1 <= SpaceFor(s)
        /\ \E q \in Nat : SpaceFor(s) = q * ParaChunk
    <3>1. CASE space[s] = 0
      <4>1. SpaceFor(s) = ParaChunk
        BY <3>1 DEF SpaceFor
      <4>2. ParaChunk = 1 * ParaChunk
        OBVIOUS
      <4> QED BY <2>2, <2>4, <3>1, <4>1, <4>2
    <3>2. CASE space[s] # 0 /\ len # 0 /\ len % ParaChunk = 0
      <4>1. SpaceFor(s) = len + ParaChunk
        BY <3>2 DEF SpaceFor
      <4>2. PICK q \in Nat : len = q * ParaChunk
        <5>1. \E q \in Nat : len = q * ParaChunk
          BY <2>2, <3>2, NoRestChunks
        <5> QED BY <5>1
      <4>3. SpaceFor(s) = (q + 1) * ParaChunk /\ q + 1 \in Nat
        BY <4>1, <4>2
      <4>4. SpaceFor(s) \in Nat /\ len + 1 <= SpaceFor(s)
        BY <2>2, <4>1
      <4> QED BY <4>3, <4>4
    <3>3. CASE space[s] # 0 /\ (len = 0 \/ len % ParaChunk # 0)
      <4>1. SpaceFor(s) = space[s]
        BY <3>3 DEF SpaceFor
      <4>2. len # space[s]
        <5>1. space[s] % ParaChunk = 0
          BY <2>3, ChunksNoRest
        <5> QED BY <3>3, <5>1
      <4> QED BY <2>2, <2>3, <2>4, <4>1, <4>2
    <3> QED BY <3>1, <3>2, <3>3
  <2>6. Append(parameters[s], v) \in Seq(Parameter) /\ Len(Append(parameters[s], v)) = len + 1
    BY <2>2, AppendProperties
  <2>7. s \in Service
    BY <1>4 DEF s
  <2>8. ParametersFit'
    BY <2>1, <2>5, <2>6, <2>7 DEF ParametersFit, RegistryInv, RegistryTypeOK
  <2>9. \A r \in Service : \E q \in Nat : space'[r] = q * ParaChunk
    BY <2>1, <2>5, <2>7 DEF RegistryInv, RegistryTypeOK
  <2>10. RegistryTypeOK'
    BY <1>1, <2>1, <2>5, <2>6, <2>7 DEF RegistryInv, RegistryTypeOK, SetParameter
  <2> QED BY <1>2, <2>8, <2>9, <2>10 DEF RegistryInv
<1> QED BY <1>3, <1>4

\* Unloading leaves neither slots nor spaces.
LEMMA UnLoadKeeps == RegistryInv /\ UnLoadService => RegistryInv'
<1> SUFFICES ASSUME RegistryInv, UnLoadService PROVE RegistryInv'
    OBVIOUS
<1> USE RegistryAssumption, SlotsDistinct
<1>1. Held' = {} /\ Ends' = {}
  BY DEF UnLoadService, Held, Ends
<1>2. RegistryInOrder'
  BY <1>1, FS_EmptySet, EmptySeq DEF UnLoadService, RegistryInOrder
<1>3. RegistryTypeOK'
  <2> DEFINE gone == {g_services[k] : k \in Walked} \ {Junk}
  <2>1. serviceName' \in [Service -> Name \cup {NULL}]
    BY DEF UnLoadService, RegistryInv, RegistryTypeOK
  <2>2. parameters' \in [Service -> Seq(Parameter)]
    BY EmptySeq DEF UnLoadService, RegistryInv, RegistryTypeOK
  <2>3. space' \in [Service -> Nat]
    BY DEF UnLoadService, RegistryInv, RegistryTypeOK
  <2>4. found' \in Service \cup {NULL, Overrun}
    BY DEF UnLoadService, RegistryInv, RegistryTypeOK
  <2>5. sID' = sID /\ g_services' = <<>> /\ loaded' = <<>>
    BY DEF UnLoadService
  <2> QED BY <2>1, <2>2, <2>3, <2>4, <2>5, EmptySeq DEF RegistryInv, RegistryTypeOK
<1>4. \A s \in Service : (parameters'[s] = <<>> /\ space'[s] = 0) \/ (parameters'[s] = parameters[s] /\ space'[s] = space[s])
  BY DEF UnLoadService
<1>5. Len(<<>>) = 0 /\ 0 = 0 * ParaChunk
  BY EmptySeq
<1>6. ParametersFit'
  BY <1>4, <1>5 DEF ParametersFit, RegistryInv
<1>7. \A s \in Service : \E m \in Nat : space'[s] = m * ParaChunk
  BY <1>4, <1>5 DEF RegistryInv
<1> QED BY <1>1, <1>2, <1>3, <1>6, <1>7 DEF RegistryInv

LEMMA RegistryInvNext == RegistryInv /\ [RegistryNext]_registryVars => RegistryInv'
<1> SUFFICES ASSUME RegistryInv, [RegistryNext]_registryVars PROVE RegistryInv'
    OBVIOUS
<1>1. ASSUME UNCHANGED <<g_services, sID, loaded, serviceName, parameters, space>>,
             found' \in Service \cup {NULL, Overrun}
      PROVE  RegistryInv'
  BY <1>1 DEF RegistryInv, RegistryTypeOK, RegistryInOrder, ParametersFit, Held, Ends
<1>2. ASSUME NEW n \in Name, FindServiceN(n) PROVE RegistryInv'
  <2>1. {k \in Walked : g_services[k] # Junk /\ serviceName[g_services[k]] = n} \in SUBSET Walked
    OBVIOUS
  <2> QED BY <1>1, <1>2, <2>1, SearchTyped DEF FindServiceN, SearchN, RegistryInv
<1>3. ASSUME NEW id \in Service, FindServiceI(id) PROVE RegistryInv'
  <2>1. {k \in Walked : g_services[k] = id} \in SUBSET Walked
    OBVIOUS
  <2> QED BY <1>1, <1>3, <2>1, SearchTyped DEF FindServiceI, RegistryInv
<1>4. CASE UNCHANGED registryVars
  BY <1>1, <1>4 DEF registryVars, RegistryInv, RegistryTypeOK
<1> QED BY <1>2, <1>3, <1>4, LoadKeeps, ParameterKeeps, UnLoadKeeps DEF RegistryNext

LEMMA RegistryInvInit == RegistryInit => RegistryInv
<1> SUFFICES ASSUME RegistryInit PROVE RegistryInv
    OBVIOUS
<1> USE RegistryAssumption, SlotsDistinct
<1>1. Held = {} /\ Ends = {}
  BY DEF RegistryInit, Held, Ends
<1>2. RegistryInOrder
  BY <1>1, FS_EmptySet, EmptySeq DEF RegistryInit, RegistryInOrder
<1>3. RegistryTypeOK
  BY EmptySeq DEF RegistryInit, RegistryTypeOK
<1>4. Len(<<>>) = 0 /\ 0 = 0 * ParaChunk
  BY EmptySeq
<1> QED BY <1>1, <1>2, <1>3, <1>4 DEF RegistryInit, RegistryInv, ParametersFit

\* Whatever fresh memory reads as and whatever a search returns, the registry's
\* variables keep their ranges.
THEOREM RegistryTypeCorrect == RegistrySpec => []RegistryTypeOK
<1>1. RegistryInv => RegistryTypeOK
  BY DEF RegistryInv
<1> QED BY <1>1, RegistryInvInit, RegistryInvNext, PTL DEF RegistrySpec

\* The array of services (addService, appendGServiceArrayCount, unLoadService)
\* holds what was loaded, once and in order, for any chunk and number of services.
THEOREM RegistryKeepsOrder == RegistrySpec => []RegistryInOrder
<1>1. RegistryInv => RegistryInOrder
  BY DEF RegistryInv
<1> QED BY <1>1, RegistryInvInit, RegistryInvNext, PTL DEF RegistrySpec

\* setServiceCreateParameters never stores behind the end of the array.
THEOREM ParametersAlwaysFit == RegistrySpec => []ParametersFit
<1>1. RegistryInv => ParametersFit
  BY DEF RegistryInv
<1> QED BY <1>1, RegistryInvInit, RegistryInvNext, PTL DEF RegistrySpec

-----------------------------------------------------------------------------
(* Start-up                                                                *)

\* A later library of the same name never gets a parameter.
FirstOnly ==
    \A n \in DOMAIN services : (\E k \in 1 .. n - 1 : services[k] = services[n]) => paras[n] = <<>>

\* The setting of a key after the first n options.
InForce(key, n) ==
    IF argv = <<>> /\ Lines(key, Len(conf)) # {} THEN FromFile(key, Len(conf)) ELSE FromOptions(key, n)

\* The setting of a key while a file is read: that of its lines so far, or else
\* that of the options before.
InFile(key) ==
    IF Lines(key, line - 1) # {} THEN FromFile(key, line - 1)
    ELSE IF argv = <<>> THEN setting[key] = 0
    ELSE FromOptions(key, i - 2)

\* Where the reading of options and lines is, and what has come of those read.
StartInv ==
    /\ StartTypeOK /\ FirstOnly
    /\ Len(argv) <= MaxArgs /\ Len(conf) <= MaxLines
    /\ i <= Len(argv) + 1 /\ line <= Len(conf) + 1
    /\ pc \in {"init", "args"} => line = 1
    /\ pc = "init" => i = 1 /\ \A key \in Key : setting[key] = 0
    /\ pc = "lines" => /\ IF argv = <<>> THEN i = 1 ELSE i > 1 /\ argv[i - 1].kind = "f"
                       /\ \A key \in Key : InFile(key)
    /\ pc = "args" => \A key \in Key : InForce(key, i - 1)
    /\ pc \in {"plugin", "listening"} => \A key \in Key : InForce(key, Len(argv))
    /\ pc = "plugin" => \A n \in DOMAIN services : Delivered(i - 1, n)
    /\ pc = "listening" => \A n \in DOMAIN services : Delivered(Len(argv), n)

LEMMA OptionTyped ==
    ASSUME NEW o \in Option \cup Line
    PROVE  /\ o.kind = "set" => o.name \in Key /\ o.val \in Value
           /\ o.kind = "D" => o.name \in Lib /\ o.val \in Value
BY DEF Option, Line, Set, Para, Odd

LEMMA StartLens ==
    ASSUME StartTypeOK
    PROVE  /\ Len(argv) \in Nat /\ DOMAIN argv = 1 .. Len(argv) /\ \A x \in 1 .. Len(argv) : argv[x] \in Option
           /\ Len(conf) \in Nat /\ DOMAIN conf = 1 .. Len(conf) /\ \A x \in 1 .. Len(conf) : conf[x] \in Line
           /\ Len(services) \in Nat /\ DOMAIN services = 1 .. Len(services)
           /\ DOMAIN paras = 1 .. Len(services)
           /\ \A n \in 1 .. Len(services) :
                 services[n] \in Lib /\ paras[n] \in Seq(Value) /\ Len(paras[n]) \in Nat
           /\ argv = <<>> <=> Len(argv) = 0
<1>1. Len(argv) \in Nat /\ DOMAIN argv = 1 .. Len(argv) /\ \A x \in 1 .. Len(argv) : argv[x] \in Option
  BY DEF StartTypeOK
<1>2. Len(conf) \in Nat /\ DOMAIN conf = 1 .. Len(conf) /\ \A x \in 1 .. Len(conf) : conf[x] \in Line
  BY DEF StartTypeOK
<1>3. Len(services) \in Nat /\ DOMAIN services = 1 .. Len(services) /\ \A n \in 1 .. Len(services) : services[n] \in Lib
  BY DEF StartTypeOK
<1>4. DOMAIN paras = 1 .. Len(services) /\ \A n \in 1 .. Len(services) : paras[n] \in Seq(Value)
  BY DEF StartTypeOK
<1>5. argv = <<>> <=> Len(argv) = 0
  BY EmptySeq DEF StartTypeOK
<1> QED BY <1>1, <1>2, <1>3, <1>4, <1>5, LenProperties

\* A parameter goes to the first library with the name, and to no other.
LEMMA SetParaFirst ==
    ASSUME StartTypeOK, NEW o, o.val \in Value
    PROVE  \/ SetPara(o) = paras /\ \A n \in 1 .. Len(services) : services[n] # o.name
           \/ \E h \in 1 .. Len(services) :
                 /\ services[h] = o.name /\ \A n \in 1 .. h - 1 : services[n] # o.name
                 /\ SetPara(o) = [paras EXCEPT ![h] = Append(@, o.val)]
<1> DEFINE hits == {n \in DOMAIN services : services[n] = o.name}
<1> DEFINE first == CHOOSE n \in hits : \A k \in hits : n <= k
<1>1. CASE hits = {}
  BY <1>1, StartLens DEF SetPara
<1>2. CASE hits # {}
  <2>1. hits \in SUBSET Nat
    BY StartLens
  <2>2. first \in hits /\ \A k \in hits : first <= k
    BY <1>2, <2>1, LeastExists
  <2>3. SetPara(o) = [paras EXCEPT ![first] = Append(@, o.val)]
    BY <1>2 DEF SetPara
  <2>4. first \in 1 .. Len(services) /\ services[first] = o.name
    BY <2>2, StartLens
  <2> HIDE DEF first
  <2>5. \A n \in 1 .. first - 1 : services[n] # o.name
    BY <2>2, <2>4, StartLens
  <2> QED BY <2>3, <2>4, <2>5
<1> QED BY <1>1, <1>2

\* A parameter keeps the types, and that only the first of a name has any.
LEMMA SetParaKeeps ==
    ASSUME StartTypeOK, FirstOnly, NEW o, o.val \in Value, paras' = SetPara(o), services' = services
    PROVE  paras' \in Seq(Seq(Value)) /\ Len(paras') = Len(services') /\ FirstOnly'
<1>1. CASE paras' = paras
  BY <1>1 DEF StartTypeOK, FirstOnly
<1>2. ASSUME NEW h \in 1 .. Len(services), services[h] = o.name,
             \A n \in 1 .. h - 1 : services[n] # o.name,
             paras' = [paras EXCEPT ![h] = Append(@, o.val)]
      PROVE  paras' \in Seq(Seq(Value)) /\ Len(paras') = Len(services') /\ FirstOnly'
  <2>1. paras \in Seq(Seq(Value)) /\ Len(paras) = Len(services)
    BY DEF StartTypeOK
  <2>2. Append(paras[h], o.val) \in Seq(Value)
    BY StartLens, AppendProperties
  <2>3. paras' \in Seq(Seq(Value)) /\ Len(paras') = Len(services')
    BY <1>2, <2>1, <2>2, ExceptSeq
  <2>4. \A n \in DOMAIN services : n # h => paras'[n] = paras[n]
    BY <1>2, StartLens
  <2>5. FirstOnly'
    BY <1>2, <2>4 DEF FirstOnly
  <2> QED BY <2>3, <2>5
<1> QED BY <1>1, <1>2, SetParaFirst

\* Libraries that are loaded come last and have no parameters yet.
LEMMA LoadServicesKeeps ==
    ASSUME StartTypeOK, FirstOnly, NEW libs \in Seq(Lib), LoadServices(libs)
    PROVE  services' \in Seq(Lib) /\ paras' \in Seq(Seq(Value)) /\ Len(paras') = Len(services') /\ FirstOnly'
<1> DEFINE none == [n \in DOMAIN libs |-> <<>>]
<1>1. Len(libs) \in Nat /\ DOMAIN libs = 1 .. Len(libs)
  OBVIOUS
<1>2. none \in Seq(Seq(Value)) /\ Len(none) = Len(libs) /\ \A n \in 1 .. Len(libs) : none[n] = <<>>
  <2>1. \A n \in 1 .. Len(libs) : <<>> \in Seq(Value)
    BY EmptySeq
  <2> QED BY <1>1, <2>1, IsASeq
<1>3. services' = services \o libs /\ paras' = paras \o none
  BY DEF LoadServices
<1> HIDE DEF none
<1>4. services \in Seq(Lib) /\ paras \in Seq(Seq(Value)) /\ Len(paras) = Len(services) /\ Len(services) \in Nat
  BY DEF StartTypeOK
<1>5. /\ services' \in Seq(Lib) /\ Len(services') = Len(services) + Len(libs)
      /\ \A n \in 1 .. Len(services) : services'[n] = services[n]
  BY <1>3, <1>4, ConcatProperties
<1>6. /\ paras' \in Seq(Seq(Value)) /\ Len(paras') = Len(services) + Len(libs)
      /\ \A n \in 1 .. Len(services) : paras'[n] = paras[n]
      /\ \A n \in Len(services) + 1 .. Len(services) + Len(libs) : paras'[n] = none[n - Len(services)]
  <2>1. paras \o none \in Seq(Seq(Value)) /\ Len(paras \o none) = Len(paras) + Len(none)
    BY <1>2, <1>4, ConcatProperties
  <2>2. \A n \in 1 .. Len(paras) : (paras \o none)[n] = paras[n]
    BY <1>2, <1>4, ConcatProperties
  <2>3. \A n \in Len(paras) + 1 .. Len(paras) + Len(none) : (paras \o none)[n] = none[n - Len(paras)]
    BY <1>2, <1>4, ConcatProperties
  <2> QED BY <1>2, <1>3, <1>4, <2>1, <2>2, <2>3
<1>7. FirstOnly'
  <2> SUFFICES ASSUME NEW n \in DOMAIN services', NEW k \in 1 .. n - 1, services'[k] = services'[n]
               PROVE  paras'[n] = <<>>
      BY DEF FirstOnly
  <2>1. n \in 1 .. Len(services) + Len(libs)
    BY <1>5
  <2>2. CASE n \in 1 .. Len(services)
    <3>1. k \in 1 .. Len(services) /\ n \in DOMAIN services
      BY <1>4, <2>2
    <3>2. services[k] = services[n]
      BY <1>5, <2>2, <3>1
    <3> QED BY <1>6, <2>2, <3>1, <3>2 DEF FirstOnly
  <2>3. CASE n \notin 1 .. Len(services)
    <3>1. n \in Len(services) + 1 .. Len(services) + Len(libs) /\ n - Len(services) \in 1 .. Len(libs)
      BY <1>1, <1>4, <2>1, <2>3
    <3> QED BY <1>2, <1>6, <3>1
  <2> QED BY <2>2, <2>3
<1> QED BY <1>5, <1>6, <1>7

\* What decides a key does not change with the settings of others.
LEMMA SameGiven ==
    ASSUME UNCHANGED <<argv, conf>>, NEW key, setting'[key] = setting[key]
    PROVE  \A n \in Int : /\ Lines(key, n)' = Lines(key, n) /\ Options(key, n)' = Options(key, n)
                          /\ FromFile(key, n)' = FromFile(key, n)
                          /\ FromOptions(key, n)' = FromOptions(key, n)
                          /\ InForce(key, n)' = InForce(key, n)
<1> USE DEF Lines, Options
<1>1. \A n \in Int : Lines(key, n)' = Lines(key, n) /\ Options(key, n)' = Options(key, n)
  OBVIOUS
<1>2. \A n \in Int : FromFile(key, n)' = FromFile(key, n)
  BY DEF FromFile, IsLast
<1>3. \A n \in Int : FromOptions(key, n)' = FromOptions(key, n)
  BY <1>2 DEF FromOptions, FromFile, IsLast
<1>4. Lines(key, Len(conf))' = Lines(key, Len(conf)) /\ FromFile(key, Len(conf))' = FromFile(key, Len(conf))
  BY DEF FromFile, IsLast
<1>5. \A n \in Int : InForce(key, n)' = InForce(key, n)
  <2> HIDE DEF Lines, Options
  <2> QED BY <1>3, <1>4 DEF InForce
<1> QED BY <1>1, <1>2, <1>3, <1>5

\* One more line, one more option.
LEMMA OneMore ==
    ASSUME StartTypeOK, NEW key
    PROVE  /\ \A n \in 1 .. Len(conf) :
                 Lines(key, n) = IF conf[n].kind = "set" /\ conf[n].name = key
                                 THEN Lines(key, n - 1) \cup {n} ELSE Lines(key, n - 1)
           /\ \A n \in 1 .. Len(argv) :
                 Options(key, n) = IF \/ argv[n].kind = "set" /\ argv[n].name = key
                                      \/ argv[n].kind = "f" /\ Lines(key, Len(conf)) # {}
                                   THEN Options(key, n - 1) \cup {n} ELSE Options(key, n - 1)
           /\ Lines(key, 0) = {} /\ Options(key, 0) = {}
<1>1. Lines(key, 0) = {} /\ Options(key, 0) = {}
  BY DEF Lines, Options
<1>2. \A n \in Nat \ {0} : 1 .. n = (1 .. n - 1) \cup {n}
  OBVIOUS
<1>3. \A n \in 1 .. Len(conf) : n \in Nat \ {0}
  BY StartLens
<1>4. \A n \in 1 .. Len(argv) : n \in Nat \ {0}
  BY StartLens
<1>5. \A n \in 1 .. Len(conf) :
                 Lines(key, n) = IF conf[n].kind = "set" /\ conf[n].name = key
                                 THEN Lines(key, n - 1) \cup {n} ELSE Lines(key, n - 1)
  BY <1>2, <1>3 DEF Lines
<1>6. \A n \in 1 .. Len(argv) :
                 Options(key, n) = IF \/ argv[n].kind = "set" /\ argv[n].name = key
                                      \/ argv[n].kind = "f" /\ Lines(key, Len(conf)) # {}
                                   THEN Options(key, n - 1) \cup {n} ELSE Options(key, n - 1)
  BY <1>2, <1>4 DEF Options
<1> QED BY <1>1, <1>5, <1>6

\* The newest line or option is the last one.
LEMMA NewestLast ==
    ASSUME NEW n \in Nat, NEW key
    PROVE  /\ n \in Lines(key, n) => IsLast(n, Lines(key, n))
           /\ n \in Options(key, n) => IsLast(n, Options(key, n))
BY DEF Lines, Options, IsLast

LEMMA StartInvInit == StartInit => StartInv
<1> SUFFICES ASSUME StartInit PROVE StartInv
    OBVIOUS
<1> USE StartAssumption
<1>1. \A S : \A m \in Nat : \A f \in [1 .. m -> S] : f \in Seq(S) /\ Len(f) = m
  BY IsASeq
<1>2. argv \in Seq(Option) /\ Len(argv) \in Nat /\ Len(argv) <= MaxArgs
  <2>1. PICK m \in 0 .. MaxArgs : argv \in [1 .. m -> Option]
    BY DEF StartInit, Sequences
  <2> QED BY <1>1, <2>1
<1>3. conf \in Seq(Line) /\ Len(conf) \in Nat /\ Len(conf) <= MaxLines
  <2>1. PICK m \in 0 .. MaxLines : conf \in [1 .. m -> Line]
    BY DEF StartInit, Sequences
  <2> QED BY <1>1, <2>1
<1>4. StartTypeOK
  <2>1. <<>> \in Seq(Lib) /\ <<>> \in Seq(Seq(Value)) /\ Len(<<>>) = 0
    BY EmptySeq
  <2> QED BY <1>2, <1>3, <2>1 DEF StartInit, StartTypeOK
<1>5. FirstOnly
  BY EmptySeq DEF StartInit, FirstOnly
<1> QED BY <1>2, <1>3, <1>4, <1>5 DEF StartInit, StartInv

LEMMA InitContextKeeps == StartInv /\ InitContext => StartInv'
<1> SUFFICES ASSUME StartInv, InitContext PROVE StartInv'
    OBVIOUS
<1> USE StartAssumption
<1>1. StartTypeOK /\ FirstOnly
  BY DEF StartInv
<1>2. services' \in Seq(Lib) /\ paras' \in Seq(Seq(Value)) /\ Len(paras') = Len(services') /\ FirstOnly'
  BY <1>1, LoadServicesKeeps DEF InitContext
<1>3. StartTypeOK'
  BY <1>1, <1>2 DEF StartTypeOK, InitContext
<1>4. UNCHANGED <<argv, conf, i, line, setting>> /\ i = 1 /\ line = 1
  BY DEF InitContext, StartInv
<1>5. \A key \in Key : setting'[key] = 0
  BY DEF InitContext, StartInv
<1>6. CASE argv = <<>>
  <2>1. pc' = "lines"
    BY <1>6 DEF InitContext
  <2>2. ASSUME NEW key \in Key PROVE InFile(key)'
    <3>1. Lines(key, line - 1)' = {}
      BY <1>4 DEF Lines
    <3> QED BY <1>4, <1>5, <1>6, <3>1 DEF InFile
  <2> QED BY <1>1, <1>2, <1>3, <1>4, <1>6, <2>1, <2>2 DEF StartInv
<1>7. CASE argv # <<>>
  <2>1. pc' = "args"
    BY <1>7 DEF InitContext
  <2>2. ASSUME NEW key \in Key PROVE InForce(key, i - 1)'
    <3>1. Options(key, i - 1)' = {}
      BY <1>4 DEF Options
    <3> QED BY <1>4, <1>5, <1>7, <3>1 DEF InForce, FromOptions
  <2> QED BY <1>1, <1>2, <1>3, <1>4, <1>7, <2>1, <2>2 DEF StartInv
<1> QED BY <1>6, <1>7

LEMMA ReadLineKeeps == StartInv /\ ReadLine => StartInv'
<1> SUFFICES ASSUME StartInv, ReadLine PROVE StartInv'
    OBVIOUS
<1> USE StartAssumption
<1> DEFINE o == conf[line]
<1>1. StartTypeOK /\ FirstOnly /\ pc = "lines"
  BY DEF StartInv, ReadLine
<1>2. line \in 1 .. Len(conf) /\ o \in Line /\ line' = line + 1 /\ Len(conf) \in Nat /\ line \in Nat
  BY <1>1, StartLens DEF ReadLine, StartTypeOK
<1>3. UNCHANGED <<argv, conf, i, services, pluginRet>>
  BY DEF ReadLine
<1>4. setting' \in [Key -> Value \cup {0}]
  BY <1>1, <1>2, OptionTyped DEF ReadLine, ParseParameter, StartTypeOK
<1>5. paras' \in Seq(Seq(Value)) /\ Len(paras') = Len(services') /\ FirstOnly'
  <2>1. CASE o.kind = "D"
    <3>1. o.val \in Value /\ paras' = SetPara(o)
      BY <1>2, <2>1, OptionTyped DEF ReadLine
    <3> QED BY <1>1, <1>3, <3>1, SetParaKeeps
  <2>2. CASE o.kind # "D"
    BY <1>1, <1>3, <2>2 DEF ReadLine, StartTypeOK, FirstOnly
  <2> QED BY <2>1, <2>2
<1>6. pc' \in {"lines", "crashed"}
  BY <1>1 DEF ReadLine
<1>7. line' \in 1 .. MaxLines + 1 /\ line' <= Len(conf') + 1
  BY <1>2, <1>3 DEF StartInv
<1>8. StartTypeOK'
  BY <1>1, <1>3, <1>4, <1>5, <1>6, <1>7 DEF StartTypeOK
<1>9. ASSUME NEW key \in Key PROVE InFile(key)'
  <2>1. InFile(key)
    BY <1>1 DEF StartInv
  <2>2. line' - 1 = line
    BY <1>2
  <2>3. CASE o.kind = "set" /\ o.name = key
    <3>1. setting'[key] = o.val
      BY <1>1, <2>3 DEF ReadLine, ParseParameter, StartTypeOK
    <3>2. line \in Lines(key, line)
      BY <1>2, <2>3 DEF Lines
    <3>3. IsLast(line, Lines(key, line))
      BY <1>2, <3>2, NewestLast
    <3>4. Lines(key, line - 1)' = Lines(key, line)
      BY <1>3, <2>2 DEF Lines
    <3>5. FromFile(key, line - 1)'
      BY <1>3, <3>1, <3>2, <3>3, <3>4 DEF FromFile, IsLast
    <3> QED BY <3>2, <3>4, <3>5 DEF InFile
  <2>4. CASE ~ (o.kind = "set" /\ o.name = key)
    <3>1. setting'[key] = setting[key]
      BY <1>1, <1>2, <2>4, OptionTyped DEF ReadLine, ParseParameter, StartTypeOK
    <3>2. Lines(key, line) = Lines(key, line - 1)
      BY <1>1, <1>2, <2>4, OneMore
    <3>3. Lines(key, line - 1)' = Lines(key, line - 1)
      BY <1>3, <2>2, <3>2 DEF Lines
    <3>4. FromFile(key, line - 1)' = FromFile(key, line - 1)
      BY <1>3, <3>1, <3>3 DEF FromFile, IsLast
    <3>5. i - 2 \in Int /\ i' = i
      BY <1>1, <1>3 DEF StartTypeOK
    <3>6. FromOptions(key, i - 2)' = FromOptions(key, i - 2)
      BY <1>3, <3>1, <3>5, SameGiven
    <3> QED BY <1>3, <2>1, <3>1, <3>3, <3>4, <3>6 DEF InFile
  <2> QED BY <2>3, <2>4
<1> QED BY <1>1, <1>3, <1>5, <1>6, <1>7, <1>8, <1>9 DEF StartInv

\* At the end of a file the option that named it, or the start, takes its settings.
LEMMA EndOfFileKeeps == StartInv /\ EndOfFile => StartInv'
<1> SUFFICES ASSUME StartInv, EndOfFile PROVE StartInv'
    OBVIOUS
<1> USE StartAssumption
<1>1. StartTypeOK /\ FirstOnly /\ pc = "lines"
  BY DEF StartInv, EndOfFile
<1>2. line = Len(conf) + 1 /\ line - 1 = Len(conf) /\ i \in Nat /\ Len(argv) \in Nat
  BY <1>1, StartLens DEF StartInv, EndOfFile, StartTypeOK
<1>3. UNCHANGED <<argv, conf, i, services, paras, setting, pluginRet>> /\ pc' = "args" /\ line' = 1
  BY DEF EndOfFile
<1>4. StartTypeOK' /\ FirstOnly'
  BY <1>1, <1>3 DEF StartTypeOK, FirstOnly
<1>5. ASSUME NEW key \in Key PROVE InForce(key, i - 1)
  <2>1. InFile(key)
    BY <1>1 DEF StartInv
  <2>2. CASE argv = <<>>
    <3>1. i = 1
      BY <1>1, <2>2 DEF StartInv
    <3>2. Options(key, i - 1) = {}
      BY <3>1 DEF Options
    <3> QED BY <1>2, <2>1, <2>2, <3>2 DEF InFile, InForce, FromOptions
  <2>3. CASE argv # <<>>
    <3>1. i \in 2 .. Len(argv) + 1 /\ argv[i - 1].kind = "f"
      BY <1>1, <1>2, <2>3 DEF StartInv
    <3>2. i - 1 \in 1 .. Len(argv) /\ (i - 1) - 1 = i - 2 /\ i - 1 \in Nat
      BY <1>2, <3>1
    <3>3. Options(key, i - 1) = IF Lines(key, Len(conf)) # {}
                                THEN Options(key, i - 2) \cup {i - 1} ELSE Options(key, i - 2)
      <4>1. \A n \in 1 .. Len(argv) :
               argv[n].kind = "f" => Options(key, n) = IF Lines(key, Len(conf)) # {}
                                       THEN Options(key, n - 1) \cup {n} ELSE Options(key, n - 1)
        BY <1>1, OneMore
      <4> QED BY <3>1, <3>2, <4>1
    <3>4. CASE Lines(key, Len(conf)) # {}
      <4>1. FromFile(key, Len(conf))
        BY <1>2, <2>1, <3>4 DEF InFile
      <4>2. i - 1 \in Options(key, i - 1) /\ IsLast(i - 1, Options(key, i - 1))
        BY <3>2, <3>3, <3>4, NewestLast
      <4> QED BY <2>3, <3>1, <4>1, <4>2 DEF InForce, FromOptions
    <3>5. CASE Lines(key, Len(conf)) = {}
      <4>1. FromOptions(key, i - 2)
        BY <1>2, <2>1, <2>3, <3>5 DEF InFile
      <4>2. Options(key, i - 1) = Options(key, i - 2)
        BY <3>3, <3>5
      <4> QED BY <2>3, <4>1, <4>2 DEF InForce, FromOptions
    <3> QED BY <3>4, <3>5
  <2> QED BY <2>2, <2>3
<1>6. \A key \in Key : InForce(key, i - 1)'
  BY <1>2, <1>3, <1>5, SameGiven
<1>7. 1 <= Len(conf') + 1
  BY <1>1, <1>3, StartLens
<1> QED BY <1>1, <1>3, <1>4, <1>6, <1>7 DEF StartInv

LEMMA ContextArgKeeps == StartInv /\ ContextArg => StartInv'
<1> SUFFICES ASSUME StartInv, ContextArg PROVE StartInv'
    OBVIOUS
<1> USE StartAssumption
<1> DEFINE o == argv[i]
<1>1. StartTypeOK /\ FirstOnly /\ pc = "args" /\ line = 1
  BY DEF StartInv, ContextArg
<1>2. /\ i \in 1 .. Len(argv) /\ i \in Nat /\ o \in Option /\ i' = i + 1 /\ argv # <<>>
      /\ Len(argv) \in Nat /\ Len(argv) <= MaxArgs /\ Len(conf) \in Nat
  <2>1. Len(argv) \in Nat /\ Len(conf) \in Nat /\ Len(argv) <= MaxArgs /\ i \in Nat /\ i >= 1
    BY <1>1, StartLens DEF StartTypeOK, StartInv
  <2>2. i <= Len(argv) /\ i' = i + 1
    BY DEF ContextArg
  <2>3. i \in 1 .. Len(argv)
    BY <2>1, <2>2
  <2> QED BY <1>1, <2>1, <2>2, <2>3, StartLens
<1>3. UNCHANGED <<argv, conf, line, pluginRet>>
  BY DEF ContextArg
<1>4. setting' \in [Key -> Value \cup {0}]
  BY <1>1, <1>2, OptionTyped DEF ContextArg, ParseParameter, StartTypeOK
<1>5. services' \in Seq(Lib) /\ paras' \in Seq(Seq(Value)) /\ Len(paras') = Len(services') /\ FirstOnly'
  <2>1. CASE o.kind = "s"
    BY <1>1, <2>1, LoadServicesKeeps DEF ContextArg
  <2>2. CASE o.kind # "s"
    <3>1. UNCHANGED <<services, paras>>
      BY <2>2 DEF ContextArg
    <3> QED BY <1>1, <3>1 DEF StartTypeOK, FirstOnly
  <2> QED BY <2>1, <2>2
<1>6. pc' \in {"lines", "exited", "args"} /\ (pc' = "lines" => o.kind = "f") /\ (pc' = "args" => o.kind # "f")
  BY <1>1 DEF ContextArg
<1>7. i' \in 1 .. MaxArgs + 1 /\ i' <= Len(argv') + 1 /\ i' - 1 = i /\ i' - 2 = i - 1 /\ i' > 1
  BY <1>2, <1>3
<1>8. StartTypeOK'
  BY <1>1, <1>3, <1>4, <1>5, <1>6, <1>7 DEF StartTypeOK
<1>9. ASSUME pc' = "lines", NEW key \in Key PROVE InFile(key)'
  <2>1. setting' = setting
    BY <1>6, <1>9 DEF ContextArg
  <2>2. Lines(key, line - 1)' = {}
    BY <1>1, <1>3 DEF Lines
  <2>3. FromOptions(key, i - 1)
    <3>1. InForce(key, i - 1)
      BY <1>1 DEF StartInv
    <3> QED BY <1>2, <3>1 DEF InForce
  <2>4. FromOptions(key, i - 2)'
    <3>1. FromFile(key, Len(conf))' = FromFile(key, Len(conf))
      BY <1>3, <2>1 DEF FromFile, IsLast, Lines
    <3>2. Options(key, i - 2)' = Options(key, i - 1)
      BY <1>3, <1>7 DEF Options, Lines
    <3>3. FromOptions(key, i - 2)' = FromOptions(key, i - 1)
      BY <1>3, <2>1, <3>1, <3>2 DEF FromOptions, IsLast
    <3> QED BY <2>3, <3>3
  <2> QED BY <1>2, <1>3, <2>2, <2>4 DEF InFile
<1>10. ASSUME pc' = "args", NEW key \in Key PROVE InForce(key, i - 1)'
  <2>1. FromOptions(key, i - 1)
    <3>1. InForce(key, i - 1)
      BY <1>1 DEF StartInv
    <3> QED BY <1>2, <3>1 DEF InForce
  <2>2. o.kind # "f"
    BY <1>6, <1>10
  <2>3. Options(key, i) = IF o.kind = "set" /\ o.name = key THEN Options(key, i - 1) \cup {i} ELSE Options(key, i - 1)
    BY <1>1, <1>2, <2>2, OneMore
  <2>4. Options(key, i - 1)' = Options(key, i)
    BY <1>3, <1>7 DEF Options, Lines
  <2>5. CASE o.kind = "set" /\ o.name = key
    <3>1. setting'[key] = o.val
      BY <1>1, <2>5 DEF ContextArg, ParseParameter, StartTypeOK
    <3>2. i \in Options(key, i) /\ IsLast(i, Options(key, i))
      BY <1>2, <2>3, <2>5, NewestLast
    <3>3. FromOptions(key, i - 1)'
      BY <1>3, <2>2, <2>4, <3>1, <3>2 DEF FromOptions, IsLast
    <3> QED BY <1>2, <1>3, <3>3 DEF InForce
  <2>6. CASE ~ (o.kind = "set" /\ o.name = key)
    <3>1. setting'[key] = setting[key]
      BY <1>1, <1>2, <2>6, OptionTyped DEF ContextArg, ParseParameter, StartTypeOK
    <3>2. Options(key, i - 1)' = Options(key, i - 1)
      BY <2>3, <2>4, <2>6
    <3>3. FromFile(key, Len(conf))' = FromFile(key, Len(conf))
      BY <1>3, <3>1 DEF FromFile, IsLast, Lines
    <3>4. FromOptions(key, i - 1)' = FromOptions(key, i - 1)
      BY <1>3, <3>1, <3>2, <3>3 DEF FromOptions, IsLast
    <3> QED BY <1>2, <1>3, <2>1, <3>4 DEF InForce
  <2> QED BY <2>5, <2>6
<1>11. pc' = "lines" => argv'[i' - 1].kind = "f"
  BY <1>3, <1>6, <1>7
<1> QED BY <1>1, <1>2, <1>3, <1>5, <1>6, <1>7, <1>8, <1>9, <1>10, <1>11 DEF StartInv

\* No parameter has been asked for before the first option.
LEMMA NoneAsked ==
    ASSUME StartTypeOK, FirstOnly
    PROVE  \A n \in DOMAIN services : Delivered(0, n)
<1>1. \A n \in DOMAIN services : Asked(services[n], 0) = {}
  BY DEF Asked
<1>2. \A n \in DOMAIN services : Len(paras[n]) >= 0
  BY StartLens
<1> QED BY <1>1, <1>2, FS_EmptySet DEF Delivered, FirstOnly

LEMMA ContextDoneKeeps == StartInv /\ ContextDone => StartInv'
<1> SUFFICES ASSUME StartInv, ContextDone PROVE StartInv'
    OBVIOUS
<1> USE StartAssumption
<1>1. StartTypeOK /\ FirstOnly /\ pc = "args" /\ line = 1
  BY DEF StartInv, ContextDone
<1>2. i - 1 = Len(argv) /\ Len(argv) \in Nat
  <2>1. Len(argv) \in Nat /\ i \in Int
    BY <1>1, StartLens DEF StartTypeOK
  <2>2. i <= Len(argv) + 1 /\ i > Len(argv)
    BY DEF StartInv, ContextDone
  <2> QED BY <2>1, <2>2
<1>3. UNCHANGED <<argv, conf, line, services, paras, setting, pluginRet>> /\ pc' = "plugin" /\ i' = 1
  BY DEF ContextDone
<1>4. StartTypeOK' /\ FirstOnly'
  BY <1>1, <1>3 DEF StartTypeOK, FirstOnly
<1>5. \A key \in Key : InForce(key, Len(argv))'
  <2>1. \A key \in Key : InForce(key, Len(argv))
    BY <1>1, <1>2 DEF StartInv
  <2> QED BY <1>2, <1>3, <2>1, SameGiven
<1>6. \A n \in DOMAIN services' : Delivered(i - 1, n)'
  <2>1. \A n \in DOMAIN services : Delivered(0, n)
    BY <1>1, NoneAsked
  <2> QED BY <1>3, <2>1 DEF Delivered, Asked
<1>7. 1 <= Len(argv') + 1
  BY <1>2, <1>3
<1> QED BY <1>1, <1>3, <1>4, <1>5, <1>6, <1>7 DEF StartInv

\* One more parameter asked for: of the libraries with its name only the first
\* gets it, and there it is the last.
LEMMA DeliveredMore ==
    ASSUME StartTypeOK, FirstOnly, UNCHANGED <<argv, services>>,
           NEW n \in DOMAIN services, NEW x \in 1 .. Len(argv), Delivered(x - 1, n),
           paras' = IF argv[x].kind = "D" THEN SetPara(argv[x]) ELSE paras
    PROVE  Delivered(x, n)'
<1> DEFINE lib == services[n]
<1> DEFINE old == Asked(lib, x - 1)
<1>1. x \in Nat /\ argv[x] \in Option /\ 1 .. x = (1 .. x - 1) \cup {x} /\ x \notin 1 .. x - 1
  BY StartLens
<1>2. Asked(lib, x) = IF argv[x].kind = "D" /\ argv[x].name = lib THEN old \cup {x} ELSE old
  BY <1>1 DEF Asked
<1>3. Asked(services[n], x)' = Asked(lib, x)
  BY DEF Asked
<1>4. IsFiniteSet(old) /\ Cardinality(old) \in Nat /\ old \subseteq 1 .. x - 1
  <2>1. IsFiniteSet(1 .. x - 1)
    BY <1>1, FS_Interval
  <2> QED BY <2>1, FS_Subset, FS_CardinalityType DEF Asked
<1>5. paras[n] \in Seq(Value) /\ Len(paras[n]) \in Nat
  BY StartLens
<1>6. CASE \E k \in 1 .. n - 1 : services[k] = services[n]
  <2>1. paras' = paras \/ (paras' = SetPara(argv[x]) /\ argv[x].val \in Value)
    <3>1. argv[x].kind = "D" => argv[x].val \in Value
      BY <1>1, OptionTyped
    <3> QED BY <3>1
  <2>2. FirstOnly'
    BY <2>1, SetParaKeeps DEF FirstOnly
  <2> QED BY <1>6, <2>2 DEF FirstOnly, Delivered
<1>7. CASE ~ (\E k \in 1 .. n - 1 : services[k] = services[n])
  <2>1. /\ Cardinality(old) <= Len(paras[n])
        /\ \A y \in old : paras[n][Len(paras[n]) - Cardinality({z \in old : z > y})] = argv[y].val
    BY <1>7 DEF Delivered
  <2>2. CASE argv[x].kind = "D" /\ argv[x].name = lib
    <3>1. argv[x].val \in Value /\ paras' = SetPara(argv[x])
      BY <1>1, <2>2, OptionTyped
    <3>2. PICK h \in 1 .. Len(services) :
             /\ services[h] = lib /\ \A k \in 1 .. h - 1 : services[k] # lib
             /\ paras' = [paras EXCEPT ![h] = Append(@, argv[x].val)]
      <4>1. \/ SetPara(argv[x]) = paras /\ \A k \in 1 .. Len(services) : services[k] # argv[x].name
            \/ \E h \in 1 .. Len(services) :
                 /\ services[h] = argv[x].name /\ \A k \in 1 .. h - 1 : services[k] # argv[x].name
                 /\ SetPara(argv[x]) = [paras EXCEPT ![h] = Append(@, argv[x].val)]
        BY <3>1, SetParaFirst
      <4>2. n \in 1 .. Len(services) /\ services[n] = argv[x].name
        BY <2>2, StartLens
      <4> QED BY <2>2, <3>1, <4>1, <4>2
    <3>3. h = n
      <4>1. n \in 1 .. Len(services) /\ Len(services) \in Nat
        BY StartLens
      <4>2. ~ (h < n)
        BY <1>7, <3>2, <4>1
      <4>3. ~ (n < h)
        BY <3>2, <4>1
      <4> QED BY <4>1, <4>2, <4>3
    <3>4. paras'[n] = Append(paras[n], argv[x].val)
      BY <3>2, <3>3, StartLens
    <3>5. /\ Len(paras'[n]) = Len(paras[n]) + 1
          /\ paras'[n][Len(paras[n]) + 1] = argv[x].val
          /\ \A k \in 1 .. Len(paras[n]) : paras'[n][k] = paras[n][k]
      BY <1>5, <3>1, <3>4, AppendProperties
    <3> DEFINE all == old \cup {x}
    <3>6. Asked(services[n], x)' = all
      BY <1>2, <1>3, <2>2
    <3>7. x \notin old /\ Cardinality(all) = Cardinality(old) + 1
      <4>1. x \notin old
        BY <1>1, <1>4
      <4> QED BY <1>4, <4>1, FS_AddElement
    <3>8. ASSUME NEW y \in all
          PROVE  paras'[n][Len(paras'[n]) - Cardinality({z \in all : z > y})] = argv[y].val
      <4>1. CASE y = x
        <5>1. {z \in all : z > y} = {}
          BY <1>1, <1>4, <4>1
        <5>2. Cardinality({z \in all : z > y}) = 0
          BY <5>1, FS_EmptySet
        <5>3. Len(paras'[n]) - Cardinality({z \in all : z > y}) = Len(paras[n]) + 1
          BY <1>5, <3>5, <5>2
        <5> QED BY <3>5, <4>1, <5>3
      <4>2. CASE y # x
        <5> DEFINE after == {z \in old : z > y}
        <5>1. y \in old /\ y \in 1 .. x - 1
          BY <1>4, <4>2
        <5>2. {z \in all : z > y} = after \cup {x}
          BY <1>1, <5>1
        <5>3. IsFiniteSet(after) /\ Cardinality(after) \in Nat
          BY <1>4, FS_Subset, FS_CardinalityType
        <5>4. x \notin after /\ Cardinality(after \cup {x}) = Cardinality(after) + 1
          BY <3>7, <5>3, FS_AddElement
        <5>5. Cardinality(after) < Cardinality(old)
          <6>1. y \notin after /\ after \subseteq old
            BY <1>1, <5>1
          <6>2. Cardinality(after) <= Cardinality(old) /\ (Cardinality(old) = Cardinality(after) => old = after)
            BY <1>4, FS_Subset
          <6> QED BY <1>4, <5>1, <5>3, <6>1, <6>2
        <5>6. Len(paras[n]) - Cardinality(after) \in 1 .. Len(paras[n])
          BY <1>4, <1>5, <2>1, <5>3, <5>5
        <5>7. Len(paras'[n]) - Cardinality({z \in all : z > y}) = Len(paras[n]) - Cardinality(after)
          <6>1. Cardinality({z \in all : z > y}) = Cardinality(after) + 1
            BY <5>2, <5>4
          <6>2. Len(paras'[n]) = Len(paras[n]) + 1
            BY <3>5
          <6> HIDE DEF all, after
          <6> QED BY <1>5, <5>3, <6>1, <6>2
        <5> QED BY <2>1, <3>5, <5>1, <5>6, <5>7
      <4> QED BY <4>1, <4>2
    <3>9. Cardinality(all) <= Len(paras'[n])
      BY <1>4, <1>5, <2>1, <3>5, <3>7
    <3> QED BY <1>7, <3>6, <3>8, <3>9 DEF Delivered
  <2>3. CASE ~ (argv[x].kind = "D" /\ argv[x].name = lib)
    <3>1. paras'[n] = paras[n]
      <4>1. CASE argv[x].kind # "D"
        BY <4>1
      <4>2. CASE argv[x].kind = "D"
        <5>1. argv[x].val \in Value /\ paras' = SetPara(argv[x])
          BY <1>1, <4>2, OptionTyped
        <5>2. argv[x].name # services[n] /\ n \in 1 .. Len(services)
          BY <2>3, <4>2, StartLens
        <5> QED BY <5>1, <5>2, SetParaFirst, StartLens
      <4> QED BY <4>1, <4>2
    <3>2. Asked(services[n], x)' = old
      BY <1>2, <1>3, <2>3
    <3> QED BY <1>7, <2>1, <3>1, <3>2 DEF Delivered
  <2> QED BY <2>2, <2>3
<1> QED BY <1>6, <1>7

LEMMA PluginArgKeeps == StartInv /\ PluginArg => StartInv'
<1> SUFFICES ASSUME StartInv, PluginArg PROVE StartInv'
    OBVIOUS
<1> USE StartAssumption
<1>1. StartTypeOK /\ FirstOnly /\ pc = "plugin" /\ pc' = pc
  BY DEF StartInv, PluginArg
<1>2. i \in 1 .. Len(argv) /\ i \in Nat /\ i' = i + 1 /\ i' - 1 = i /\ Len(argv) \in Nat /\ argv[i] \in Option
  BY <1>1, StartLens DEF StartTypeOK, PluginArg
<1>3. UNCHANGED <<argv, conf, line, services, setting, pluginRet>>
  BY DEF PluginArg
<1>4. paras' = IF argv[i].kind = "D" THEN SetPara(argv[i]) ELSE paras
  BY DEF PluginArg
<1>5. paras' \in Seq(Seq(Value)) /\ Len(paras') = Len(services') /\ FirstOnly'
  <2>1. CASE argv[i].kind = "D"
    <3>1. argv[i].val \in Value
      BY <1>2, <2>1, OptionTyped
    <3> QED BY <1>1, <1>3, <1>4, <2>1, <3>1, SetParaKeeps
  <2>2. CASE argv[i].kind # "D"
    BY <1>1, <1>3, <1>4, <2>2 DEF StartTypeOK, FirstOnly
  <2> QED BY <2>1, <2>2
<1>6. i' \in 1 .. MaxArgs + 1 /\ i' <= Len(argv') + 1
  BY <1>2, <1>3 DEF StartInv
<1>7. StartTypeOK'
  BY <1>1, <1>3, <1>5, <1>6 DEF StartTypeOK
<1>8. \A key \in Key : InForce(key, Len(argv))'
  <2>1. \A key \in Key : InForce(key, Len(argv))
    BY <1>1 DEF StartInv
  <2> QED BY <1>2, <1>3, <2>1, SameGiven
<1>9. ASSUME NEW n \in DOMAIN services PROVE Delivered(i - 1, n)'
  <2>1. Delivered(i - 1, n)
    BY <1>1 DEF StartInv
  <2>2. UNCHANGED <<argv, services>>
    BY <1>3
  <2>4. \A x \in 1 .. Len(argv) : x = i => /\ Delivered(x - 1, n)
            /\ paras' = IF argv[x].kind = "D" THEN SetPara(argv[x]) ELSE paras
    BY <1>4, <2>1
  <2>5. \A x \in 1 .. Len(argv) : x = i => Delivered(x, n)'
    BY <1>1, <2>2, <2>4, DeliveredMore
  <2>6. \A x : x = i => (Delivered(x, n)' <=> Delivered(i - 1, n)')
    BY <1>2 DEF Delivered, Asked
  <2> QED BY <1>2, <2>5, <2>6
<1>10. line' <= Len(conf') + 1
  BY <1>3 DEF StartInv
<1> QED BY <1>1, <1>3, <1>5, <1>6, <1>7, <1>8, <1>9, <1>10 DEF StartInv

LEMMA PluginDoneKeeps == StartInv /\ PluginDone => StartInv'
<1> SUFFICES ASSUME StartInv, PluginDone PROVE StartInv'
    OBVIOUS
<1> USE StartAssumption
<1>1. StartTypeOK /\ FirstOnly /\ pc = "plugin"
  BY DEF StartInv, PluginDone
<1>2. i - 1 = Len(argv) /\ Len(argv) \in Nat
  <2>1. Len(argv) \in Nat /\ i \in Int
    BY <1>1, StartLens DEF StartTypeOK
  <2>2. i <= Len(argv) + 1 /\ i > Len(argv)
    BY DEF StartInv, PluginDone
  <2> QED BY <2>1, <2>2
<1>3. UNCHANGED <<argv, conf, i, line, services, paras, setting>> /\ pc' = "listening" /\ pluginRet' = 0
  BY DEF PluginDone
<1>4. StartTypeOK' /\ FirstOnly'
  BY <1>1, <1>3 DEF StartTypeOK, FirstOnly
<1>5. \A key \in Key : InForce(key, Len(argv))'
  <2>1. \A key \in Key : InForce(key, Len(argv))
    BY <1>1 DEF StartInv
  <2> QED BY <1>2, <1>3, <2>1, SameGiven
<1>6. \A n \in DOMAIN services' : Delivered(Len(argv), n)'
  <2>1. \A n \in DOMAIN services : Delivered(Len(argv), n)
    BY <1>1, <1>2 DEF StartInv
  <2>2. \A n \in DOMAIN services : \A m \in Nat : Delivered(m, n)' = Delivered(m, n)
    BY <1>3 DEF Delivered, Asked
  <2> QED BY <1>2, <1>3, <2>1, <2>2
<1> QED BY <1>1, <1>3, <1>4, <1>5, <1>6 DEF StartInv

LEMMA StartInvNext == StartInv /\ [StartNext]_startVars => StartInv'
<1> SUFFICES ASSUME StartInv, UNCHANGED startVars PROVE StartInv'
    BY InitContextKeeps, ReadLineKeeps, EndOfFileKeeps, ContextArgKeeps, ContextDoneKeeps,
       PluginArgKeeps, PluginDoneKeeps DEF StartNext
<1> USE DEF startVars
<1>1. StartTypeOK' /\ FirstOnly'
  BY DEF StartInv, StartTypeOK, FirstOnly
<1>2. \A key \in Key : /\ InFile(key)' = InFile(key) /\ InForce(key, i - 1)' = InForce(key, i - 1)
                       /\ InForce(key, Len(argv))' = InForce(key, Len(argv))
  BY DEF InFile, InForce, FromFile, FromOptions, Lines, Options, IsLast
<1>3. \A n \in DOMAIN services : /\ Delivered(i - 1, n)' = Delivered(i - 1, n)
                                  /\ Delivered(Len(argv), n)' = Delivered(Len(argv), n)
  BY DEF Delivered, Asked
<1> QED BY <1>1, <1>2, <1>3 DEF StartInv

\* Reading options and files, in whatever order they come, keeps every variable
\* in its range, and an array of parameters with every library.
THEOREM StartTypeCorrect == StartSpec => []StartTypeOK
<1>1. StartInv => StartTypeOK
  BY DEF StartInv
<1> QED BY <1>1, StartInvInit, StartInvNext, PTL DEF StartSpec

\* init_context and __read_conf_file leave the last value given in force, for any
\* command line and any file.
THEOREM LastSettingStays == StartSpec => []LastSettingWins
<1>1. StartInv => LastSettingWins
  BY DEF StartInv, LastSettingWins, InForce
<1> QED BY <1>1, StartInvInit, StartInvNext, PTL DEF StartSpec

\* init_plugin hands every parameter to the service it names, in order.
THEOREM OptionsReach == StartSpec => []OptionsDelivered
<1>1. StartInv => OptionsDelivered
  BY DEF StartInv, OptionsDelivered
<1> QED BY <1>1, StartInvInit, StartInvNext, PTL DEF StartSpec

-----------------------------------------------------------------------------
(* The administration pipe                                                 *)

\* Connections are numbered as they come, and none is in two slots.
TableOK ==
    /\ told \subseteq 1 .. conns /\ pC \in 0 .. conns
    /\ \A s \in 1 .. Slots : table[s] \in 0 .. conns
    /\ \A r, s \in 1 .. Slots : table[r] # 0 /\ table[r] = table[s] => r = s

\* The walk that prints stands behind the slot it has loaded.
WalkOK ==
    /\ ListingComplete
    /\ apc = "print" => /\ slot > 1 /\ table[slot - 1] \in {0, pC}
                        /\ \A s \in 1 .. slot - 2 : table[s] \in printed \cup {0}

\* Every command on its way was written.
Known == {w[2] : w \in written}

KnownOK ==
    /\ \A n \in 1 .. Len(fifo) : fifo[n][1] \in Known
    /\ waiting \subseteq Known /\ file \in Known \cup {None} /\ cmd \in Known \cup {None}
    /\ apc = "find" => cmd.op = "close"

\* A client that is told or about to be told was named.
Named(c) == \E w \in written : w[2].op = "close" /\ w[2].pid = pidOf[c]

CloseOK ==
    /\ OnlyAskedClosed
    /\ apc = "send" /\ pC # 0 => Named(pC)

\* Shutdowns asked for, and those of them that can still happen.
SD == [op |-> "shutdown", pid |-> 0]

Asks == {w \in written : w[2].op = "shutdown"}

Heads == {n \in 1 .. Len(fifo) : fifo[n] = <<SD, 1>>}

Coming == Cardinality(Heads) + (IF SD \in waiting THEN 1 ELSE 0) + (IF file = SD THEN 1 ELSE 0)

CountOK ==
    /\ IsFiniteSet(written) /\ \A w \in written : w[1] <= Cardinality(written)
    /\ shutdowns + Coming <= Cardinality(Asks)

PipeInv == PipeTypeOK /\ TableOK /\ WalkOK /\ KnownOK /\ CloseOK /\ CountOK

Byte == Command \X Nat

-----------------------------------------------------------------------------
(* Bytes                                                                   *)

LEMMA CommandFacts ==
    /\ None \notin Command /\ SD \in Command /\ None.op = "none"
    /\ \A c \in Command : c.op = "shutdown" <=> c = SD
<1>1. None \notin Command
  BY DEF None, Command
<1>2. SD \in Command
  BY DEF SD, Command
<1>3. \A c \in Command : c.op = "shutdown" => c = SD
  BY DEF SD, Command
<1> QED BY <1>1, <1>2, <1>3 DEF None, SD

\* A command as bytes: only the first of them is a head.
LEMMA BytesFacts ==
    ASSUME NEW c \in Command
    PROVE  /\ Bytes(c) \in Seq(Byte) /\ Len(Bytes(c)) \in Nat
           /\ \A n \in 1 .. Len(Bytes(c)) : Bytes(c)[n] = <<c, n>>
           /\ c = SD => Len(Bytes(c)) = 10
<1> DEFINE len == IF c.op = "close" THEN 10 + Digits ELSE 10
<1>1. len \in Nat /\ (c = SD => len = 10)
  BY PipeAssumption, CommandFacts
<1>2. Bytes(c) = [n \in 1 .. len |-> <<c, n>>]
  BY DEF Bytes
<1>3. \A n \in 1 .. len : <<c, n>> \in Byte
  BY <1>1 DEF Byte
<1> HIDE DEF len
<1>4. Bytes(c) \in Seq(Byte)
  BY <1>1, <1>2, <1>3, IsASeq
<1>5. Len(Bytes(c)) = len
  BY <1>1, <1>2
<1> QED BY <1>1, <1>2, <1>4, <1>5

\* What the server can read is the FIFO, or bytes of the command in the file.
LEMMA InputFacts ==
    ASSUME PipeTypeOK
    PROVE  /\ Input \in Seq(Byte) /\ Len(Input) \in Nat
           /\ opened = "fifo" => Input = fifo
           /\ opened # "fifo" /\ Input # <<>> =>
                 /\ file \in Command /\ \A n \in 1 .. Len(Input) : Input[n][1] = file
<1>1. fifo \in Seq(Byte) /\ file \in Command \cup {None} /\ pos \in Nat
  BY DEF PipeTypeOK, Byte
<1>2. CASE opened = "fifo"
  BY <1>1, <1>2, LenProperties DEF Input
<1>3. CASE opened # "fifo" /\ file = None
  <2>1. Input = SubSeq(<<>>, pos + 1, 0)
    BY <1>3, EmptySeq DEF Input
  <2>2. Input = <<>>
    BY <1>1, <2>1, SubSeqEmpty
  <2> QED BY <1>3, <2>2, EmptySeq
<1>4. CASE opened # "fifo" /\ file # None
  <2> DEFINE b == Bytes(file)
  <2>1. file \in Command
    BY <1>1, <1>4
  <2>2. b \in Seq(Byte) /\ Len(b) \in Nat /\ \A n \in 1 .. Len(b) : b[n] = <<file, n>>
    BY <2>1, BytesFacts
  <2>3. Input = SubSeq(b, pos + 1, Len(b))
    BY <1>4 DEF Input
  <2> HIDE DEF b
  <2>4. \A n \in pos + 1 .. Len(b) : b[n] \in Byte
    BY <1>1, <2>2
  <2>5. /\ Input \in Seq(Byte)
        /\ Len(Input) = IF pos + 1 <= Len(b) THEN Len(b) - (pos + 1) + 1 ELSE 0
        /\ \A n \in 1 .. Len(b) - (pos + 1) + 1 : Input[n] = b[(pos + 1) + n - 1]
    BY <1>1, <2>2, <2>3, <2>4, SubSeqProperties
  <2>6. \A n \in 1 .. Len(Input) : Input[n][1] = file
    <3> SUFFICES ASSUME NEW n \in 1 .. Len(Input) PROVE Input[n][1] = file
      OBVIOUS
    <3>1. n \in 1 .. Len(b) - (pos + 1) + 1 /\ (pos + 1) + n - 1 \in 1 .. Len(b)
      BY <1>1, <2>2, <2>5
    <3> QED BY <2>2, <2>5, <3>1
  <2> QED BY <1>4, <2>1, <2>5, <2>6, LenProperties
<1> QED BY <1>2, <1>3, <1>4

LEMMA BufFacts ==
    ASSUME PipeTypeOK
    PROVE  /\ Buf \in Seq(Byte) /\ Len(Buf) \in Nat /\ Len(Buf) <= Len(Input)
           /\ \A n \in 1 .. Len(Buf) : Buf[n] = Input[n]
<1> DEFINE m == IF Len(Input) < BufSize THEN Len(Input) ELSE BufSize
<1>1. Input \in Seq(Byte) /\ Len(Input) \in Nat
  BY InputFacts
<1>2. m \in Nat /\ m <= Len(Input)
  BY <1>1, PipeAssumption
<1>3. Buf = SubSeq(Input, 1, m)
  BY DEF Buf
<1> HIDE DEF m
<1>4. \A n \in 1 .. m : Input[n] \in Byte
  BY <1>1, <1>2
<1>5. /\ Buf \in Seq(Byte) /\ Len(Buf) = IF 1 <= m THEN m - 1 + 1 ELSE 0
      /\ \A n \in 1 .. m - 1 + 1 : Buf[n] = Input[1 + n - 1]
  BY <1>2, <1>3, <1>4, SubSeqProperties
<1>6. Len(Buf) = m
  BY <1>2, <1>5
<1>7. \A n \in 1 .. Len(Buf) : Buf[n] = Input[n]
  BY <1>2, <1>5, <1>6
<1> QED BY <1>2, <1>5, <1>6, <1>7

\* A command is recognised only at its head.
LEMMA ParseFacts ==
    ASSUME NEW buf \in Seq(Byte)
    PROVE  \/ Parse(buf) = None
           \/ /\ Len(buf) >= 1 /\ buf[1] = <<Parse(buf), 1>> /\ Parse(buf) \in Command
<1>1. CASE Parse(buf) # None
  <2>1. buf # <<>> /\ buf[1][2] = 1 /\ Parse(buf) = buf[1][1]
    BY <1>1 DEF Parse
  <2>2. Len(buf) \in Nat /\ Len(buf) # 0
    BY <2>1, EmptySeq, LenProperties
  <2>3. buf[1] \in Byte
    BY <2>2
  <2> QED BY <2>1, <2>2, <2>3 DEF Byte
<1> QED BY <1>1

\* What is left in the FIFO after a read is its end.
LEMMA ConsumeFacts ==
    ASSUME PipeTypeOK, Consume
    PROVE  /\ fifo' \in Seq(Byte) /\ pos' \in Nat
           /\ \E k \in 0 .. Len(fifo) :
                 Len(fifo') = Len(fifo) - k /\ \A n \in 1 .. Len(fifo') : fifo'[n] = fifo[n + k]
<1>1. fifo \in Seq(Byte) /\ Len(fifo) \in Nat /\ pos \in Nat
  BY LenProperties DEF PipeTypeOK, Byte
<1>2. CASE opened = "fifo"
  <2> DEFINE k == Len(Buf)
  <2>1. k \in 0 .. Len(fifo)
    BY <1>1, <1>2, BufFacts, InputFacts
  <2>2. fifo' = SubSeq(fifo, k + 1, Len(fifo)) /\ pos' = pos
    BY <1>2 DEF Consume
  <2> HIDE DEF k
  <2>3. \A n \in k + 1 .. Len(fifo) : fifo[n] \in Byte
    BY <1>1, <2>1
  <2>4. /\ fifo' \in Seq(Byte)
        /\ Len(fifo') = IF k + 1 <= Len(fifo) THEN Len(fifo) - (k + 1) + 1 ELSE 0
        /\ \A n \in 1 .. Len(fifo) - (k + 1) + 1 : fifo'[n] = fifo[(k + 1) + n - 1]
    BY <1>1, <2>1, <2>2, <2>3, SubSeqProperties
  <2>5. Len(fifo') = Len(fifo) - k
    BY <1>1, <2>1, <2>4
  <2>6. \A n \in 1 .. Len(fifo') : fifo'[n] = fifo[n + k]
    <3> SUFFICES ASSUME NEW n \in 1 .. Len(fifo') PROVE fifo'[n] = fifo[n + k]
      OBVIOUS
    <3>1. n \in 1 .. Len(fifo) - (k + 1) + 1 /\ (k + 1) + n - 1 = n + k
      BY <1>1, <2>1, <2>5
    <3> QED BY <2>4, <3>1
  <2> QED BY <1>1, <2>1, <2>2, <2>4, <2>5, <2>6
<1>3. CASE opened # "fifo"
  <2>1. fifo' = fifo /\ pos' = pos + Len(Buf)
    BY <1>3 DEF Consume
  <2>2. 0 \in 0 .. Len(fifo) /\ Len(fifo') = Len(fifo) - 0 /\ \A n \in 1 .. Len(fifo') : fifo'[n] = fifo[n + 0]
    BY <1>1, <2>1
  <2>3. pos' \in Nat
    BY <1>1, <2>1, BufFacts
  <2> QED BY <1>1, <2>1, <2>2, <2>3
<1> QED BY <1>2, <1>3

-----------------------------------------------------------------------------
(* Types                                                                   *)

\* When the server goes down.
LEMMA DownTyped ==
    ASSUME PipeTypeOK, Down, path' \in {"none", "fifo", "file"}, file' \in Command \cup {None}, shutdowns' \in Nat
    PROVE  PipeTypeOK'
<1> USE PipeAssumption
<1>1. <<>> \in Seq(Command \X Nat)
  BY EmptySeq
<1>2. 1 .. conns \subseteq Conn
  BY DEF PipeTypeOK, Conn
<1>3. 1 \in 1 .. Slots + 1
  OBVIOUS
<1> QED BY <1>1, <1>2, <1>3 DEF PipeTypeOK, Down

\* An echo and its bytes.
LEMMA EchoTyped ==
    ASSUME PipeTypeOK, CountOK, NEW c \in Command, Echo(c) \/ EchoGoesOn(c)
    PROVE  PipeTypeOK'
<1>1. fifo \o Bytes(c) \in Seq(Command \X Nat)
  BY BytesFacts, ConcatProperties DEF PipeTypeOK, Byte
<1>2. CASE Echo(c)
  <2>1. Cardinality(written) \in Nat
    BY FS_CardinalityType DEF CountOK
  <2>2. written' \subseteq Nat \X Command
    BY <1>2, <2>1 DEF PipeTypeOK, Echo
  <2>3. /\ path' \in {"none", "fifo", "file"} /\ fifo' \in Seq(Command \X Nat)
        /\ file' \in Command \cup {None} /\ waiting' \subseteq Command
    BY <1>1, <1>2 DEF PipeTypeOK, Echo
  <2> QED BY <1>2, <2>2, <2>3 DEF PipeTypeOK, Echo, adminVars, connVars
<1>3. CASE EchoGoesOn(c)
  BY <1>1, <1>3 DEF PipeTypeOK, EchoGoesOn, adminVars, connVars, countVars
<1> QED BY <1>2, <1>3

LEMMA SlotTyped ==
    ASSUME PipeTypeOK, NEW p, NEW s \in FirstSlot(p)
    PROVE  s \in 1 .. Slots /\ table[s] \in Conn \cup {0} /\ PidAt(s) = p
BY DEF FirstSlot, PipeTypeOK

LEMMA ClientsTyped ==
    ASSUME PipeTypeOK, (\E p \in Pid, ghost \in BOOLEAN : Accept(p, ghost)) \/ (\E c \in Conn : CollectClient(c))
    PROVE  PipeTypeOK'
<1> USE PipeAssumption
<1>1. ASSUME NEW p \in Pid, NEW ghost \in BOOLEAN, Accept(p, ghost) PROVE PipeTypeOK'
  <2>1. conns' \in 0 .. MaxConns /\ conns' \in Conn
    BY <1>1 DEF PipeTypeOK, Accept, Conn
  <2>2. ended' \subseteq Conn /\ pidOf' \in [Conn -> Pid \cup {0}]
    BY <1>1, <2>1 DEF PipeTypeOK, Accept
  <2>3. table' \in [1 .. Slots -> Conn \cup {0}]
    BY <1>1, <2>1, SlotTyped DEF PipeTypeOK, Accept
  <2> QED BY <1>1, <2>1, <2>2, <2>3 DEF PipeTypeOK, Accept, pipeVars, adminVars, countVars
<1>2. ASSUME NEW c \in Conn, CollectClient(c) PROVE PipeTypeOK'
  <2>1. table' \in [1 .. Slots -> Conn \cup {0}] /\ pC' \in Conn \cup {0}
    BY <1>2, SlotTyped DEF PipeTypeOK, CollectClient
  <2> QED BY <1>2, <2>1 DEF PipeTypeOK, CollectClient, pipeVars, countVars
<1> QED BY <1>1, <1>2

LEMMA AdminTyped == PipeTypeOK /\ AdminStep => PipeTypeOK'
<1> SUFFICES ASSUME PipeTypeOK, AdminStep PROVE PipeTypeOK'
    OBVIOUS
<1> USE PipeAssumption
<1>1. CASE AdminShutdown
  <2>1. path' \in {"none", "fifo", "file"} /\ file' \in Command \cup {None} /\ shutdowns' \in Nat /\ Down
    BY <1>1 DEF AdminShutdown, PipeTypeOK
  <2> QED BY <2>1, DownTyped
<1>2. CASE ListCrash \/ SendKilled
  <2>1. path' \in {"none", "fifo", "file"} /\ file' \in Command \cup {None} /\ shutdowns' \in Nat /\ Down
    BY <1>2 DEF ListCrash, SendKilled, PipeTypeOK
  <2> QED BY <2>1, DownTyped
<1>3. CASE AdminRead
  <2>1. cmd' \in Command \cup {None}
    BY <1>3, BufFacts, ParseFacts DEF AdminRead
  <2>2. fifo' \in Seq(Command \X Nat) /\ pos' \in Nat
    BY <1>3, ConsumeFacts DEF AdminRead, Byte
  <2>3. apc' \in {"select", "list", "find"} /\ slot' \in 1 .. Slots + 1
    BY <1>3 DEF AdminRead
  <2> QED BY <1>3, <2>1, <2>2, <2>3 DEF PipeTypeOK, AdminRead, connVars, countVars
<1>4. CASE ListLoad
  <2>1. slot' \in 1 .. Slots + 1 /\ pC' \in Conn \cup {0} /\ apc' \in {"list", "print"}
    BY <1>4 DEF PipeTypeOK, ListLoad
  <2> QED BY <1>4, <2>1 DEF PipeTypeOK, ListLoad, pipeVars, connVars, countVars
<1>5. CASE ListPrint \/ ListDone \/ SendClose
  BY <1>5 DEF PipeTypeOK, ListPrint, ListDone, SendClose, pipeVars, connVars, countVars
<1>6. CASE FindClient
  <2>1. pC' \in Conn \cup {0} /\ apc' \in {"send", "select"}
    BY <1>6, SlotTyped DEF FindClient
  <2> QED BY <1>6, <2>1 DEF PipeTypeOK, FindClient, pipeVars, connVars, countVars
<1> QED BY <1>1, <1>2, <1>3, <1>4, <1>5, <1>6 DEF AdminStep

LEMMA PipeTypeNext == PipeTypeOK /\ CountOK /\ [PipeNext]_adminPipeVars => PipeTypeOK'
<1> SUFFICES ASSUME PipeTypeOK, CountOK, [PipeNext]_adminPipeVars PROVE PipeTypeOK'
    OBVIOUS
<1>1. CASE OpenAdminPipe
  <2>1. <<>> \in Seq(Command \X Nat)
    BY EmptySeq
  <2> QED BY <1>1, <2>1, PipeAssumption DEF PipeTypeOK, OpenAdminPipe, adminVars, connVars
<1>2. CASE Terminate
  <2>1. path' \in {"none", "fifo", "file"} /\ file' \in Command \cup {None} /\ shutdowns' \in Nat /\ Down
    BY <1>2 DEF Terminate, PipeTypeOK
  <2> QED BY <2>1, DownTyped
<1>3. CASE UNCHANGED adminPipeVars
  BY <1>3 DEF PipeTypeOK, adminPipeVars, pipeVars, adminVars, connVars, countVars
<1> QED BY <1>1, <1>2, <1>3, EchoTyped, ClientsTyped, AdminTyped DEF PipeNext

-----------------------------------------------------------------------------
(* The table and the walk through it                                       *)

LEMMA DownIsDown ==
    ASSUME AdminShutdown \/ Terminate \/ ListCrash \/ SendKilled
    PROVE  Down
BY DEF AdminShutdown, Terminate, ListCrash, SendKilled

\* A connection is entered once, under a number no slot holds.
LEMMA TableNext == PipeTypeOK /\ TableOK /\ [PipeNext]_adminPipeVars => TableOK'
<1> SUFFICES ASSUME PipeTypeOK, TableOK, [PipeNext]_adminPipeVars PROVE TableOK'
    OBVIOUS
<1> USE PipeAssumption
<1>1. conns \in Nat /\ table \in [1 .. Slots -> Conn \cup {0}]
  BY DEF PipeTypeOK
<1>2. ASSUME UNCHANGED <<table, conns, told>>, pC' \in {pC, 0} PROVE TableOK'
  BY <1>1, <1>2 DEF TableOK
<1>3. CASE Down
  BY <1>1, <1>3 DEF TableOK, Down
<1>4. ASSUME NEW p \in Pid, NEW ghost \in BOOLEAN, Accept(p, ghost) PROVE TableOK'
  <2>1. PICK s \in FirstSlot(0) : table' = [table EXCEPT ![s] = conns']
    BY <1>4 DEF Accept
  <2>2. s \in 1 .. Slots /\ conns' = conns + 1 /\ told' = told /\ pC' = pC
    BY <1>4, SlotTyped DEF Accept, adminVars
  <2>3. \A r \in 1 .. Slots : table'[r] = IF r = s THEN conns + 1 ELSE table[r]
    BY <1>1, <2>1, <2>2
  <2>4. \A r \in 1 .. Slots : table[r] # conns + 1
    BY <1>1 DEF TableOK
  <2>5. \A r \in 1 .. Slots : table'[r] \in 0 .. conns + 1
    BY <1>1, <2>3 DEF TableOK
  <2>6. \A r, q \in 1 .. Slots : table'[r] # 0 /\ table'[r] = table'[q] => r = q
    BY <2>3, <2>4 DEF TableOK
  <2>7. told' \subseteq 1 .. conns + 1 /\ pC' \in 0 .. conns + 1
    BY <1>1, <2>2 DEF TableOK
  <2> QED BY <2>2, <2>5, <2>6, <2>7 DEF TableOK
<1>5. ASSUME NEW c \in Conn, CollectClient(c) PROVE TableOK'
  <2>1. PICK s \in FirstSlot(pidOf[c]) :
           table' = [table EXCEPT ![s] = 0] /\ pC' = IF pC = table[s] THEN 0 ELSE pC
    BY <1>5 DEF CollectClient
  <2>2. s \in 1 .. Slots /\ conns' = conns /\ told' = told
    BY <1>5, SlotTyped DEF CollectClient
  <2>3. \A r \in 1 .. Slots : table'[r] = IF r = s THEN 0 ELSE table[r]
    BY <1>1, <2>1, <2>2
  <2> QED BY <1>1, <2>1, <2>2, <2>3 DEF TableOK
<1>6. CASE AdminRead
  BY <1>2, <1>6 DEF AdminRead, connVars
<1>7. CASE ListLoad
  <2>1. UNCHANGED <<table, conns, told>> /\ slot \in 1 .. Slots /\ pC' = table[slot]
    BY <1>7 DEF ListLoad, connVars, PipeTypeOK
  <2> QED BY <2>1 DEF TableOK
<1>8. CASE ListPrint \/ ListDone
  BY <1>2, <1>8 DEF ListPrint, ListDone, connVars
<1>9. CASE FindClient
  <2>1. UNCHANGED <<table, conns, told>> /\ (pC' = 0 \/ \E s \in 1 .. Slots : pC' = table[s])
    BY <1>9, SlotTyped DEF FindClient, connVars
  <2> QED BY <1>1, <2>1 DEF TableOK
<1>10. CASE SendClose
  BY <1>1, <1>10 DEF SendClose, TableOK, connVars
<1>11. ASSUME NEW c \in Command, Echo(c) \/ EchoGoesOn(c) PROVE TableOK'
  BY <1>2, <1>11 DEF Echo, EchoGoesOn, adminVars, connVars
<1>12. CASE OpenAdminPipe \/ UNCHANGED adminPipeVars
  BY <1>2, <1>12 DEF OpenAdminPipe, adminPipeVars, adminVars, connVars
<1> QED BY <1>3, <1>4, <1>5, <1>6, <1>7, <1>8, <1>9, <1>10, <1>11, <1>12, DownIsDown DEF PipeNext, AdminStep

\* A client that is collected leaves the slots the walk has passed, and the hand
\* of the walk when it is the one it holds.
LEMMA WalkNext == PipeTypeOK /\ TableOK /\ WalkOK /\ [PipeNext]_adminPipeVars => WalkOK'
<1> SUFFICES ASSUME PipeTypeOK, TableOK, WalkOK, [PipeNext]_adminPipeVars PROVE WalkOK'
    OBVIOUS
<1> USE PipeAssumption DEF WalkOK, ListingComplete
<1>1. slot \in 1 .. Slots + 1 /\ table \in [1 .. Slots -> Conn \cup {0}]
  BY DEF PipeTypeOK
<1>2. CASE apc' \notin {"list", "print"}
  BY <1>2
<1>3. CASE UNCHANGED <<apc, slot, table, printed, pC>>
  BY <1>3
<1>4. CASE AdminRead
  BY <1>4 DEF AdminRead
<1>5. ASSUME NEW c \in Conn, CollectClient(c) PROVE WalkOK'
  <2>1. PICK s \in FirstSlot(pidOf[c]) :
           table' = [table EXCEPT ![s] = 0] /\ pC' = IF pC = table[s] THEN 0 ELSE pC
    BY <1>5 DEF CollectClient
  <2>2. s \in 1 .. Slots /\ UNCHANGED <<apc, slot, printed>>
    BY <1>5, SlotTyped DEF CollectClient
  <2>3. \A r \in 1 .. Slots : table'[r] = IF r = s THEN 0 ELSE table[r]
    BY <1>1, <2>1, <2>2
  <2>4. \A r \in 1 .. slot - 1 : r \in 1 .. Slots
    BY <1>1
  <2>5. CASE apc = "list"
    BY <2>2, <2>3, <2>4, <2>5
  <2>6. CASE apc = "print"
    <3>1. slot - 1 \in 1 .. Slots /\ \A r \in 1 .. slot - 2 : r \in 1 .. Slots
      BY <1>1, <2>6
    <3>2. table'[slot - 1] \in {0, pC'}
      <4>1. CASE s = slot - 1
        BY <2>3, <3>1, <4>1
      <4>2. CASE s # slot - 1
        <5>1. table'[slot - 1] = table[slot - 1] /\ table[slot - 1] \in {0, pC}
          BY <2>3, <2>6, <3>1, <4>2
        <5>2. table[slot - 1] # 0 => table[s] # table[slot - 1]
          BY <2>2, <3>1, <4>2 DEF TableOK
        <5> QED BY <2>1, <5>1, <5>2
      <4> QED BY <4>1, <4>2
    <3>3. \A r \in 1 .. slot - 2 : table'[r] \in printed \cup {0}
      BY <2>3, <2>6, <3>1
    <3> QED BY <2>2, <2>6, <3>2, <3>3
  <2>7. CASE apc \notin {"list", "print"}
    BY <2>2, <2>7
  <2> QED BY <2>5, <2>6, <2>7
<1>6. CASE ListLoad
  <2>1. /\ slot \in 1 .. Slots /\ slot' = slot + 1 /\ pC' = table[slot] /\ table' = table /\ printed' = printed
        /\ apc = "list" /\ apc' = IF table[slot] = 0 THEN "list" ELSE "print"
    BY <1>1, <1>6 DEF ListLoad, connVars
  <2>2. \A r \in 1 .. slot - 1 : table[r] \in printed \cup {0}
    BY <2>1
  <2>3. slot' > 1 /\ slot' - 1 = slot /\ slot' - 2 = slot - 1
    BY <2>1
  <2>4. CASE table[slot] = 0
    <3>1. \A r \in 1 .. slot : r \in 1 .. slot - 1 \/ r = slot
      BY <2>1
    <3>2. \A r \in 1 .. slot : table[r] \in printed \cup {0}
      BY <2>2, <2>4, <3>1
    <3> QED BY <2>1, <2>3, <2>4, <3>2
  <2>5. CASE table[slot] # 0
    BY <2>1, <2>2, <2>3, <2>5
  <2> QED BY <2>4, <2>5
<1>7. CASE ListPrint
  <2>1. /\ apc = "print" /\ apc' = "list" /\ slot' = slot /\ table' = table
        /\ printed' = IF pC = 0 THEN printed ELSE printed \cup {pC}
    BY <1>7 DEF ListPrint, connVars
  <2>2. \A r \in 1 .. slot - 1 : r \in 1 .. slot - 2 \/ r = slot - 1
    BY <1>1, <2>1
  <2>3. \A r \in 1 .. slot - 1 : table[r] \in printed' \cup {0}
    BY <2>1, <2>2
  <2> QED BY <2>1, <2>3
<1>8. CASE ListDone \/ SendClose \/ FindClient
  BY <1>2, <1>8 DEF ListDone, SendClose, FindClient
<1>9. ASSUME NEW p \in Pid, NEW ghost \in BOOLEAN, Accept(p, ghost) PROVE WalkOK'
  BY <1>2, <1>9 DEF Accept, adminVars
<1>10. ASSUME NEW c \in Command, Echo(c) \/ EchoGoesOn(c) PROVE WalkOK'
  BY <1>3, <1>10 DEF Echo, EchoGoesOn, adminVars, connVars
<1>11. CASE OpenAdminPipe \/ UNCHANGED adminPipeVars
  BY <1>3, <1>11 DEF OpenAdminPipe, adminPipeVars, adminVars, connVars
<1>12. CASE Down
  BY <1>2, <1>12 DEF Down
<1> QED BY <1>4, <1>5, <1>6, <1>7, <1>8, <1>9, <1>10, <1>11, <1>12, DownIsDown DEF PipeNext, AdminStep

-----------------------------------------------------------------------------
(* Commands                                                                *)

\* What joins the FIFO is one written command.
LEMMA JoinFacts ==
    ASSUME PipeTypeOK, NEW c \in Command, fifo' = fifo \o Bytes(c)
    PROVE  /\ Len(fifo) \in Nat /\ Len(fifo') \in Nat
           /\ \A n \in 1 .. Len(fifo') : \/ n \in 1 .. Len(fifo) /\ fifo'[n] = fifo[n]
                                         \/ n > Len(fifo) /\ fifo'[n] = <<c, n - Len(fifo)>>
           /\ \A n \in 1 .. Len(fifo) : n \in 1 .. Len(fifo') /\ fifo'[n] = fifo[n]
           /\ \A n \in 1 .. Len(fifo') : fifo'[n][1] = c \/ (n \in 1 .. Len(fifo) /\ fifo'[n][1] = fifo[n][1])
<1>1. fifo \in Seq(Byte) /\ Len(fifo) \in Nat
  BY LenProperties DEF PipeTypeOK, Byte
<1>2. Bytes(c) \in Seq(Byte) /\ Len(Bytes(c)) \in Nat /\ \A n \in 1 .. Len(Bytes(c)) : Bytes(c)[n] = <<c, n>>
  BY BytesFacts
<1> DEFINE b == Bytes(c)
<1> HIDE DEF b
<1>3. Len(fifo') = Len(fifo) + Len(b)
  BY <1>1, <1>2, ConcatProperties DEF b
<1>4. \A n \in 1 .. Len(fifo) : fifo'[n] = fifo[n]
  BY <1>1, <1>2, ConcatProperties DEF b
<1>5. \A n \in Len(fifo) + 1 .. Len(fifo) + Len(b) : fifo'[n] = b[n - Len(fifo)]
  BY <1>1, <1>2, ConcatProperties DEF b
<1>6. ASSUME NEW n \in 1 .. Len(fifo')
      PROVE  \/ n \in 1 .. Len(fifo) /\ fifo'[n] = fifo[n]
             \/ n > Len(fifo) /\ fifo'[n] = <<c, n - Len(fifo)>>
  <2>1. CASE n \in 1 .. Len(fifo)
    BY <1>4, <2>1
  <2>2. CASE n \notin 1 .. Len(fifo)
    <3>1. /\ n > Len(fifo) /\ n \in Len(fifo) + 1 .. Len(fifo) + Len(b)
          /\ n - Len(fifo) \in 1 .. Len(Bytes(c))
      BY <1>1, <1>2, <1>3, <2>2 DEF b
    <3> QED BY <1>2, <1>5, <3>1 DEF b
  <2> QED BY <2>1, <2>2
<1>7. Len(fifo') \in Nat /\ \A n \in 1 .. Len(fifo) : n \in 1 .. Len(fifo')
  BY <1>1, <1>2, <1>3 DEF b
<1>8. ASSUME NEW n \in 1 .. Len(fifo')
      PROVE  fifo'[n][1] = c \/ (n \in 1 .. Len(fifo) /\ fifo'[n][1] = fifo[n][1])
  <2>1. CASE fifo'[n] = <<c, n - Len(fifo)>>
    BY <2>1
  <2> QED BY <1>6, <2>1
<1> QED BY <1>1, <1>4, <1>6, <1>7, <1>8

LEMMA KnownNext == PipeTypeOK /\ KnownOK /\ [PipeNext]_adminPipeVars => KnownOK'
<1> SUFFICES ASSUME PipeTypeOK, KnownOK, [PipeNext]_adminPipeVars PROVE KnownOK'
    OBVIOUS
<1> USE DEF Known
<1>1. ASSUME UNCHANGED <<written, fifo, waiting, file, cmd>>, apc' # "find" \/ apc' = apc PROVE KnownOK'
  BY <1>1 DEF KnownOK
<1>2. ASSUME NEW c \in Command, Echo(c) PROVE KnownOK'
  <2>1. Known \subseteq Known' /\ c \in Known'
    BY <1>2 DEF Echo
  <2>2. UNCHANGED <<cmd, apc>>
    BY <1>2 DEF Echo, adminVars
  <2>3. waiting' \subseteq Known' /\ file' \in Known' \cup {None}
    <3> HIDE DEF Known
    <3> QED BY <1>2, <2>1 DEF Echo, KnownOK
  <2>4. \A n \in 1 .. Len(fifo') : fifo'[n][1] \in Known'
    <3>1. CASE fifo' = fifo
      BY <2>1, <3>1 DEF KnownOK
    <3>2. CASE fifo' = fifo \o Bytes(c)
      <4>1. \A n \in 1 .. Len(fifo') : fifo'[n][1] = c \/ (n \in 1 .. Len(fifo) /\ fifo'[n][1] = fifo[n][1])
        BY <3>2, JoinFacts
      <4> HIDE DEF Known
      <4> QED BY <2>1, <4>1 DEF KnownOK
    <3> QED BY <1>2, <3>1, <3>2 DEF Echo
  <2> QED BY <2>1, <2>2, <2>3, <2>4 DEF KnownOK
<1>3. ASSUME NEW c \in Command, EchoGoesOn(c) PROVE KnownOK'
  <2>1. Known' = Known /\ c \in Known /\ UNCHANGED <<cmd, apc, file>> /\ waiting' \subseteq waiting
    BY <1>3 DEF EchoGoesOn, KnownOK, adminVars, countVars
  <2>2. \A n \in 1 .. Len(fifo') : fifo'[n][1] \in Known
    <3>1. \A n \in 1 .. Len(fifo') : fifo'[n][1] = c \/ (n \in 1 .. Len(fifo) /\ fifo'[n][1] = fifo[n][1])
      BY <1>3, JoinFacts DEF EchoGoesOn
    <3> HIDE DEF Known
    <3> QED BY <2>1, <3>1 DEF KnownOK
  <2> QED BY <2>1, <2>2 DEF KnownOK
<1>4. CASE OpenAdminPipe
  <2>1. \A n \in 1 .. Len(fifo') : fifo'[n][1] \in Known'
    BY <1>4, EmptySeq DEF OpenAdminPipe
  <2> QED BY <1>4, <2>1 DEF OpenAdminPipe, KnownOK, adminVars
<1>5. ASSUME Down, file' \in {file, None} PROVE KnownOK'
  <2>1. \A n \in 1 .. Len(fifo') : fifo'[n][1] \in Known'
    BY <1>5, EmptySeq DEF Down
  <2> QED BY <1>5, <2>1 DEF Down, KnownOK
<1>6. CASE AdminRead
  <2>1. Known' = Known /\ UNCHANGED <<waiting, file>>
    BY <1>6 DEF AdminRead, countVars
  <2>2. \E k \in 0 .. Len(fifo) :
           Len(fifo') = Len(fifo) - k /\ \A n \in 1 .. Len(fifo') : fifo'[n] = fifo[n + k]
    BY <1>6, ConsumeFacts DEF AdminRead
  <2>3. Len(fifo) \in Nat
    BY LenProperties DEF PipeTypeOK
  <2>4. \A n \in 1 .. Len(fifo') : fifo'[n][1] \in Known'
    <3>1. PICK k \in 0 .. Len(fifo) :
             Len(fifo') = Len(fifo) - k /\ \A n \in 1 .. Len(fifo') : fifo'[n] = fifo[n + k]
      BY <2>2
    <3>2. \A n \in 1 .. Len(fifo') : n + k \in 1 .. Len(fifo)
      BY <2>3, <3>1
    <3> QED BY <2>1, <3>1, <3>2 DEF KnownOK
  <2>5. cmd' = None \/ (Len(Buf) >= 1 /\ Buf[1] = <<cmd', 1>>)
    BY <1>6, BufFacts, ParseFacts DEF AdminRead
  <2>6. cmd' \in Known \cup {None}
    <3>1. CASE Len(Buf) >= 1 /\ Buf[1] = <<cmd', 1>>
      <4>1. Len(Input) \in Nat /\ 1 \in 1 .. Len(Input) /\ Input[1] = <<cmd', 1>> /\ Input # <<>>
        BY <3>1, BufFacts, InputFacts, EmptySeq
      <4>2. opened = "fifo" => cmd' \in Known
        BY <4>1, InputFacts DEF KnownOK
      <4>3. opened # "fifo" => cmd' = file
        BY <4>1, InputFacts
      <4> QED BY <4>2, <4>3 DEF KnownOK
    <3> QED BY <2>5, <3>1
  <2>7. apc' = "find" => cmd'.op = "close"
    BY <1>6 DEF AdminRead
  <2> QED BY <2>1, <2>4, <2>6, <2>7 DEF KnownOK
<1>7. CASE ListLoad \/ ListPrint \/ ListDone \/ FindClient \/ SendClose
  BY <1>1, <1>7 DEF ListLoad, ListPrint, ListDone, FindClient, SendClose, pipeVars, countVars
<1>8. (\E p \in Pid, ghost \in BOOLEAN : Accept(p, ghost)) \/ (\E c \in Conn : CollectClient(c)) => KnownOK'
  BY <1>1 DEF Accept, CollectClient, pipeVars, adminVars, countVars
<1>9. CASE UNCHANGED adminPipeVars
  BY <1>1, <1>9 DEF adminPipeVars, pipeVars, adminVars, countVars
<1>10. CASE AdminShutdown \/ Terminate \/ ListCrash \/ SendKilled
  <2>1. Down /\ file' \in {file, None}
    BY <1>10 DEF AdminShutdown, Terminate, ListCrash, SendKilled
  <2> QED BY <1>5, <2>1
<1> QED BY <1>2, <1>3, <1>4, <1>6, <1>7, <1>8, <1>9, <1>10 DEF PipeNext, AdminStep

\* A pid is given to a number nobody was told about yet.
LEMMA CloseNext == PipeTypeOK /\ TableOK /\ KnownOK /\ CloseOK /\ [PipeNext]_adminPipeVars => CloseOK'
<1> SUFFICES ASSUME PipeTypeOK, TableOK, KnownOK, CloseOK, [PipeNext]_adminPipeVars PROVE CloseOK'
    OBVIOUS
<1> USE PipeAssumption DEF OnlyAskedClosed, Named
<1>1. ASSUME written \subseteq written', UNCHANGED <<pidOf, told>>,
             apc' = "send" => (apc = "send" /\ pC' \in {pC, 0})
      PROVE  CloseOK'
  BY <1>1 DEF CloseOK
<1>2. ASSUME NEW p \in Pid, NEW ghost \in BOOLEAN, Accept(p, ghost) PROVE CloseOK'
  <2>1. conns \in Nat /\ conns' = conns + 1 /\ pidOf' = [pidOf EXCEPT ![conns + 1] = p] /\ pidOf \in [Conn -> Pid \cup {0}]
    BY <1>2 DEF Accept, PipeTypeOK
  <2>2. UNCHANGED <<written, told, pC, apc>> /\ apc = "select"
    BY <1>2 DEF Accept, adminVars, countVars
  <2>3. \A c \in told : pidOf'[c] = pidOf[c]
    BY <2>1 DEF TableOK, PipeTypeOK
  <2> QED BY <2>2, <2>3 DEF CloseOK
<1>3. CASE FindClient
  <2>1. UNCHANGED <<written, pidOf, told>> /\ apc = "find"
    BY <1>3 DEF FindClient, connVars, countVars
  <2>2. apc' = "send" /\ pC' # 0 => Named(pC')
    <3> SUFFICES ASSUME apc' = "send", pC' # 0 PROVE Named(pC')
      OBVIOUS
    <3>1. PICK s \in FirstSlot(cmd.pid) : pC' = table[s]
      BY <1>3 DEF FindClient
    <3>2. pidOf[pC'] = cmd.pid
      BY <3>1, SlotTyped DEF PidAt
    <3>3. cmd.op = "close" /\ cmd \in Known \cup {None}
      BY <2>1 DEF KnownOK
    <3>4. cmd # None
      BY <3>3, CommandFacts
    <3> QED BY <3>2, <3>3, <3>4 DEF Known
  <2> QED BY <2>1, <2>2 DEF CloseOK
<1>4. CASE SendClose
  <2>1. UNCHANGED <<written, pidOf>> /\ apc = "send" /\ apc' = "select"
        /\ told' = IF pC = 0 THEN told ELSE told \cup {pC}
    BY <1>4 DEF SendClose, connVars, countVars
  <2> QED BY <2>1 DEF CloseOK
<1>5. ASSUME NEW c \in Conn, CollectClient(c) PROVE CloseOK'
  BY <1>1, <1>5 DEF CollectClient, countVars
<1>6. ASSUME NEW c \in Command, Echo(c) \/ EchoGoesOn(c) PROVE CloseOK'
  BY <1>1, <1>6 DEF Echo, EchoGoesOn, adminVars, connVars, countVars
<1>7. CASE Down
  BY <1>1, <1>7 DEF Down
<1>8. CASE OpenAdminPipe \/ UNCHANGED adminPipeVars
  BY <1>1, <1>8 DEF OpenAdminPipe, adminPipeVars, adminVars, connVars, countVars
<1>9. CASE AdminRead \/ ListLoad \/ ListPrint \/ ListDone
  BY <1>1, <1>9 DEF AdminRead, ListLoad, ListPrint, ListDone, connVars, countVars
<1> QED BY <1>2, <1>3, <1>4, <1>5, <1>6, <1>7, <1>8, <1>9, DownIsDown DEF PipeNext, AdminStep

-----------------------------------------------------------------------------
(* Shutdowns                                                               *)

LEMMA HeadsFinite ==
    ASSUME PipeTypeOK
    PROVE  Len(fifo) \in Nat /\ IsFiniteSet(Heads) /\ Cardinality(Heads) \in Nat
<1>1. Len(fifo) \in Nat
  BY LenProperties DEF PipeTypeOK
<1>2. IsFiniteSet(1 .. Len(fifo))
  BY <1>1, FS_Interval
<1> QED BY <1>1, <1>2, FS_Subset, FS_CardinalityType DEF Heads

LEMMA AsksFinite ==
    ASSUME CountOK
    PROVE  /\ IsFiniteSet(Asks) /\ Cardinality(Asks) \in Nat
           /\ IsFiniteSet(written) /\ Cardinality(written) \in Nat
BY FS_Subset, FS_CardinalityType DEF CountOK, Asks

\* A command that joins adds a head if it is a shutdown.
LEMMA HeadsJoin ==
    ASSUME PipeTypeOK, NEW c \in Command, fifo' = fifo \o Bytes(c)
    PROVE  /\ Cardinality(Heads') \in Nat
           /\ Cardinality(Heads') <= Cardinality(Heads) + (IF c = SD THEN 1 ELSE 0)
<1>1. Len(fifo) \in Nat /\ IsFiniteSet(Heads) /\ Cardinality(Heads) \in Nat
  BY HeadsFinite
<1> DEFINE more == IF c = SD THEN Heads \cup {Len(fifo) + 1} ELSE Heads
<1>2. Heads' \subseteq more
  <2> SUFFICES ASSUME NEW n \in Heads' PROVE n \in more
    OBVIOUS
  <2>1. n \in 1 .. Len(fifo') /\ fifo'[n] = <<SD, 1>> /\ n \in Int
    BY <1>1, JoinFacts DEF Heads
  <2>2. CASE n \in 1 .. Len(fifo) /\ fifo'[n] = fifo[n]
    BY <2>1, <2>2 DEF Heads
  <2>3. CASE n > Len(fifo) /\ fifo'[n] = <<c, n - Len(fifo)>>
    <3>1. c = SD /\ n - Len(fifo) = 1
      BY <2>1, <2>3
    <3>2. n = Len(fifo) + 1
      BY <1>1, <2>1, <3>1
    <3> QED BY <3>1, <3>2
  <2> QED BY <2>1, <2>2, <2>3, JoinFacts
<1>3. /\ IsFiniteSet(more) /\ Cardinality(more) \in Nat
      /\ Cardinality(more) <= Cardinality(Heads) + (IF c = SD THEN 1 ELSE 0)
  <2>1. CASE c = SD
    <3>1. /\ IsFiniteSet(Heads \cup {Len(fifo) + 1})
          /\ Cardinality(Heads \cup {Len(fifo) + 1}) = IF Len(fifo) + 1 \in Heads THEN Cardinality(Heads) ELSE Cardinality(Heads) + 1
      BY <1>1, FS_AddElement
    <3> QED BY <1>1, <2>1, <3>1
  <2>2. CASE c # SD
    BY <1>1, <2>2
  <2> QED BY <2>1, <2>2
<1> HIDE DEF more
<1>4. IsFiniteSet(Heads') /\ Cardinality(Heads') <= Cardinality(more)
  BY <1>2, <1>3, FS_Subset
<1>5. Cardinality(Heads') \in Nat
  BY <1>4, FS_CardinalityType
<1> QED BY <1>1, <1>3, <1>4, <1>5

\* What is read takes heads away.
LEMMA HeadsConsume ==
    ASSUME PipeTypeOK, Consume
    PROVE  Cardinality(Heads') \in Nat /\ Cardinality(Heads') <= Cardinality(Heads)
<1>1. Len(fifo) \in Nat /\ IsFiniteSet(Heads) /\ Cardinality(Heads) \in Nat
  BY HeadsFinite
<1>2. PICK k \in 0 .. Len(fifo) :
         Len(fifo') = Len(fifo) - k /\ \A n \in 1 .. Len(fifo') : fifo'[n] = fifo[n + k]
  BY ConsumeFacts
<1> DEFINE f == [n \in Heads' |-> n + k]
<1>3. \A n \in Heads' : n \in Int /\ n + k \in Heads
  <2> SUFFICES ASSUME NEW n \in Heads' PROVE n \in Int /\ n + k \in Heads
    OBVIOUS
  <2>1. n \in 1 .. Len(fifo') /\ fifo'[n] = <<SD, 1>>
    BY DEF Heads
  <2>2. n + k \in 1 .. Len(fifo) /\ n \in Int
    BY <1>1, <1>2, <2>1
  <2> QED BY <1>2, <2>1, <2>2 DEF Heads
<1>4. f \in [Heads' -> Heads]
  BY <1>3
<1>5. \A a, b \in Heads' : f[a] = f[b] => a = b
  BY <1>3
<1>6. f \in Injection(Heads', Heads)
  BY <1>4, <1>5 DEF Injection, IsInjective
<1>7. IsFiniteSet(Heads') /\ Cardinality(Heads') <= Cardinality(Heads)
  BY <1>1, <1>6, FS_Injection
<1> QED BY <1>7, FS_CardinalityType

\* A command that is written is one more, and asks at most once.
LEMMA WrittenMore ==
    ASSUME PipeTypeOK, CountOK, NEW c, written' = written \cup {<<Cardinality(written) + 1, c>>}
    PROVE  /\ IsFiniteSet(written') /\ \A w \in written' : w[1] <= Cardinality(written')
           /\ Cardinality(Asks') = IF c.op = "shutdown" THEN Cardinality(Asks) + 1 ELSE Cardinality(Asks)
<1> DEFINE new == <<Cardinality(written) + 1, c>>
<1>1. /\ IsFiniteSet(Asks) /\ Cardinality(Asks) \in Nat
      /\ IsFiniteSet(written) /\ Cardinality(written) \in Nat
  BY AsksFinite
<1>2. \A w \in written : w[1] <= Cardinality(written) /\ w[1] \in Nat
  BY DEF CountOK, PipeTypeOK
<1>3. new[1] = Cardinality(written) + 1 /\ new[2] = c
  OBVIOUS
<1> HIDE DEF new
<1>4. written' = written \cup {new}
  BY DEF new
<1>5. new \notin written
  BY <1>1, <1>2, <1>3
<1>6. IsFiniteSet(written') /\ Cardinality(written') = Cardinality(written) + 1
  <2>1. IsFiniteSet(written \cup {new}) /\ Cardinality(written \cup {new}) = Cardinality(written) + 1
    BY <1>1, <1>5, FS_AddElement
  <2> QED BY <1>4, <2>1
<1>7. \A w \in written' : w[1] <= Cardinality(written')
  BY <1>1, <1>2, <1>3, <1>4, <1>6
<1>8. CASE c.op = "shutdown"
  <2>1. Asks' = Asks \cup {new} /\ new \notin Asks
    BY <1>3, <1>4, <1>5, <1>8 DEF Asks
  <2> QED BY <1>1, <1>6, <1>7, <1>8, <2>1, FS_AddElement
<1>9. CASE c.op # "shutdown"
  <2>1. Asks' = Asks
    BY <1>3, <1>4, <1>9 DEF Asks
  <2> QED BY <1>6, <1>7, <1>9, <2>1
<1> QED BY <1>8, <1>9

\* A shutdown takes its own head, or its own file.
LEMMA ShutdownSpends ==
    ASSUME PipeTypeOK, Parse(Buf).op = "shutdown"
    PROVE  \/ opened = "fifo" /\ Cardinality(Heads) >= 1
           \/ opened # "fifo" /\ file = SD
<1>1. Len(Buf) >= 1 /\ Buf[1] = <<Parse(Buf), 1>> /\ Parse(Buf) \in Command
  BY BufFacts, ParseFacts, CommandFacts
<1>2. Buf[1] = <<SD, 1>>
  BY <1>1, CommandFacts
<1>3. Len(Input) \in Nat /\ 1 \in 1 .. Len(Input) /\ Input[1] = <<SD, 1>> /\ Input # <<>>
  BY <1>1, <1>2, BufFacts, InputFacts, EmptySeq
<1>4. CASE opened = "fifo"
  <2>1. 1 \in Heads
    BY <1>3, <1>4, InputFacts DEF Heads
  <2>2. Cardinality(Heads) # 0 /\ Cardinality(Heads) \in Nat
    BY <2>1, HeadsFinite, FS_EmptySet
  <2> QED BY <1>4, <2>2
<1>5. CASE opened # "fifo"
  BY <1>3, <1>5, InputFacts
<1> QED BY <1>4, <1>5

\* Whatever is merged, cut, kept or lost, every shutdown that can still happen has
\* a command of its own among those that have not caused one.
LEMMA CountNext == PipeTypeOK /\ CountOK /\ [PipeNext]_adminPipeVars => CountOK'
<1> SUFFICES ASSUME PipeTypeOK, CountOK, [PipeNext]_adminPipeVars PROVE CountOK'
    OBVIOUS
<1>1. Cardinality(Heads) \in Nat /\ shutdowns \in Nat /\ Cardinality(Asks) \in Nat
  BY HeadsFinite, AsksFinite DEF PipeTypeOK
<1>2. shutdowns + (Cardinality(Heads) + (IF SD \in waiting THEN 1 ELSE 0) + (IF file = SD THEN 1 ELSE 0))
         <= Cardinality(Asks)
  BY DEF CountOK, Coming
<1> DEFINE h == Cardinality(Heads')
<1>3. ASSUME UNCHANGED <<written, fifo, waiting, file, shutdowns>> PROVE CountOK'
  BY <1>3 DEF CountOK, Coming, Heads, Asks
<1>4. ASSUME UNCHANGED <<written, waiting, file, shutdowns>>, h \in Nat, h <= Cardinality(Heads) PROVE CountOK'
  <2>1. Asks' = Asks
    BY <1>4 DEF Asks
  <2> QED BY <1>1, <1>2, <1>4, <2>1 DEF CountOK, Coming
<1>5. ASSUME fifo' = <<>> PROVE h = 0
  BY <1>5, EmptySeq, FS_EmptySet DEF Heads
<1>6. ASSUME NEW c \in Command, Echo(c) PROVE CountOK'
  <2>1. /\ IsFiniteSet(written') /\ \A w \in written' : w[1] <= Cardinality(written')
        /\ Cardinality(Asks') = IF c = SD THEN Cardinality(Asks) + 1 ELSE Cardinality(Asks)
    BY <1>6, WrittenMore, CommandFacts DEF Echo
  <2>2. shutdowns' = shutdowns
    BY <1>6 DEF Echo
  <2>3. CASE path = "none" \/ path = "file"
    <3>1. file' = c /\ UNCHANGED <<fifo, waiting>>
      BY <1>6, <2>3 DEF Echo
    <3>2. h = Cardinality(Heads)
      BY <3>1 DEF Heads
    <3> QED BY <1>1, <1>2, <2>1, <2>2, <3>1, <3>2 DEF CountOK, Coming
  <2>4. CASE path = "fifo" /\ opened = "fifo"
    <3>1. fifo' = fifo \o Bytes(c) /\ UNCHANGED <<waiting, file>>
      BY <1>6, <2>4 DEF Echo
    <3>2. h \in Nat /\ h <= Cardinality(Heads) + (IF c = SD THEN 1 ELSE 0)
      BY <3>1, HeadsJoin
    <3> HIDE DEF h
    <3>3. shutdowns + (h + (IF SD \in waiting THEN 1 ELSE 0) + (IF file = SD THEN 1 ELSE 0)) <= Cardinality(Asks')
      BY <1>1, <1>2, <2>1, <3>2
    <3> QED BY <2>1, <2>2, <3>1, <3>3 DEF CountOK, Coming, h
  <2>5. CASE path = "fifo" /\ opened # "fifo"
    <3>1. waiting' = waiting \cup {c} /\ UNCHANGED <<fifo, file>>
      BY <1>6, <2>5 DEF Echo
    <3>2. h = Cardinality(Heads)
      BY <3>1 DEF Heads
    <3> QED BY <1>1, <1>2, <2>1, <2>2, <3>1, <3>2 DEF CountOK, Coming
  <2>6. path \in {"none", "fifo", "file"}
    BY DEF PipeTypeOK
  <2> QED BY <2>3, <2>4, <2>5, <2>6
<1>7. ASSUME NEW c \in Command, EchoGoesOn(c) PROVE CountOK'
  <2>1. UNCHANGED <<written, file, shutdowns>> /\ c \in waiting /\ waiting' = waiting \ {c} /\ fifo' = fifo \o Bytes(c)
    BY <1>7 DEF EchoGoesOn, countVars
  <2>2. h \in Nat /\ h <= Cardinality(Heads) + (IF c = SD THEN 1 ELSE 0)
    BY <2>1, HeadsJoin
  <2>3. (IF SD \in waiting' THEN 1 ELSE 0) + (IF c = SD THEN 1 ELSE 0) = IF SD \in waiting THEN 1 ELSE 0
    BY <2>1
  <2>4. Asks' = Asks
    BY <2>1 DEF Asks
  <2> HIDE DEF h
  <2>5. shutdowns + (h + (IF SD \in waiting' THEN 1 ELSE 0) + (IF file = SD THEN 1 ELSE 0)) <= Cardinality(Asks)
    BY <1>1, <1>2, <2>2, <2>3
  <2> QED BY <2>1, <2>4, <2>5 DEF CountOK, Coming, h
<1>8. CASE OpenAdminPipe
  <2>1. UNCHANGED <<written, waiting, file, shutdowns>> /\ fifo' = <<>>
    BY <1>8 DEF OpenAdminPipe
  <2> QED BY <1>1, <1>4, <1>5, <2>1
<1>9. CASE Terminate \/ ListCrash \/ SendKilled
  <2>1. UNCHANGED <<written, waiting, file, shutdowns>> /\ fifo' = <<>>
    BY <1>9 DEF Terminate, ListCrash, SendKilled, Down
  <2> QED BY <1>1, <1>4, <1>5, <2>1
<1>10. CASE AdminShutdown
  <2>1. UNCHANGED <<written, waiting>> /\ fifo' = <<>> /\ file' = None /\ shutdowns' = shutdowns + 1
    BY <1>10 DEF AdminShutdown, Down
  <2>2. h = 0 /\ file' # SD
    BY <1>5, <2>1, CommandFacts
  <2>3. Cardinality(Heads) >= 1 \/ file = SD
    BY <1>10, ShutdownSpends DEF AdminShutdown
  <2>4. Asks' = Asks
    BY <2>1 DEF Asks
  <2>5. shutdowns + 1 + (0 + (IF SD \in waiting THEN 1 ELSE 0) + 0) <= Cardinality(Asks)
    BY <1>1, <1>2, <2>3
  <2> QED BY <1>1, <2>1, <2>2, <2>4, <2>5 DEF CountOK, Coming
<1>11. CASE AdminRead
  BY <1>4, <1>11, HeadsConsume DEF AdminRead, countVars
<1>12. CASE ListLoad \/ ListPrint \/ ListDone \/ FindClient \/ SendClose
  BY <1>3, <1>12 DEF ListLoad, ListPrint, ListDone, FindClient, SendClose, pipeVars, countVars
<1>13. (\E p \in Pid, ghost \in BOOLEAN : Accept(p, ghost)) \/ (\E c \in Conn : CollectClient(c)) => CountOK'
  BY <1>3 DEF Accept, CollectClient, pipeVars, countVars
<1>14. CASE UNCHANGED adminPipeVars
  BY <1>3, <1>14 DEF adminPipeVars, pipeVars, countVars
<1> QED BY <1>6, <1>7, <1>8, <1>9, <1>10, <1>11, <1>12, <1>13, <1>14 DEF PipeNext, AdminStep

-----------------------------------------------------------------------------
(* The theorems of the pipe                                                *)

LEMMA PipeInvInit == PipeInit => PipeInv
<1> SUFFICES ASSUME PipeInit PROVE PipeInv
    OBVIOUS
<1> USE PipeAssumption
<1>1. <<>> \in Seq(Command \X Nat) /\ Len(<<>>) = 0
  BY EmptySeq
<1>2. PipeTypeOK
  BY <1>1 DEF PipeInit, PipeTypeOK
<1>3. TableOK /\ WalkOK /\ CloseOK
  BY DEF PipeInit, TableOK, WalkOK, ListingComplete, CloseOK, OnlyAskedClosed
<1>4. KnownOK
  BY <1>1 DEF PipeInit, KnownOK
<1>5. Heads = {} /\ Asks = {} /\ SD # None /\ written = {} /\ waiting = {} /\ file = None /\ shutdowns = 0
  BY <1>1, CommandFacts DEF PipeInit, Heads, Asks
<1>6. CountOK
  BY <1>5, FS_EmptySet DEF CountOK, Coming
<1> QED BY <1>2, <1>3, <1>4, <1>6 DEF PipeInv

LEMMA PipeInvNext == PipeInv /\ [PipeNext]_adminPipeVars => PipeInv'
BY PipeTypeNext, TableNext, WalkNext, KnownNext, CloseNext, CountNext DEF PipeInv

LEMMA PipeInductive == PipeSpec => []PipeInv
BY PipeInvInit, PipeInvNext, PTL DEF PipeSpec

\* Scripts, clients, restarts and do_admin keep every variable in its range.
THEOREM PipeTypeCorrect == PipeSpec => []PipeTypeOK
<1>1. PipeInv => PipeTypeOK
  BY DEF PipeInv
<1> QED BY <1>1, PipeInductive, PTL

\* do_admin shuts down at most as often as tg://1003/ was written, for any number
\* of commands and starts, and wherever its reads cut the bytes.
THEOREM NoShutdownUnasked == PipeSpec => []OneShutdownPerCommand
<1>1. PipeInv => OneShutdownPerCommand
  <2> SUFFICES ASSUME PipeInv PROVE OneShutdownPerCommand
    OBVIOUS
  <2>1. Cardinality(Heads) \in Nat /\ shutdowns \in Nat /\ Cardinality(Asks) \in Nat
    BY HeadsFinite, AsksFinite DEF PipeInv, PipeTypeOK
  <2>2. shutdowns + Coming <= Cardinality(Asks) /\ Coming \in Nat
    BY <2>1 DEF PipeInv, CountOK, Coming
  <2>3. shutdowns <= Cardinality(Asks)
    BY <2>1, <2>2
  <2> QED BY <2>3 DEF OneShutdownPerCommand, Asks
<1> QED BY <1>1, PipeInductive, PTL

\* write_data sends tg://1005 only to a client whose pid a command named, although
\* pids are given out again and clients go between findClient and the message.
THEOREM NoCloseUnasked == PipeSpec => []OnlyAskedClosed
<1>1. PipeInv => OnlyAskedClosed
  BY DEF PipeInv, CloseOK
<1> QED BY <1>1, PipeInductive, PTL

\* getCurrentClientsInfo misses no client of the slots it has passed, for any size
\* of the table.
THEOREM ListingMissesNone == PipeSpec => []ListingComplete
<1>1. PipeInv => ListingComplete
  BY DEF PipeInv, WalkOK
<1> QED BY <1>1, PipeInductive, PTL

-----------------------------------------------------------------------------
(* Descriptors                                                             *)

\* do_accept works on a connection from its fork until it is registered, and the
\* main process has closed the child's ends from CloseChildEnds on.
CurOK ==
    /\ mpc = "select" => cur = {}
    /\ mpc # "select" => \E c \in Connection : cur = {c}
    /\ \A c \in cur : life[c] \in {"setup", "serving", "zombie", "gone"}

\* What the main process holds, connection by connection.  One that was collected
\* before it was registered keeps its entry and its pipes: a ghost.
MainOK ==
    /\ Listening \subseteq main
    /\ \A c \in g_clients : life[c] \in {"setup", "serving", "zombie", "gone"} /\ c \notin cur
    /\ \A c \in g_clients : MainEnds(c) \subseteq main
    /\ \A c \in cur : MainEnds(c) \subseteq main
    /\ main \subseteq Listening \cup Leaked \cup (UNION {MainEnds(c) : c \in g_clients \cup cur})
                      \cup (IF mpc = "forked" THEN UNION {ChildEnds(c) : c \in cur} ELSE {})

\* What a child holds, before it closes what it does not need and after.
ChildOK ==
    \A c \in Connection :
        /\ life[c] = "setup" =>
              /\ ChildEnds(c) \subseteq child[c]
              /\ child[c] \subseteq Listening \cup Leaked \cup EndsOf(c)
                                    \cup (UNION {MainEnds(d) : d \in copy[c]})
        /\ life[c] = "serving" =>
              ChildEnds(c) \subseteq child[c] /\ child[c] \subseteq ChildEnds(c) \cup Leaked
        /\ life[c] \notin {"setup", "serving"} => child[c] = {}

IInv == DescTypeOK /\ CurOK /\ MainOK /\ ChildOK
-----------------------------------------------------------------------------
\* The ends of different connections, and the two halves of one, are different
\* descriptors.
LEMMA EndsDiffer ==
    /\ \A c, d : ChildEnds(c) \cap MainEnds(d) = {}
    /\ \A c : EndsOf(c) = ChildEnds(c) \cup MainEnds(c)
    /\ \A c : ChildEnds(c) \cap Listening = {} /\ MainEnds(c) \cap Listening = {}
    /\ \A c, d : c # d => MainEnds(c) \cap MainEnds(d) = {} /\ ChildEnds(c) \cap ChildEnds(d) = {}
    /\ \A c : <<"sock", c>> \in ChildEnds(c)
    /\ \A n : OutPipe(n) \notin Listening /\ \A c : OutPipe(n) \notin EndsOf(c)
  BY DEF ChildEnds, MainEnds, EndsOf, Listening, OutPipe

\* Whatever leaked stays leaked.
LEMMA LeakedGrows ==
    ASSUME Failed \subseteq Failed'
    PROVE  Leaked \subseteq Leaked'
  BY DEF Leaked

LEMMA NotLeaked ==
    ASSUME NEW c \in Connection, life[c] # "failed"
    PROVE  EndsOf(c) \cap Leaked = {}
<1>1. ASSUME NEW e \in EndsOf(c), e \in Leaked PROVE FALSE
  <2>1. CASE \E n \in 1 .. MaxAdmin : e = OutPipe(n)
    BY <1>1, <2>1, EndsDiffer
  <2>2. CASE \E d \in Failed : e \in EndsOf(d)
    <3>1. PICK d \in Failed : e \in EndsOf(d)
      BY <2>2
    <3>2. d # c
      BY <3>1 DEF Failed
    <3>3. QED
      BY <1>1, <3>1, <3>2, EndsDiffer
  <2>3. QED
    BY <1>1, <2>1, <2>2 DEF Leaked
<1>2. QED
  BY <1>1

LEMMA AllInDesc ==
    /\ Listening \subseteq Desc
    /\ \A c \in Connection : EndsOf(c) \subseteq Desc
    /\ \A n \in 1 .. MaxAdmin : OutPipe(n) \in Desc
  BY DEF Desc

LEMMA InvariantInit == DescInit => IInv
<1> SUFFICES ASSUME DescInit PROVE IInv
  OBVIOUS
<1>1. DescTypeOK
  BY AllInDesc, AdminAssumption DEF DescInit, DescTypeOK
<1>2. CurOK /\ MainOK /\ ChildOK
  BY DEF DescInit, CurOK, MainOK, ChildOK
<1>3. QED
  BY <1>1, <1>2 DEF IInv

LEMMA TypesNext == IInv /\ [DescNext]_descVars => DescTypeOK'
<1> SUFFICES ASSUME IInv, [DescNext]_descVars PROVE DescTypeOK'
  OBVIOUS
<1> USE DEF IInv, DescTypeOK
<1>1. ASSUME NEW c \in Connection, Fork(c) PROVE DescTypeOK'
  BY <1>1, AllInDesc DEF Fork
<1>2. ASSUME NEW c \in Connection, ForkFails(c) PROVE DescTypeOK'
  BY <1>2, AllInDesc DEF ForkFails
<1>3. ASSUME NEW c \in Connection, Collect(c) PROVE DescTypeOK'
  BY <1>3 DEF Collect
<1>4. ASSUME NEW c \in Connection, SetUp(c) PROVE DescTypeOK'
  BY <1>4 DEF SetUp
<1>5. ASSUME NEW c \in Connection, ChildExit(c) PROVE DescTypeOK'
  BY <1>5 DEF ChildExit
<1>6. CASE CloseChildEnds
  BY <1>6 DEF CloseChildEnds
<1>7. CASE AddClient
  BY <1>7 DEF AddClient
<1>8. CASE DoAdmin
  <2>1. admin' \in 1 .. MaxAdmin
    BY <1>8, AdminAssumption DEF DoAdmin
  <2>2. QED
    BY <1>8, <2>1, AllInDesc DEF DoAdmin
<1>9. CASE UNCHANGED descVars
  BY <1>9 DEF descVars
<1>10. QED
  BY <1>1, <1>2, <1>3, <1>4, <1>5, <1>6, <1>7, <1>8, <1>9 DEF DescNext

LEMMA InvariantNext == IInv /\ [DescNext]_descVars => IInv'
<1> SUFFICES ASSUME IInv, [DescNext]_descVars PROVE CurOK' /\ MainOK' /\ ChildOK'
  BY TypesNext DEF IInv
<1>0. DescTypeOK /\ CurOK /\ MainOK /\ ChildOK
  BY DEF IInv
\* The main process.
<1>1. ASSUME NEW c \in Connection, Fork(c) PROVE CurOK' /\ MainOK' /\ ChildOK'
  <2>1. Failed' = Failed /\ Leaked' = Leaked
    BY <1>0, <1>1 DEF Fork, Failed, Leaked, DescTypeOK
  <2>2. cur = {} /\ c \notin g_clients /\ mpc = "select" /\ mpc' = "forked" /\ cur' = {c}
    BY <1>0, <1>1 DEF Fork, CurOK, MainOK
  <2>3. main \subseteq Listening \cup Leaked \cup (UNION {MainEnds(d) : d \in g_clients})
    BY <1>0, <2>2 DEF MainOK
  <2>4. main' = main \cup ChildEnds(c) \cup MainEnds(c)
    BY <1>1, EndsDiffer DEF Fork
  <2>5. CurOK'
    BY <1>0, <1>1, <2>2 DEF CurOK, Fork, DescTypeOK
  <2>6. MainOK'
    BY <1>0, <1>1, <2>1, <2>2, <2>3, <2>4 DEF MainOK, Fork, DescTypeOK
  <2>7. ChildOK'
    <3>1. /\ life'[c] = "setup" /\ child'[c] = main' /\ copy'[c] = g_clients
          /\ \A d \in Connection \ {c} : life'[d] = life[d] /\ child'[d] = child[d] /\ copy'[d] = copy[d]
      BY <1>0, <1>1 DEF Fork, DescTypeOK
    <3>2. /\ ChildEnds(c) \subseteq child'[c]
          /\ child'[c] \subseteq Listening \cup Leaked \cup EndsOf(c) \cup (UNION {MainEnds(d) : d \in copy'[c]})
      BY <2>3, <2>4, <3>1, EndsDiffer
    <3>3. QED
      BY <1>0, <2>1, <3>1, <3>2 DEF ChildOK
  <2>8. QED
    BY <2>5, <2>6, <2>7
<1>2. ASSUME NEW c \in Connection, ForkFails(c) PROVE CurOK' /\ MainOK' /\ ChildOK'
  <2>1. Failed' = Failed \cup {c} /\ Leaked \cup EndsOf(c) \subseteq Leaked'
    <3>1. Failed' = Failed \cup {c}
      BY <1>0, <1>2 DEF ForkFails, Failed, DescTypeOK
    <3>2. QED
      BY <3>1 DEF Leaked
  <2>2. cur = {} /\ c \notin g_clients /\ mpc = "select" /\ mpc' = mpc /\ cur' = cur
    BY <1>0, <1>2 DEF ForkFails, CurOK, MainOK
  <2>3. main \subseteq Listening \cup Leaked \cup (UNION {MainEnds(d) : d \in g_clients})
    BY <1>0, <2>2 DEF MainOK
  <2>4. main' = main \cup EndsOf(c) /\ g_clients' = g_clients
    BY <1>2 DEF ForkFails
  <2>5. CurOK'
    BY <1>0, <2>2 DEF CurOK
  <2>6. MainOK'
    BY <1>0, <1>2, <2>1, <2>2, <2>3, <2>4 DEF MainOK, ForkFails, DescTypeOK
  <2>7. ChildOK'
    BY <1>0, <1>2, <2>1 DEF ChildOK, ForkFails, DescTypeOK
  <2>8. QED
    BY <2>5, <2>6, <2>7
<1>3. CASE CloseChildEnds
  <2>1. Leaked' = Leaked /\ life' = life /\ g_clients' = g_clients /\ cur' = cur
    BY <1>3 DEF CloseChildEnds, Leaked, Failed
  <2>2. PICK c \in Connection : cur = {c}
    BY <1>0, <1>3 DEF CurOK, CloseChildEnds
  <2>3. main' = main \ ChildEnds(c) /\ mpc = "forked" /\ mpc' = "closed"
    BY <1>3, <2>2 DEF CloseChildEnds
  <2>4. CurOK'
    BY <1>0, <2>1, <2>2, <2>3 DEF CurOK
  <2>5. MainOK'
    <3>1. Listening \subseteq main'
      BY <1>0, <2>3, EndsDiffer DEF MainOK
    <3>2. \A d \in g_clients \cup cur : MainEnds(d) \subseteq main'
      BY <1>0, <2>3, EndsDiffer DEF MainOK
    <3>3. main' \subseteq Listening \cup Leaked \cup (UNION {MainEnds(d) : d \in g_clients \cup cur})
      BY <1>0, <2>2, <2>3 DEF MainOK
    <3>4. QED
      BY <1>0, <2>1, <2>3, <3>1, <3>2, <3>3 DEF MainOK
  <2>6. ChildOK'
    BY <1>0, <1>3, <2>1 DEF ChildOK, CloseChildEnds
  <2>7. QED
    BY <2>4, <2>5, <2>6
<1>4. CASE AddClient
  <2>1. Leaked' = Leaked /\ life' = life /\ main' = main /\ cur' = {} /\ mpc = "closed" /\ mpc' = "select"
    BY <1>4 DEF AddClient, Leaked, Failed
  <2>2. g_clients' = g_clients \cup cur
    BY <1>4 DEF AddClient
  <2>3. CurOK'
    BY <2>1 DEF CurOK
  <2>4. MainOK'
    BY <1>0, <2>1, <2>2 DEF MainOK, CurOK
  <2>5. ChildOK'
    BY <1>0, <1>4, <2>1 DEF ChildOK, AddClient
  <2>6. QED
    BY <2>3, <2>4, <2>5
<1>5. CASE DoAdmin
  <2>1. /\ Leaked' = Leaked /\ life' = life /\ g_clients' = g_clients /\ cur' = cur /\ mpc' = mpc
        /\ main' = main \cup {OutPipe(admin')}
    BY <1>5 DEF DoAdmin, Leaked, Failed
  <2>2. admin' \in 1 .. MaxAdmin
    BY <1>0, <1>5, AdminAssumption DEF DoAdmin, DescTypeOK
  <2>3. OutPipe(admin') \in Leaked
    BY <2>2 DEF Leaked
  <2>4. CurOK'
    BY <1>0, <2>1 DEF CurOK
  <2>5. MainOK'
    BY <1>0, <2>1, <2>3 DEF MainOK
  <2>6. ChildOK'
    BY <1>0, <1>5, <2>1 DEF ChildOK, DoAdmin
  <2>7. QED
    BY <2>4, <2>5, <2>6
<1>6. ASSUME NEW c \in Connection, Collect(c) PROVE CurOK' /\ MainOK' /\ ChildOK'
  <2>1. /\ Leaked' = Leaked /\ cur' = cur /\ mpc' = mpc /\ child' = child /\ copy' = copy
        /\ life[c] = "zombie" /\ life'[c] = "gone" /\ \A d \in Connection \ {c} : life'[d] = life[d]
    BY <1>0, <1>6 DEF Collect, Leaked, Failed, DescTypeOK
  <2>2. g_clients' = g_clients \ {c} /\ main' = IF c \in g_clients THEN main \ MainEnds(c) ELSE main
    BY <1>6 DEF Collect
  <2>3. CurOK'
    BY <1>0, <2>1 DEF CurOK, DescTypeOK
  <2>4. MainOK'
    <3>1. Listening \subseteq main'
      BY <1>0, <2>2, EndsDiffer DEF MainOK
    <3>2. \A d \in g_clients' : life'[d] \in {"setup", "serving", "zombie", "gone"} /\ d \notin cur'
      BY <1>0, <2>1, <2>2 DEF MainOK, DescTypeOK
    <3>3. \A d \in g_clients' \cup cur' : MainEnds(d) \subseteq main'
      BY <1>0, <2>1, <2>2, EndsDiffer DEF MainOK
    <3>4. ASSUME NEW e \in main'
          PROVE  e \in Listening \cup Leaked \cup (UNION {MainEnds(d) : d \in g_clients' \cup cur'})
                       \cup (IF mpc' = "forked" THEN UNION {ChildEnds(d) : d \in cur'} ELSE {})
      BY <1>0, <2>1, <2>2 DEF MainOK
    <3>5. QED
      BY <2>1, <3>1, <3>2, <3>3, <3>4 DEF MainOK
  <2>5. ChildOK'
    BY <1>0, <2>1 DEF ChildOK
  <2>6. QED
    BY <2>3, <2>4, <2>5
\* A child.
<1>7. ASSUME NEW c \in Connection, SetUp(c) PROVE CurOK' /\ MainOK' /\ ChildOK'
  <2>1. /\ Leaked' = Leaked /\ cur' = cur /\ mpc' = mpc /\ main' = main /\ copy' = copy
        /\ g_clients' = g_clients
        /\ life[c] = "setup" /\ life'[c] = "serving"
        /\ \A d \in Connection \ {c} : life'[d] = life[d] /\ child'[d] = child[d]
    BY <1>0, <1>7 DEF SetUp, Leaked, Failed, DescTypeOK
  <2>2. CurOK' /\ MainOK'
    BY <1>0, <2>1 DEF CurOK, MainOK, DescTypeOK
  <2>3. child'[c] = ((child[c] \ MainEnds(c)) \ UNION {MainEnds(d) : d \in copy[c]}) \ Listening
    BY <1>0, <1>7 DEF SetUp, DescTypeOK
  <2>4. ChildEnds(c) \subseteq child'[c]
    BY <1>0, <2>1, <2>3, EndsDiffer DEF ChildOK
  <2>5. child'[c] \subseteq ChildEnds(c) \cup Leaked
    BY <1>0, <2>1, <2>3, EndsDiffer DEF ChildOK
  <2>6. ChildOK'
    BY <1>0, <2>1, <2>4, <2>5 DEF ChildOK
  <2>7. QED
    BY <2>2, <2>6
<1>8. ASSUME NEW c \in Connection, ChildExit(c) PROVE CurOK' /\ MainOK' /\ ChildOK'
  <2>1. /\ Leaked' = Leaked /\ cur' = cur /\ mpc' = mpc /\ main' = main /\ copy' = copy
        /\ g_clients' = g_clients
        /\ life'[c] = "zombie" /\ child'[c] = {}
        /\ \A d \in Connection \ {c} : life'[d] = life[d] /\ child'[d] = child[d]
    BY <1>0, <1>8 DEF ChildExit, Leaked, Failed, DescTypeOK
  <2>2. CurOK' /\ MainOK'
    BY <1>0, <2>1 DEF CurOK, MainOK, DescTypeOK
  <2>3. ChildOK'
    BY <1>0, <2>1 DEF ChildOK
  <2>4. QED
    BY <2>2, <2>3
<1>9. CASE UNCHANGED descVars
  BY <1>0, <1>9 DEF descVars, CurOK, MainOK, ChildOK, Leaked, Failed
<1>10. QED
  BY <1>1, <1>2, <1>3, <1>4, <1>5, <1>6, <1>7, <1>8, <1>9 DEF DescNext

LEMMA Invariant == DescSpec => []IInv
  BY InvariantInit, InvariantNext, PTL DEF DescSpec
-----------------------------------------------------------------------------
\* A client sees the end of its connection as soon as its process has ended and the
\* main loop is back in select: nobody else holds the socket, whoever was forked in
\* between.
THEOREM ConnectionsEnd == DescSpec => []HangsUp
<1>1. IInv => HangsUp
  <2> SUFFICES ASSUME IInv, NEW c \in Connection, life[c] \in {"zombie", "gone"}, c \notin cur
               PROVE  /\ <<"sock", c>> \notin main
                      /\ \A d \in Connection : <<"sock", c>> \notin child[d]
    BY DEF HangsUp
  <2>1. <<"sock", c>> \in ChildEnds(c) /\ <<"sock", c>> \notin Leaked /\ <<"sock", c>> \notin Listening
    BY NotLeaked, EndsDiffer
  <2>2. \A d : <<"sock", c>> \notin MainEnds(d) /\ (d # c => <<"sock", c>> \notin ChildEnds(d))
    BY <2>1, EndsDiffer
  <2>3. <<"sock", c>> \notin main
    BY <2>1, <2>2 DEF IInv, MainOK
  <2>4. ASSUME NEW d \in Connection PROVE <<"sock", c>> \notin child[d]
    <3>1. CASE life[d] = "setup"
      BY <2>1, <2>2, <3>1, EndsDiffer DEF IInv, ChildOK
    <3>2. CASE life[d] = "serving"
      BY <2>1, <2>2, <3>2 DEF IInv, ChildOK
    <3>3. CASE life[d] \notin {"setup", "serving"}
      BY <3>3 DEF IInv, ChildOK
    <3>4. QED
      BY <3>1, <3>2, <3>3
  <2>5. QED
    BY <2>3, <2>4
<1>2. QED
  BY <1>1, Invariant, PTL

\* A serving child holds its own three ends and, besides what leaked, nothing.
THEOREM ChildrenHoldOwn == DescSpec => []HoldsOwn
<1>1. IInv => HoldsOwn
  BY DEF IInv, ChildOK, HoldsOwn
<1>2. QED
  BY <1>1, Invariant, PTL

\* In select the main process holds its ends of the clients in the table, what it
\* listens to and what leaked.
THEOREM NothingLeftOver == DescSpec => []MainAccounted
<1>1. IInv => MainAccounted
  BY DEF IInv, CurOK, MainOK, MainAccounted
<1>2. QED
  BY <1>1, Invariant, PTL

-----------------------------------------------------------------------------
(* The string helpers                                                      *)

\* The least of the numbers of S, and the greatest of those up to a bound.
Least(S)    == CHOOSE x \in S : \A y \in S : x <= y
Greatest(S) == CHOOSE x \in S : \A y \in S : y <= x

LEMMA LeastIs ==
    ASSUME NEW S \in SUBSET Nat, S # {}
    PROVE  Least(S) \in S /\ \A y \in S : Least(S) <= y
  BY LeastExists DEF Least

LEMMA GreatestIs ==
    ASSUME NEW n \in Int, NEW S \in SUBSET Int, S # {}, \A x \in S : x <= n
    PROVE  Greatest(S) \in S /\ \A y \in S : y <= Greatest(S)
<1> DEFINE T == {n - x : x \in S}
<1>1. T \in SUBSET Nat /\ T # {}
  <2>1. \A x \in S : x \in Int /\ x <= n /\ n - x \in Nat
    OBVIOUS
  <2> QED
    BY <2>1
<1>2. PICK t \in T : \A u \in T : t <= u
  BY <1>1, LeastExists
<1>3. PICK x \in S : t = n - x
  OBVIOUS
<1>4. \A y \in S : y <= x
  <2> SUFFICES ASSUME NEW y \in S PROVE y <= x
    OBVIOUS
  <2>1. n - y \in T
    OBVIOUS
  <2> QED
    BY <1>2, <1>3, <2>1
<1> QED
  BY <1>4 DEF Greatest

\* The positions at which the searches find the separator.
From(place) == {n \in place .. Len(source) - 1 : cAt(n) = sepr}
UpTo(place) == {n \in -1 .. place : cAt(n) = sepr}

FirstLoop == CHOOSE f : f = [place \in 0 .. Len(source) |->
    IF place > Len(source) - 1 THEN -1 ELSE IF cAt(place) = sepr THEN place ELSE f[place + 1]]
LastLoop == CHOOSE f : f = [place \in -2 .. Len(source) |->
    IF place < -1 THEN -2 ELSE IF cAt(place) = sepr THEN place ELSE f[place - 1]]

LEMMA LoopsAre ==
    /\ findSeparator = IF Len(source) < 1 THEN -1 ELSE FirstLoop[0]
    /\ lastFindSeparator = IF Len(source) < 1 THEN -1 ELSE LastLoop[Len(source) - 1]
  BY DEF findSeparator, lastFindSeparator, FirstLoop, LastLoop

\* FirstLoop is the function that its body defines: there is one, the first position.
LEMMA FirstLoopIs ==
    ASSUME Len(source) \in Nat
    PROVE  FirstLoop = [place \in 0 .. Len(source) |->
              IF place > Len(source) - 1 THEN -1 ELSE IF cAt(place) = sepr THEN place ELSE FirstLoop[place + 1]]
<1> DEFINE w == [place \in 0 .. Len(source) |-> IF From(place) = {} THEN -1 ELSE Least(From(place))]
<1>1. ASSUME NEW place \in 0 .. Len(source)
      PROVE  w[place] = IF place > Len(source) - 1 THEN -1 ELSE IF cAt(place) = sepr THEN place ELSE w[place + 1]
  <2>1. CASE place > Len(source) - 1
    BY <2>1 DEF From
  <2>2. CASE place <= Len(source) - 1 /\ cAt(place) = sepr
    <3>1. From(place) \in SUBSET Nat /\ place \in From(place) /\ \A n \in From(place) : place <= n
      BY <2>2 DEF From
    <3>2. Least(From(place)) = place
      BY <3>1, LeastIs
    <3> QED
      BY <2>2, <3>1, <3>2
  <2>3. CASE place <= Len(source) - 1 /\ cAt(place) # sepr
    <3>1. From(place) = From(place + 1)
      BY <2>3 DEF From
    <3> QED
      BY <2>3, <3>1
  <2> QED
    BY <2>1, <2>2, <2>3
<1>2. w = [place \in 0 .. Len(source) |->
              IF place > Len(source) - 1 THEN -1 ELSE IF cAt(place) = sepr THEN place ELSE w[place + 1]]
  BY <1>1
<1>3. \E f : f = [place \in 0 .. Len(source) |->
              IF place > Len(source) - 1 THEN -1 ELSE IF cAt(place) = sepr THEN place ELSE f[place + 1]]
  BY <1>2
<1> QED
  BY <1>3 DEF FirstLoop

\* So it gives the first occurrence from a position on: the least position where it
\* would not is none, counted from the end.
LEMMA FirstLoopGives ==
    ASSUME Len(source) \in Nat, NEW p \in 0 .. Len(source)
    PROVE  FirstLoop[p] = IF From(p) = {} THEN -1 ELSE Least(From(p))
<1> DEFINE L == Len(source)
<1> DEFINE w(place) == IF From(place) = {} THEN -1 ELSE Least(From(place))
<1> DEFINE Wrong == {k \in 0 .. L : FirstLoop[L - k] # w(L - k)}
<1> SUFFICES Wrong = {}
  <2>1. L - p \in 0 .. L /\ L - (L - p) = p
    OBVIOUS
  <2> QED
    BY <2>1
<1> SUFFICES ASSUME Wrong # {} PROVE FALSE
  OBVIOUS
<1>1. Wrong \in SUBSET Nat
  OBVIOUS
<1>2. PICK k \in Wrong : \A j \in Wrong : k <= j
  BY <1>1, LeastExists
<1> PICK place : place = L - k
  OBVIOUS
<1>3. place \in 0 .. L /\ k \in 0 .. L /\ FirstLoop[place] # w(place)
  BY <1>2
<1>4. FirstLoop[place] = IF place > L - 1 THEN -1 ELSE IF cAt(place) = sepr THEN place ELSE FirstLoop[place + 1]
  BY <1>3, FirstLoopIs
<1>5. CASE place > L - 1
  <2>1. From(place) = {}
    BY <1>3, <1>5 DEF From
  <2> QED
    BY <1>3, <1>4, <1>5, <2>1
<1>6. CASE place <= L - 1 /\ cAt(place) = sepr
  <2>1. From(place) \in SUBSET Nat /\ place \in From(place) /\ \A n \in From(place) : place <= n
    BY <1>3, <1>6 DEF From
  <2>2. Least(From(place)) = place
    BY <2>1, LeastIs
  <2> QED
    BY <1>3, <1>4, <1>6, <2>1, <2>2
<1>7. CASE place <= L - 1 /\ cAt(place) # sepr
  <2>1. From(place) = From(place + 1)
    BY <1>3, <1>7 DEF From
  <2>2. k - 1 \in 0 .. L /\ k - 1 \notin Wrong /\ L - (k - 1) = place + 1
    <3>1. k - 1 \in 0 .. L /\ ~ (k <= k - 1) /\ L - (k - 1) = place + 1
      BY <1>3, <1>7
    <3> HIDE DEF Wrong
    <3> QED
      BY <1>2, <3>1
  <2>3. FirstLoop[place + 1] = w(place + 1)
    BY <2>2
  <2> QED
    BY <1>3, <1>4, <1>7, <2>1, <2>3
<1> QED
  BY <1>3, <1>5, <1>6, <1>7

\* The loop that runs down, in the same way.
LEMMA LastLoopIs ==
    ASSUME Len(source) \in Nat
    PROVE  LastLoop = [place \in -2 .. Len(source) |->
              IF place < -1 THEN -2 ELSE IF cAt(place) = sepr THEN place ELSE LastLoop[place - 1]]
<1> DEFINE w == [place \in -2 .. Len(source) |-> IF UpTo(place) = {} THEN -2 ELSE Greatest(UpTo(place))]
<1>1. ASSUME NEW place \in -2 .. Len(source)
      PROVE  w[place] = IF place < -1 THEN -2 ELSE IF cAt(place) = sepr THEN place ELSE w[place - 1]
  <2>1. CASE place < -1
    BY <2>1 DEF UpTo
  <2>2. CASE place >= -1 /\ cAt(place) = sepr
    <3>1. UpTo(place) \in SUBSET Int /\ place \in UpTo(place) /\ \A n \in UpTo(place) : n <= place
      BY <2>2 DEF UpTo
    <3>2. place \in Int
      OBVIOUS
    <3>3. Greatest(UpTo(place)) \in UpTo(place) /\ \A y \in UpTo(place) : y <= Greatest(UpTo(place))
      BY <3>1, <3>2, GreatestIs
    <3>4. Greatest(UpTo(place)) = place
      BY <3>1, <3>2, <3>3
    <3> QED
      BY <2>2, <3>1, <3>4
  <2>3. CASE place >= -1 /\ cAt(place) # sepr
    <3>1. UpTo(place) = UpTo(place - 1)
      BY <2>3 DEF UpTo
    <3> QED
      BY <2>3, <3>1
  <2> QED
    BY <2>1, <2>2, <2>3
<1>2. w = [place \in -2 .. Len(source) |->
              IF place < -1 THEN -2 ELSE IF cAt(place) = sepr THEN place ELSE w[place - 1]]
  BY <1>1
<1>3. \E f : f = [place \in -2 .. Len(source) |->
              IF place < -1 THEN -2 ELSE IF cAt(place) = sepr THEN place ELSE f[place - 1]]
  BY <1>2
<1> QED
  BY <1>3 DEF LastLoop

LEMMA LastLoopGives ==
    ASSUME Len(source) \in Nat, NEW p \in -2 .. Len(source)
    PROVE  LastLoop[p] = IF UpTo(p) = {} THEN -2 ELSE Greatest(UpTo(p))
<1> DEFINE L == Len(source)
<1> DEFINE w(place) == IF UpTo(place) = {} THEN -2 ELSE Greatest(UpTo(place))
<1> DEFINE Wrong == {k \in 0 .. L + 2 : LastLoop[k - 2] # w(k - 2)}
<1> SUFFICES Wrong = {}
  <2>1. p + 2 \in 0 .. L + 2 /\ (p + 2) - 2 = p
    OBVIOUS
  <2> QED
    BY <2>1
<1> SUFFICES ASSUME Wrong # {} PROVE FALSE
  OBVIOUS
<1>1. Wrong \in SUBSET Nat
  OBVIOUS
<1>2. PICK k \in Wrong : \A j \in Wrong : k <= j
  BY <1>1, LeastExists
<1> PICK place : place = k - 2
  OBVIOUS
<1>3. place \in -2 .. L /\ k \in 0 .. L + 2 /\ LastLoop[place] # w(place)
  BY <1>2
<1>4. LastLoop[place] = IF place < -1 THEN -2 ELSE IF cAt(place) = sepr THEN place ELSE LastLoop[place - 1]
  BY <1>3, LastLoopIs
<1>5. CASE place < -1
  <2>1. UpTo(place) = {}
    BY <1>3, <1>5 DEF UpTo
  <2> QED
    BY <1>3, <1>4, <1>5, <2>1
<1>6. CASE place >= -1 /\ cAt(place) = sepr
  <2>1. UpTo(place) \in SUBSET Int /\ place \in UpTo(place) /\ \A n \in UpTo(place) : n <= place
    BY <1>3, <1>6 DEF UpTo
  <2>2. Greatest(UpTo(place)) \in UpTo(place) /\ \A y \in UpTo(place) : y <= Greatest(UpTo(place))
    BY <1>3, <2>1, GreatestIs
  <2>3. Greatest(UpTo(place)) = place
    BY <1>3, <2>1, <2>2
  <2> QED
    BY <1>3, <1>4, <1>6, <2>1, <2>3
<1>7. CASE place >= -1 /\ cAt(place) # sepr
  <2>1. UpTo(place) = UpTo(place - 1)
    BY <1>3, <1>7 DEF UpTo
  <2>2. k - 1 \in 0 .. L + 2 /\ k - 1 \notin Wrong /\ (k - 1) - 2 = place - 1
    <3>1. k - 1 \in 0 .. L + 2 /\ ~ (k <= k - 1) /\ (k - 1) - 2 = place - 1
      BY <1>3, <1>7
    <3> HIDE DEF Wrong
    <3> QED
      BY <1>2, <3>1
  <2>3. LastLoop[place - 1] = w(place - 1)
    BY <2>2
  <2> QED
    BY <1>3, <1>4, <1>7, <2>1, <2>3
<1> QED
  BY <1>3, <1>5, <1>6, <1>7

\* What the strings of a call are.
StringTypeOK ==
    /\ source \in Seq(Char)
    /\ sepr \in Char
    /\ before \in Char

\* The searches give the first and the last occurrence; with none, the byte before
\* the string decides between -1 and -2.
LEMMA SearchesGive ==
    ASSUME StringTypeOK
    PROVE  IF Occurrences = {}
           THEN findSeparator = -1 /\ lastFindSeparator \in {-1, -2}
           ELSE /\ {findSeparator, lastFindSeparator} \subseteq Occurrences
                /\ \A n \in Occurrences : findSeparator <= n /\ n <= lastFindSeparator
<1> DEFINE L == Len(source)
<1>1. L \in Nat /\ DOMAIN source = 1 .. L
  BY DEF StringTypeOK
<1>2. CASE L = 0
  BY <1>1, <1>2, LoopsAre DEF Occurrences
<1>3. CASE L > 0
  <2>1. From(0) = Occurrences
    BY <1>1, <1>3 DEF From, Occurrences, cAt
  <2>2. findSeparator = IF Occurrences = {} THEN -1 ELSE Least(Occurrences)
    BY <1>1, <1>3, <2>1, LoopsAre, FirstLoopGives
  <2>3. lastFindSeparator = IF UpTo(L - 1) = {} THEN -2 ELSE Greatest(UpTo(L - 1))
    <3>1. L - 1 \in -2 .. L
      BY <1>1, <1>3
    <3>2. lastFindSeparator = LastLoop[L - 1]
      BY <1>1, <1>3, LoopsAre
    <3> QED
      BY <1>1, <3>1, <3>2, LastLoopGives
  <2>4. Occurrences \in SUBSET Nat /\ Occurrences \subseteq UpTo(L - 1)
    BY <1>1 DEF Occurrences, UpTo, cAt
  <2>5. \A n \in UpTo(L - 1) : n \in Int /\ n <= L - 1 /\ (n = -1 \/ n \in Occurrences)
    BY <1>1 DEF Occurrences, UpTo, cAt
  <2>6. UpTo(L - 1) # {} => /\ Greatest(UpTo(L - 1)) \in UpTo(L - 1)
                           /\ \A n \in UpTo(L - 1) : n <= Greatest(UpTo(L - 1))
    <3>1. L - 1 \in Int /\ UpTo(L - 1) \in SUBSET Int
      BY <1>1, <2>5
    <3> QED
      BY <2>5, <3>1, GreatestIs
  <2>7. CASE Occurrences = {}
    BY <2>2, <2>3, <2>5, <2>6, <2>7
  <2>8. CASE Occurrences # {}
    <3>1. Least(Occurrences) \in Occurrences /\ \A n \in Occurrences : Least(Occurrences) <= n
      BY <2>4, <2>8, LeastIs
    <3>2. UpTo(L - 1) # {}
      BY <2>4, <2>8
    <3>3. PICK m \in Occurrences : TRUE
      BY <2>8
    <3>4. m \in Nat /\ m <= Greatest(UpTo(L - 1))
      BY <2>4, <2>6, <3>2, <3>3
    <3>5. Greatest(UpTo(L - 1)) # -1
      BY <3>4
    <3>6. Greatest(UpTo(L - 1)) \in Occurrences
      BY <2>5, <2>6, <3>2, <3>5
    <3> QED
      BY <2>2, <2>3, <2>4, <2>6, <2>8, <3>1, <3>2, <3>6
  <2> QED
    BY <2>7, <2>8
<1> QED
  BY <1>1, <1>2, <1>3

\* A sequence cut at an element is put together again.
LEMMA CutAndJoin ==
    ASSUME NEW C, NEW q \in Seq(C), NEW e, NEW s \in 0 .. Len(q) - 1, q[s + 1] = e
    PROVE  SubSeq(q, 1, s) \o <<e>> \o SubSeq(q, s + 2, Len(q)) = q
<1> DEFINE L == Len(q)
<1>1. L \in Nat /\ s \in Nat /\ s + 1 \in 1 .. L /\ e \in C
  OBVIOUS
<1>2. PICK a : a = SubSeq(q, 1, s)
  OBVIOUS
<1>3. PICK b : b = SubSeq(q, s + 2, L)
  OBVIOUS
<1>4. a \in Seq(C) /\ Len(a) = s /\ \A k \in 1 .. s : a[k] = q[k]
  <2>1. \A n \in 1 .. s : n \in 1 .. L
    BY <1>1
  <2> QED
    BY <1>1, <1>2, <2>1, SubSeqProperties
<1>5. b \in Seq(C) /\ Len(b) = L - s - 1 /\ \A k \in 1 .. L - s - 1 : b[k] = q[s + 1 + k]
  <2>1. \A n \in s + 2 .. L : n \in 1 .. L
    BY <1>1
  <2>2. s + 2 \in 1 .. L + 1
    BY <1>1
  <2>3. /\ b \in Seq(C)
        /\ Len(b) = IF s + 2 <= L THEN L - (s + 2) + 1 ELSE 0
        /\ \A k \in 1 .. L - (s + 2) + 1 : b[k] = q[(s + 2) + k - 1]
    BY <1>1, <1>3, <2>1, <2>2, SubSeqProperties
  <2> QED
    BY <1>1, <2>3
<1>6. <<e>> \in Seq(C) /\ Len(<<e>>) = 1 /\ <<e>>[1] = e
  BY <1>1
<1>7. PICK h : h = a \o <<e>>
  OBVIOUS
<1>8. h \in Seq(C) /\ Len(h) = s + 1 /\ \A k \in 1 .. s + 1 : h[k] = q[k]
  <2>1. /\ h \in Seq(C) /\ Len(h) = s + 1
        /\ \A k \in 1 .. s + 1 : h[k] = IF k <= s THEN a[k] ELSE <<e>>[k - s]
    BY <1>1, <1>4, <1>6, <1>7, ConcatProperties
  <2>2. ASSUME NEW k \in 1 .. s + 1 PROVE h[k] = q[k]
    <3>1. CASE k <= s
      BY <1>1, <1>4, <2>1, <3>1
    <3>2. CASE k = s + 1
      <4>1. k - s = 1
        BY <1>1, <3>2
      <4> QED
        BY <1>1, <1>6, <2>1, <3>2, <4>1
    <3> QED
      BY <1>1, <3>1, <3>2
  <2> QED
    BY <2>1, <2>2
<1>9. PICK j : j = h \o b
  OBVIOUS
<1>10. j \in Seq(C) /\ Len(j) = L
  <2>1. h \o b \in Seq(C) /\ Len(h \o b) = Len(h) + Len(b)
    BY <1>5, <1>8, ConcatProperties
  <2> QED
    BY <1>1, <1>5, <1>8, <1>9, <2>1
<1>11. ASSUME NEW k \in 1 .. L PROVE j[k] = q[k]
  <2>1. j[k] = IF k <= s + 1 THEN h[k] ELSE b[k - (s + 1)]
    BY <1>1, <1>5, <1>8, <1>9, ConcatProperties
  <2>2. CASE k <= s + 1
    BY <1>1, <1>8, <2>1, <2>2
  <2>3. CASE k > s + 1
    <3>1. k - (s + 1) \in 1 .. L - s - 1 /\ s + 1 + (k - (s + 1)) = k
      BY <1>1, <2>3
    <3> QED
      BY <1>1, <1>5, <2>1, <2>3, <3>1
  <2> QED
    BY <1>1, <2>2, <2>3
<1>12. j = q
  BY <1>10, <1>11, SeqEqual
<1> QED
  BY <1>2, <1>3, <1>7, <1>9, <1>12

\* The two cuts.
LEMMA CutsRight ==
    ASSUME StringTypeOK
    PROVE  SearchesRight
<1> DEFINE L == Len(source)
<1>1. L \in Nat /\ DOMAIN source = 1 .. L
  BY DEF StringTypeOK
<1>2. Occurrences = {n \in 0 .. L - 1 : source[n + 1] = sepr}
  BY DEF Occurrences
<1>3. ASSUME getLibName # <<>>, NEW n \in DOMAIN getLibName[1] PROVE getLibName[1][n] # sepr
  <2>1. lastFindSeparator >= 0 /\ getLibName[1] = SubSeq(source, lastFindSeparator + 2, L)
    BY <1>3 DEF getLibName
  <2>2. lastFindSeparator \in Occurrences /\ \A m \in Occurrences : m <= lastFindSeparator
    BY <2>1, SearchesGive
  <2> DEFINE s == lastFindSeparator
  <2>3. s \in 0 .. L - 1
    BY <1>2, <2>2
  <2>4. /\ DOMAIN SubSeq(source, s + 2, L) = 1 .. L - (s + 2) + 1
        /\ \A k \in 1 .. L - (s + 2) + 1 : SubSeq(source, s + 2, L)[k] = source[(s + 2) + k - 1]
    BY <1>1, <2>3 DEF StringTypeOK
  <2>5. n \in 1 .. L - s - 1 /\ getLibName[1][n] = source[s + n + 1]
    BY <1>1, <1>3, <2>1, <2>3, <2>4
  <2>6. s + n \in 0 .. L - 1 /\ ~ (s + n <= s)
    BY <1>1, <2>3, <2>5
  <2>7. s + n \notin Occurrences
    BY <2>2, <2>6
  <2> QED
    BY <1>2, <2>5, <2>6, <2>7
<1>4. ASSUME ConfLine # <<>> PROVE ConfLine[1] \o <<sepr>> \o ConfLine[2] = source
  <2>1. findSeparator # -1 /\ ConfLine = <<SubSeq(source, 1, findSeparator), SubSeq(source, findSeparator + 2, L)>>
    BY <1>4 DEF ConfLine
  <2>2. findSeparator \in 0 .. L - 1 /\ source[findSeparator + 1] = sepr
    BY <1>2, <2>1, SearchesGive
  <2>3. SubSeq(source, 1, findSeparator) \o <<sepr>> \o SubSeq(source, findSeparator + 2, L) = source
    BY <2>2, CutAndJoin DEF StringTypeOK
  <2> QED
    BY <2>1, <2>3
<1> QED
  BY <1>3, <1>4, SearchesGive DEF SearchesRight

\* Whatever the string and the separator are, the searches and the cuts made with
\* them are right.
THEOREM SearchesFind == StringSpec => []SearchesRight
<1>1. StringInit => StringTypeOK
  <2> SUFFICES ASSUME StringInit PROVE source \in Seq(Char)
    BY DEF StringInit, StringTypeOK
  <2> PICK n \in 0 .. MaxLen : source \in [1 .. n -> Char]
    BY DEF StringInit, String
  <2> QED
    BY StringAssumption
<1>2. StringTypeOK /\ [Call]_stringVars => StringTypeOK'
  BY DEF StringTypeOK, Call, stringVars
<1>3. StringTypeOK => SearchesRight
  BY CutsRight
<1> QED
  BY <1>1, <1>2, <1>3, PTL DEF StringSpec
=============================================================================
