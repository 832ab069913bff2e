----------------------------- MODULE CInterface -----------------------------
(***************************************************************************)
(* The C interface of the spatial index library as its callers use it:     *)
(* one action per function.  A caller fills a set of properties, creates   *)
(* an index from it, works on the index and destroys it; every function    *)
(* that fails pushes an error and says so by its result.                   *)
(*                                                                         *)
(* The trees are those of RTree, MVRTree and TreeSettings.  Here a tree is *)
(* its type, its settings and the data it holds, and a region a caller     *)
(* passes is its number of dimensions and the data it meets.               *)
(*                                                                         *)
(* A caller that passes a handle it has destroyed, an inverted region or   *)
(* the identifier of a tree of another type runs into undefined behaviour  *)
(* at once, and does not do so here.  A handle is NULL from its            *)
(* destruction on.                                                         *)
(***************************************************************************)
EXTENDS TreeSettings, FiniteSets

CONSTANTS
    NULL,
    Values,      \* name |-> the values a caller gives the property
    Ids,         \* identifiers of data
    Starts,      \* the properties a caller may have set at the start, and the files
    MaxTrees,    \* bound: trees in a file
    MaxSets,     \* bound: calls that set a property
    MaxErrors    \* bound: errors on the stack

VARIABLES
    errors,   \* the number of errors on the stack (sidx_api.cc: errors)
    hProp,    \* the caller's set of properties, or NULL
    index,    \* the caller's index, or NULL
    media,    \* what the storages hold: [disk |-> .., custom |-> ..]
    items,    \* data the caller holds copies of
    ret,      \* the result of the last call
    outside,  \* TRUE after a write outside an array
    sets      \* bound: calls that have set a property

interfaceVars == <<errors, hProp, index, media, items, ret, outside, sets>>

RT_Memory == 0
RT_Disk   == 1
RT_Custom == 2

RT_InvalidIndexType   == -99
RT_InvalidStorageType == -99

\* A function with one value more, or another one; and one over another.
Put(f, x, value) == [y \in {x} \cup DOMAIN f |-> IF y = x THEN value ELSE f[y]]
Over(f, g) == [x \in DOMAIN f \cup DOMAIN g |-> IF x \in DOMAIN f THEN f[x] ELSE g[x]]

\* A storage: "absent" when there are no files, "empty" when the files have no
\* pages on record yet, which cannot be opened, and "stored" with the trees that
\* their index lists, by the identifiers of their headers.
NoTrees == [n \in {} |-> NULL]
Medium(state, trees) == [state |-> state, trees |-> trees]

\* An index with a tree, or with none when its properties name no type.
Usable == index # NULL /\ index.tree # NULL
tree   == index.tree

-----------------------------------------------------------------------------
\* The results of a call.
Done == ret' = "RT_None" /\ errors' = errors

PushErrors(n) == errors + n <= MaxErrors /\ errors' = errors + n

Fail     == ret' = "RT_Failure" /\ PushErrors(1)
FailVoid == ret' = "void" /\ PushErrors(1)

Error_PushError == FailVoid /\ UNCHANGED <<hProp, index, media, items, outside, sets>>

Error_Pop ==
    /\ errors' = IF errors = 0 THEN 0 ELSE errors - 1
    /\ ret' = "void"
    /\ UNCHANGED <<hProp, index, media, items, outside, sets>>

\* The loop compares a growing count with a shrinking stack: half of it stays.
Error_Reset ==
    /\ errors' = errors \div 2
    /\ ret' = "void"
    /\ UNCHANGED <<hProp, index, media, items, outside, sets>>

-----------------------------------------------------------------------------
\* A set of properties.
GetDefaults ==
    [name \in (Common \cup {"Horizon", "Capacity", "WriteThrough", "Overwrite", "FileName", "PageSize",
               "IndexStorageType", "IndexType", "FileNameDat", "FileNameIdx",
               "CustomStorageCallbacksSize", "CustomStorageCallbacks"}) |->
        CASE name \in Common -> RTreeDefaults[name]
          [] name = "Horizon" -> 200
          [] name = "Capacity" -> 10
          [] name \in {"WriteThrough", "FileName", "CustomStorageCallbacksSize",
                       "CustomStorageCallbacks"} -> 0
          [] name = "Overwrite" -> 1
          [] name = "PageSize" -> 4096
          [] name = "IndexStorageType" -> RT_Disk
          [] name = "IndexType" -> RTree
          [] name \in {"FileNameDat", "FileNameIdx"} -> 1]

PropertyNames == DOMAIN GetDefaults \cup {"IndexIdentifier"}

IndexProperty_Create ==
    /\ hProp = NULL
    /\ hProp' = GetDefaults /\ Done
    /\ UNCHANGED <<index, media, items, outside, sets>>

IndexProperty_Destroy ==
    /\ IF hProp = NULL THEN FailVoid ELSE ret' = "void" /\ errors' = errors
    /\ hProp' = NULL
    /\ UNCHANGED <<index, media, items, outside, sets>>

\* A mutant: the value is refused when it has been written.
SetThenRefused(name, allowed) ==
    /\ \E value \in Values[name] :
           IF hProp = NULL \/ sets = MaxSets
           THEN Fail /\ UNCHANGED <<hProp, sets>>
           ELSE /\ sets' = sets + 1
                /\ hProp' = Put(hProp, name, value)
                /\ IF value \in allowed THEN Done ELSE Fail
    /\ UNCHANGED <<index, media, items, outside>>

\* setProperty, by a function that takes the values of a set.
setProperty(name, allowed) ==
    /\ \E value \in Values[name] :
           IF hProp = NULL \/ value \notin allowed
           THEN Fail /\ UNCHANGED <<hProp, sets>>
           ELSE /\ sets < MaxSets /\ sets' = sets + 1
                /\ hProp' = Put(hProp, name, value)
                /\ Done
    /\ UNCHANGED <<index, media, items, outside>>

\* The value a getter returns is the set's; only its failure is kept.
tellProperty(name) ==
    /\ IF hProp = NULL \/ name \notin DOMAIN hProp THEN Fail ELSE Done
    /\ UNCHANGED <<hProp, index, media, items, outside, sets>>

SetAndGet(name, allowed) == setProperty(name, allowed) \/ tellProperty(name)
Numbers(name) == SetAndGet(name, Values[name])

IndexProperty_IndexType == SetAndGet("IndexType", {RTree, MVRTree, TPRTree})
IndexProperty_Dimension == Numbers("Dimension")

\* The variant is checked against the type, and a missing type is told twice.
IndexProperty_SetIndexVariant ==
    /\ \E value \in Values["TreeVariant"] :
           IF hProp = NULL \/ value \notin {RV_LINEAR, RV_QUADRATIC, RV_RSTAR}
           THEN Fail /\ UNCHANGED <<hProp, sets>>
           ELSE IF "IndexType" \notin DOMAIN hProp
           THEN ret' = "RT_Failure" /\ PushErrors(2) /\ UNCHANGED <<hProp, sets>>
           ELSE /\ sets < MaxSets /\ sets' = sets + 1
                /\ hProp' = Put(hProp, "TreeVariant", value)
                /\ Done
    /\ UNCHANGED <<index, media, items, outside>>

IndexProperty_GetIndexVariant == tellProperty("TreeVariant")

IndexProperty_IndexStorage             == SetAndGet("IndexStorageType", {RT_Disk, RT_Memory, RT_Custom})
IndexProperty_IndexCapacity            == Numbers("IndexCapacity")
IndexProperty_LeafCapacity             == Numbers("LeafCapacity")
IndexProperty_Pagesize                 == Numbers("PageSize")
IndexProperty_LeafPoolCapacity         == Numbers("LeafPoolCapacity")
IndexProperty_IndexPoolCapacity        == Numbers("IndexPoolCapacity")
IndexProperty_RegionPoolCapacity       == Numbers("RegionPoolCapacity")
IndexProperty_PointPoolCapacity        == Numbers("PointPoolCapacity")
IndexProperty_NearMinimumOverlapFactor == Numbers("NearMinimumOverlapFactor")
IndexProperty_BufferingCapacity        == Numbers("Capacity")
IndexProperty_EnsureTightMBRs          == SetAndGet("EnsureTightMBRs", {0, 1})
IndexProperty_WriteThrough             == SetAndGet("WriteThrough", {0, 1})
IndexProperty_Overwrite                == SetAndGet("Overwrite", {0, 1})
IndexProperty_FillFactor               == Numbers("FillFactor")
IndexProperty_SplitDistributionFactor  == Numbers("SplitDistributionFactor")
IndexProperty_TPRHorizon               == Numbers("Horizon")
IndexProperty_ReinsertFactor           == Numbers("ReinsertFactor")
IndexProperty_FileName                 == Numbers("FileName")
IndexProperty_FileNameExtensionDat     == Numbers("FileNameDat")
IndexProperty_FileNameExtensionIdx     == Numbers("FileNameIdx")
IndexProperty_CustomStorageCallbacksSize == Numbers("CustomStorageCallbacksSize")
IndexProperty_IndexID                  == Numbers("IndexIdentifier")

\* The callbacks are copied when the size set before is that of the structure.
CallbacksSize == 64
IndexProperty_CustomStorageCallbacks ==
    \/ \E unset \in {0, CallbacksSize} :  \* what an empty value happens to hold
          setProperty("CustomStorageCallbacks",
              {value \in Values["CustomStorageCallbacks"] :
                  getProperty(hProp, "CustomStorageCallbacksSize", unset) = CallbacksSize})
    \/ tellProperty("CustomStorageCallbacks")

PropertyCall ==
    \/ IndexProperty_IndexType \/ IndexProperty_Dimension
    \/ IndexProperty_SetIndexVariant \/ IndexProperty_GetIndexVariant
    \/ IndexProperty_IndexStorage \/ IndexProperty_IndexCapacity \/ IndexProperty_LeafCapacity
    \/ IndexProperty_Pagesize \/ IndexProperty_LeafPoolCapacity \/ IndexProperty_IndexPoolCapacity
    \/ IndexProperty_RegionPoolCapacity \/ IndexProperty_PointPoolCapacity
    \/ IndexProperty_NearMinimumOverlapFactor \/ IndexProperty_BufferingCapacity
    \/ IndexProperty_EnsureTightMBRs \/ IndexProperty_WriteThrough \/ IndexProperty_Overwrite
    \/ IndexProperty_FillFactor \/ IndexProperty_SplitDistributionFactor \/ IndexProperty_TPRHorizon
    \/ IndexProperty_ReinsertFactor \/ IndexProperty_FileName \/ IndexProperty_FileNameExtensionDat
    \/ IndexProperty_FileNameExtensionIdx \/ IndexProperty_CustomStorageCallbacksSize
    \/ IndexProperty_CustomStorageCallbacks \/ IndexProperty_IndexID

-----------------------------------------------------------------------------
\* CreateStorage and CreateIndexBuffer: the storage the properties name, with
\* what it holds once it is open, or "none" when one of the two throws.
GetIndexStorage(ps) == getProperty(ps, "IndexStorageType", RT_InvalidStorageType)
GetIndexType(ps)    == getProperty(ps, "IndexType", RT_InvalidIndexType)

\* Opening with Overwrite, or where there are no files, empties the files, also
\* when the constructor then finds no page size.
Emptied(ps) ==
    /\ GetIndexStorage(ps) = RT_Disk /\ getProperty(ps, "FileName", 0) # 0
    /\ getProperty(ps, "Overwrite", 0) = 1 \/ media["disk"].state = "absent"

CreateStorage(ps) ==
    CASE /\ GetIndexStorage(ps) = RT_Disk /\ getProperty(ps, "FileName", 0) # 0
         /\ IF getProperty(ps, "Overwrite", 0) = 1 THEN "PageSize" \in DOMAIN ps
            ELSE media["disk"].state = "stored" -> "disk"
      [] GetIndexStorage(ps) = RT_Memory -> "memory"
      [] GetIndexStorage(ps) = RT_Custom /\ ps["CustomStorageCallbacks"] # 0 -> "custom"
      [] OTHER -> "none"

After(ps) == IF Emptied(ps) THEN [media EXCEPT !["disk"] = Medium("empty", NoTrees)] ELSE media

\* A mutant: the header takes the place of the trees before it.
WithAlone(m, n, type, s, data) ==
    [media EXCEPT ![m] = Medium("stored",
        Put(NoTrees, n, [type |-> type, header |-> Header(type, s), data |-> data]))]

\* A storage after a tree has stored its header in it.
With(m, n, type, s, data) ==
    [media EXCEPT ![m] = Medium("stored",
        Put(media[m].trees, n, [type |-> type, header |-> Header(type, s), data |-> data]))]

Trees(m, on) == IF m \in DOMAIN on THEN on[m].trees ELSE NoTrees

Index(m, n, type, s, data) ==
    [medium |-> m, id |-> n, tree |-> [type |-> type, s |-> s, data |-> data]]

\* Index_Create: the storage, the buffer and the tree, new or opened again by
\* its identifier.  The constructor that throws leaves the files as they are.
Index_Create ==
    /\ index = NULL
    /\ IF hProp = NULL THEN Fail /\ UNCHANGED <<index, media>>
       ELSE LET ps    == hProp
                m     == CreateStorage(ps)
                trees == Trees(m, After(ps))
                type  == GetIndexType(ps)
                new   == Cardinality(DOMAIN trees) + 1
            IN  /\ GetIndexStorage(ps) = RT_Custom => "CustomStorageCallbacks" \in DOMAIN ps
                /\ new <= MaxTrees
                /\ media' = After(ps)
                /\ CASE m = "none" -> Fail /\ UNCHANGED index
                     [] m # "none" /\ type = RT_InvalidIndexType ->
                          index' = [medium |-> m, id |-> 0, tree |-> NULL] /\ Done
                     [] m # "none" /\ type # RT_InvalidIndexType /\ "IndexIdentifier" \notin DOMAIN ps ->
                          IF AcceptsNew(type, ps)
                          THEN index' = Index(m, new, type, New(type, ps), {}) /\ Done
                          ELSE Fail /\ UNCHANGED index
                     [] OTHER ->
                          LET n == ps["IndexIdentifier"]
                          IN  IF n \notin DOMAIN trees THEN Fail /\ UNCHANGED index
                              ELSE /\ trees[n].type = type
                                   /\ IF AcceptsOld(type, trees[n].header, ps)
                                      THEN /\ index' = Index(m, n, type, Old(type, trees[n].header, ps),
                                                             trees[n].data)
                                           /\ Done
                                      ELSE Fail /\ UNCHANGED index
    /\ UNCHANGED <<hProp, items, outside, sets>>

\* createNewRTree sets five properties, and the rest are the constructor's.
createNewRTree(ps) ==
    [name \in {"FillFactor", "IndexCapacity", "LeafCapacity", "Dimension", "TreeVariant"} |->
        getProperty(ps, name, RTreeDefaults[name])]

\* The loader never ends when a node would take one entry, or none.
LoaderEnds(ps) ==
    \A name \in {"IndexCapacity", "LeafCapacity"} : (ps[name] * ps["FillFactor"]) \div 10 >= 2

\* Index_CreateWithStream: an R-tree whatever the type, filled with the data the
\* stream yields; an empty stream is refused when the new tree is already made.
Index_CreateWithStream ==
    /\ index = NULL
    /\ IF hProp = NULL THEN Fail /\ UNCHANGED <<index, media>>
       ELSE LET m     == CreateStorage(hProp)
                trees == Trees(m, After(hProp))
                ps    == createNewRTree(hProp)
                new   == Cardinality(DOMAIN trees) + 1
            IN  /\ GetIndexStorage(hProp) = RT_Custom => "CustomStorageCallbacks" \in DOMAIN hProp
                /\ new <= MaxTrees
                /\ IF m = "none" \/ ~RTreeAcceptsNew(ps)
                   THEN Fail /\ UNCHANGED index /\ media' = After(hProp)
                   ELSE \E data \in SUBSET Ids :
                          IF data = {}
                          THEN /\ Fail /\ UNCHANGED index
                               /\ media' = IF m = "custom"
                                           THEN With("custom", new, RTree, NewRTree(ps), {})
                                           ELSE After(hProp)
                          ELSE /\ LoaderEnds(ps) /\ media' = After(hProp)
                               /\ index' = Index(m, new, RTree, NewRTree(ps), data) /\ Done
    /\ UNCHANGED <<hProp, items, outside, sets>>

\* The destructors: the tree stores its header, the buffer what it holds back,
\* the file storage its index.
Index_Destroy ==
    /\ IF index = NULL THEN FailVoid /\ UNCHANGED <<index, media>>
       ELSE /\ ret' = "void" /\ errors' = errors /\ index' = NULL
            /\ media' =
                 IF index.medium = "memory" THEN media
                 ELSE IF tree = NULL THEN [media EXCEPT ![index.medium].state = "stored"]
                 ELSE With(index.medium, index.id, tree.type, tree.s, tree.data)
    /\ UNCHANGED <<hProp, items, outside, sets>>

-----------------------------------------------------------------------------
\* Calls on an index: on NULL they fail, and on an index without a tree they
\* would call a function of nothing.
OnIndex(Call) ==
    /\ index # NULL => Usable
    /\ IF index = NULL THEN Fail /\ UNCHANGED <<index, items, outside>> ELSE Call
    /\ UNCHANGED <<hProp, media, sets>>

Rejected == Fail /\ UNCHANGED <<index, items, outside>>

\* A shape of the wrong number of dimensions is refused, and so is, by the trees
\* of moving or of versioned data, every shape this interface can make.
Takes(dimension) == dimension = tree.s["Dimension"] /\ tree.type = RTree

Index_InsertData ==
    \E id \in Ids, dimension \in Values["Dimension"] :
        OnIndex(IF ~Takes(dimension) THEN Rejected
                ELSE /\ id \notin tree.data
                     /\ index' = [index EXCEPT !.tree.data = @ \cup {id}]
                     /\ Done /\ UNCHANGED <<items, outside>>)

\* Whether something was there to delete is not told.
Index_DeleteData ==
    \E id \in Ids, dimension \in Values["Dimension"] :
        OnIndex(IF ~Takes(dimension) THEN Rejected
                ELSE /\ index' = [index EXCEPT !.tree.data = @ \ {id}]
                     /\ Done /\ UNCHANGED <<items, outside>>)

\* The region of a query is known by the data it meets.
Index_Intersects_obj ==
    \E meets \in SUBSET Ids, dimension \in Values["Dimension"] :
        OnIndex(IF ~Takes(dimension) THEN Rejected
                ELSE items' = tree.data \cap meets /\ Done /\ UNCHANGED <<index, outside>>)

\* Of the ids and of the count nothing stays behind.
Index_Intersects_id ==
    \E dimension \in Values["Dimension"] :
        OnIndex(IF ~Takes(dimension) THEN Rejected ELSE Done /\ UNCHANGED <<index, items, outside>>)

Index_Intersects_count ==
    \E dimension \in Values["Dimension"] :
        OnIndex(IF ~Takes(dimension) THEN Rejected ELSE Done /\ UNCHANGED <<index, items, outside>>)

\* The nearest k, and those as near as the last of them.
Nearest(k, found) == found \subseteq tree.data /\ (Cardinality(found) >= k \/ found = tree.data)

Index_NearestNeighbors_id ==
    \E dimension \in Values["Dimension"] :
        OnIndex(IF ~Takes(dimension) THEN Rejected ELSE Done /\ UNCHANGED <<index, items, outside>>)

Index_NearestNeighbors_obj ==
    \E k \in 1 .. 2, found \in SUBSET Ids, dimension \in Values["Dimension"] :
        OnIndex(IF ~Takes(dimension) THEN Rejected
                ELSE Nearest(k, found) /\ items' = found /\ Done /\ UNCHANGED <<index, outside>>)

Index_GetBounds == OnIndex(Done /\ UNCHANGED <<index, items, outside>>)
Index_IsValid   == OnIndex(Done /\ UNCHANGED <<index, items, outside>>)

\* The bounds of a leaf are copied, one number per dimension, to an array with
\* room for one per entry of the leaf.
Index_GetLeaves ==
    OnIndex(/\ outside' = (Cardinality(tree.data) < tree.s["Dimension"])
            /\ Done /\ UNCHANGED <<index, items>>)

\* The properties of the tree, as a set of its own.
Index_GetProperties ==
    /\ hProp = NULL
    /\ index # NULL => Usable
    /\ IF index = NULL THEN Fail /\ UNCHANGED hProp
       ELSE hProp' = Properties(tree.type, tree.s) /\ Done
    /\ UNCHANGED <<index, media, items, outside, sets>>

Index_ClearBuffer ==
    /\ IF index = NULL THEN FailVoid ELSE ret' = "void" /\ errors' = errors
    /\ UNCHANGED <<hProp, index, media, items, outside, sets>>

-----------------------------------------------------------------------------
\* The copies of data a query has given, and their release.
OnItems(result) ==
    /\ IF items = {} THEN (IF result = "void" THEN FailVoid ELSE Fail)
       ELSE ret' = result /\ errors' = errors
    /\ UNCHANGED <<hProp, index, media, outside, sets>>

Index_DestroyObjResults == OnItems("void") /\ items' = {}
Index_Free ==
    /\ \/ FailVoid
       \/ ret' = "void" /\ errors' = errors
    /\ UNCHANGED <<hProp, index, media, items, outside, sets>>
IndexItem_Destroy       == OnItems("void") /\ (items # {} => \E id \in items : items' = items \ {id})
                                           /\ (items = {} => UNCHANGED items)
IndexItem_GetData       == OnItems("RT_None") /\ UNCHANGED items
IndexItem_GetID         == OnItems("RT_None") /\ UNCHANGED items
IndexItem_GetBounds     == OnItems("RT_None") /\ UNCHANGED items

-----------------------------------------------------------------------------
\* The settings of a tree fit each other: an overlap factor within the capacities
\* (but for that of the constructor, which a bulk-loaded tree keeps whatever its
\* capacities are), and factors and dimensions in their ranges.
Fits(type, s) ==
    /\ s["NearMinimumOverlapFactor"] >= 1
    /\ \/ /\ s["NearMinimumOverlapFactor"] <= s["IndexCapacity"]
          /\ s["NearMinimumOverlapFactor"] <= s["LeafCapacity"]
       \/ s["NearMinimumOverlapFactor"] = RTreeDefaults["NearMinimumOverlapFactor"] /\ type = RTree
    /\ s["IndexCapacity"] >= 4 /\ s["LeafCapacity"] >= 4 /\ s["Dimension"] >= 2
    /\ \A name \in {"FillFactor", "SplitDistributionFactor", "ReinsertFactor"} :
           s[name] > 0 /\ s[name] < 10
    /\ type = TPRTree => s["Horizon"] > 0

\* The settings a tree of a type has, and the header and the medium a caller may
\* find: files that the library has written, with the trees in the order in which
\* they were made.
Types == {RTree, MVRTree, TPRTree}
Names(type) ==
    Common \cup (IF type = MVRTree THEN VersionSettings ELSE {})
           \cup (IF type = TPRTree THEN {"Horizon"} ELSE {})
Variants(type) == IF type = TPRTree THEN {TPRV_RSTAR} ELSE {RV_LINEAR, RV_QUADRATIC, RV_RSTAR}

SettingsOK(type, s) ==
    type \in Types /\ s \in [Names(type) -> Int] /\ Fits(type, s) /\ s["TreeVariant"] \in Variants(type)

HeaderOK(type, h) ==
    /\ type \in Types /\ h \in [Names(type) \ Pools -> Int]
    /\ Fits(type, h) /\ h["TreeVariant"] \in Variants(type)

MediumOK(medium) ==
    /\ IsFiniteSet(DOMAIN medium.trees)
    /\ DOMAIN medium.trees = 1 .. Cardinality(DOMAIN medium.trees)
    /\ \A n \in DOMAIN medium.trees :
           /\ HeaderOK(medium.trees[n].type, medium.trees[n].header)
           /\ medium.trees[n].data \subseteq Ids

Settings == [Names(RTree) -> Int] \cup [Names(MVRTree) -> Int] \cup [Names(TPRTree) -> Int]
TreeSet  == [type : Types, s : Settings, data : SUBSET Ids]
Indexes  == [medium : {"disk", "custom", "memory"}, id : Nat, tree : TreeSet \cup {NULL}]

ASSUME CallerAssumption ==
    /\ NULL \notin TreeSet /\ NULL \notin Indexes
    /\ Values \in [PropertyNames -> SUBSET Int]
    /\ \A start \in Starts :
           MediumOK(start.files) /\ \A name \in DOMAIN start.set : start.set[name] \in Int

-----------------------------------------------------------------------------
InterfaceInit ==
    /\ errors = 0 /\ index = NULL /\ items = {} /\ ret = "void" /\ outside = FALSE /\ sets = 0
    /\ \E start \in Starts :
           /\ hProp = Over(start.set, GetDefaults)
           /\ media = [disk |-> start.files, custom |-> Medium("stored", NoTrees)]

InterfaceNext ==
    /\ ~outside
    /\ \/ Error_PushError \/ Error_Pop \/ Error_Reset
       \/ IndexProperty_Create \/ IndexProperty_Destroy \/ PropertyCall
       \/ Index_Create \/ Index_CreateWithStream \/ Index_Destroy
       \/ Index_InsertData \/ Index_DeleteData
       \/ Index_Intersects_obj \/ Index_Intersects_id \/ Index_Intersects_count
       \/ Index_NearestNeighbors_id \/ Index_NearestNeighbors_obj
       \/ Index_GetBounds \/ Index_IsValid \/ Index_GetLeaves
       \/ Index_GetProperties \/ Index_ClearBuffer
       \/ Index_DestroyObjResults \/ Index_Free
       \/ IndexItem_Destroy \/ IndexItem_GetData \/ IndexItem_GetID \/ IndexItem_GetBounds

InterfaceSpec == InterfaceInit /\ [][InterfaceNext]_interfaceVars
-----------------------------------------------------------------------------
\* What the tree with a header n of a storage holds, as a set of at most one.
Holds(m, n) ==
    IF index # NULL /\ Usable /\ index.medium = m /\ index.id = n THEN {tree.data}
    ELSE IF n \in DOMAIN media[m].trees THEN {media[m].trees[n].data} ELSE {}

\* A tree's data change one by one, through its own index, from call to call and
\* from one index that opens it to the next; all the trees of a file are gone
\* only after a call to create an index that asks for them to be overwritten.
DataKeptStep ==
    \A m \in {"disk", "custom"}, n \in 1 .. MaxTrees :
        \/ Holds(m, n)' = Holds(m, n) \/ Holds(m, n) = {}
        \/ m = "disk" /\ index = NULL /\ hProp # NULL /\ Emptied(hProp)
        \/ /\ index # NULL /\ index' # NULL /\ index.medium = m /\ index.id = n
           /\ \E id \in Ids : index'.tree.data \ {id} = tree.data \ {id}

\* A call that fails says why, and but for the files that creating an index has
\* emptied, it leaves everything as it was.
FailuresToldStep ==
    ret' = "RT_Failure" =>
        /\ errors' > errors
        /\ UNCHANGED <<hProp, index, items>>
        /\ media'["disk"] # media["disk"] => index = NULL /\ Emptied(hProp)

DataKept     == [][DataKeptStep]_interfaceVars
FailuresTold == [][FailuresToldStep]_interfaceVars

\* Every open tree has settings that fit, and would be the same if it were opened
\* again with the properties it tells.
SettingsFit ==
    index # NULL /\ Usable =>
        /\ Fits(tree.type, tree.s)
        /\ NearFits(tree.s, tree.s) =>
              LET told == Properties(tree.type, tree.s)
                  kept == Header(tree.type, tree.s)
              IN  AcceptsOld(tree.type, kept, told) /\ Old(tree.type, kept, told) = tree.s
=============================================================================
