-------------------------- MODULE CInterfaceProofs --------------------------
(***************************************************************************)
(* Proofs about the C interface of the spatial index library, for every    *)
(* caller and every start the assumption of CInterface allows.             *)
(*                                                                         *)
(* The settings: what the checks of a new tree, of a bulk-loaded one and   *)
(* of one that is opened again let through fits, a header fits when the    *)
(* tree's settings do, and a tree told to itself is the same tree.         *)
(*                                                                         *)
(* The calls: those that leave the index and the storages alone, Reading,  *)
(* and one lemma for each of the rest.  The invariant has what they need:  *)
(* a set of properties has all the names the trees share, so that every    *)
(* check looks at a value; the trees of a storage are numbered without a   *)
(* gap, so that the next is a new one; and the tree of an open index is    *)
(* one of its storage, or the next.                                        *)
(***************************************************************************)
EXTENDS CInterface, FiniteSetTheorems, TLAPS

\* A set of properties has all the names the trees share.
PropertiesOK(ps) ==
    /\ Common \subseteq DOMAIN ps
    /\ \A name \in DOMAIN ps : ps[name] \in Int

\* The storages that outlive an index.
Stored == {"disk", "custom"}
MediaOK(md) ==
    /\ md = [m \in Stored |-> md[m]]
    /\ \A m \in Stored : MediumOK(md[m])

\* The tree of an open index has settings that fit, and the place of a tree of its
\* storage or of the next one.
IndexOK ==
    /\ index \in Indexes
    /\ index.tree # NULL =>
           /\ SettingsOK(index.tree.type, index.tree.s)
           /\ index.id # 0
           /\ index.medium # "memory" =>
                  index.id <= Cardinality(DOMAIN media[index.medium].trees) + 1

InterfaceInv ==
    /\ errors \in Nat
    /\ hProp # NULL => PropertiesOK(hProp)
    /\ MediaOK(media)
    /\ index # NULL => IndexOK

-----------------------------------------------------------------------------
\* Whatever the properties, the values that are taken over are numbers, and each
\* is that of the properties or the one before.
LEMMA TakenType ==
    ASSUME NEW D, NEW s \in [D -> Int], NEW ps, \A name \in DOMAIN ps : ps[name] \in Int, NEW names
    PROVE  /\ Taken(s, ps, names) \in [D -> Int]
           /\ \A name \in D : name \in names /\ name \in DOMAIN ps => Taken(s, ps, names)[name] = ps[name]
           /\ \A name \in D : name \notin names \/ name \notin DOMAIN ps => Taken(s, ps, names)[name] = s[name]
  BY DEF Taken, getProperty

\* The constructors' settings are numbers, and they fit.
LEMMA DefaultsType ==
    /\ RTreeDefaults \in [Common -> Int]
    /\ MVRTreeDefaults \in [Common \cup VersionSettings -> Int]
    /\ TPRTreeDefaults \in [Common \cup {"Horizon"} -> Int]
  BY DEF RTreeDefaults, MVRTreeDefaults, TPRTreeDefaults, Common, VersionSettings, RV_RSTAR, TPRV_RSTAR

LEMMA DefaultsFit ==
    /\ Fits(RTree, RTreeDefaults) /\ Fits(MVRTree, MVRTreeDefaults) /\ Fits(TPRTree, TPRTreeDefaults)
    /\ RTreeDefaults["TreeVariant"] = RV_RSTAR /\ MVRTreeDefaults["TreeVariant"] = RV_RSTAR
    /\ TPRTreeDefaults["TreeVariant"] = TPRV_RSTAR
  BY DEF RTreeDefaults, MVRTreeDefaults, TPRTreeDefaults, Common, VersionSettings, RV_RSTAR, TPRV_RSTAR, Fits,
         RTree, MVRTree, TPRTree

\* The settings and the variants of the three trees.
LEMMA NamesOf ==
    /\ Names(RTree) = Common /\ Names(MVRTree) = Common \cup VersionSettings
    /\ Names(TPRTree) = Common \cup {"Horizon"}
    /\ \A type \in Types : Common \subseteq Names(type)
    /\ Variants(RTree) = {RV_LINEAR, RV_QUADRATIC, RV_RSTAR}
    /\ Variants(MVRTree) = {RV_LINEAR, RV_QUADRATIC, RV_RSTAR}
    /\ Variants(TPRTree) = {TPRV_RSTAR}
  BY DEF Names, Variants, RTree, MVRTree, TPRTree, Types

\* The checks of a new tree are enough: of every setting they look at, either the
\* properties give a value that fits, or the constructor's is kept, which does.
LEMMA NewSettings ==
    ASSUME NEW type \in Types, NEW d \in [Names(type) -> Int], Fits(type, d),
           d["TreeVariant"] \in Variants(type),
           d["NearMinimumOverlapFactor"] = RTreeDefaults["NearMinimumOverlapFactor"],
           NEW ps, \A name \in DOMAIN ps : ps[name] \in Int,
           type = RTree \/ "NearMinimumOverlapFactor" \in DOMAIN ps,
           NEW least \in {4, 10},
           VariantFits(ps, Variants(type)), NewFits(ps, Taken(d, ps, Names(type)), least),
           type = TPRTree => AtLeast(ps, "Horizon", 1)
    PROVE  SettingsOK(type, Taken(d, ps, Names(type)))
<1> DEFINE N == Names(type)
<1> DEFINE s == Taken(d, ps, N)
<1>1. Common \subseteq N
  BY NamesOf
<1>2. /\ s \in [N -> Int]
      /\ \A name \in N : name \in DOMAIN ps => s[name] = ps[name]
      /\ \A name \in N : name \notin DOMAIN ps => s[name] = d[name]
  <2>1. \A name \in N : name \in N
    OBVIOUS
  <2> QED
    BY <2>1, TakenType
<1>3. "Horizon" \in N \/ type # TPRTree
  BY NamesOf
<1>4. NewFits(ps, s, least)
  OBVIOUS
<1> HIDE DEF s, N
<1>5. /\ "FillFactor" \in N /\ "SplitDistributionFactor" \in N /\ "ReinsertFactor" \in N
      /\ "IndexCapacity" \in N /\ "LeafCapacity" \in N /\ "NearMinimumOverlapFactor" \in N
      /\ "Dimension" \in N /\ "TreeVariant" \in N
  BY <1>1 DEF Common
<1>6. s["TreeVariant"] \in Variants(type)
  BY <1>2, <1>5 DEF VariantFits
<1>7. s["IndexCapacity"] >= 4 /\ s["LeafCapacity"] >= 4 /\ s["Dimension"] >= 2
  BY <1>2, <1>4, <1>5 DEF NewFits, AtLeast, Fits
<1>8. \A name \in {"FillFactor", "SplitDistributionFactor", "ReinsertFactor"} : s[name] > 0 /\ s[name] < 10
  BY <1>2, <1>4, <1>5 DEF NewFits, Proper, Fits
<1>9. type = TPRTree => s["Horizon"] > 0
  BY <1>2, <1>3 DEF AtLeast, Fits
<1>10. /\ s["NearMinimumOverlapFactor"] >= 1
       /\ \/ /\ s["NearMinimumOverlapFactor"] <= s["IndexCapacity"]
             /\ s["NearMinimumOverlapFactor"] <= s["LeafCapacity"]
          \/ s["NearMinimumOverlapFactor"] = RTreeDefaults["NearMinimumOverlapFactor"] /\ type = RTree
  <2>1. CASE "NearMinimumOverlapFactor" \in DOMAIN ps
    BY <2>1, <1>2, <1>4, <1>5 DEF NewFits, NearFits
  <2>2. CASE "NearMinimumOverlapFactor" \notin DOMAIN ps
    BY <2>2, <1>2, <1>5 DEF Fits
  <2> QED
    BY <2>1, <2>2
<1>11. Fits(type, s)
  BY <1>7, <1>8, <1>9, <1>10 DEF Fits
<1>12. SettingsOK(type, s)
  BY <1>2, <1>6, <1>11 DEF SettingsOK, N
<1> QED
  BY <1>12 DEF s, N

\* A new tree has settings that fit.
LEMMA NewOK ==
    ASSUME NEW type, NEW ps, PropertiesOK(ps), AcceptsNew(type, ps)
    PROVE  SettingsOK(type, New(type, ps))
<1>1. /\ \A name \in DOMAIN ps : ps[name] \in Int
      /\ "NearMinimumOverlapFactor" \in DOMAIN ps
  BY DEF PropertiesOK, Common
<1>2. CASE type = RTree
  <2>1. New(type, ps) = Taken(RTreeDefaults, ps, Names(RTree))
    BY <1>2, NamesOf DEF New, NewRTree, RTree, MVRTree, TPRTree
  <2>2. VariantFits(ps, Variants(RTree)) /\ NewFits(ps, Taken(RTreeDefaults, ps, Names(RTree)), 4)
    <3>1. RTreeAcceptsNew(ps)
      BY <1>2 DEF AcceptsNew, RTree, MVRTree, TPRTree
    <3>2. NewRTree(ps) = Taken(RTreeDefaults, ps, Names(RTree))
      BY NamesOf DEF NewRTree
    <3> QED
      BY <3>1, <3>2, NamesOf DEF RTreeAcceptsNew
  <2>3. RTreeDefaults \in [Names(RTree) -> Int] /\ RTreeDefaults["TreeVariant"] \in Variants(RTree)
        /\ Fits(RTree, RTreeDefaults) /\ RTree \in Types /\ RTree # TPRTree
    BY DefaultsType, DefaultsFit, NamesOf DEF Types, RTree, MVRTree, TPRTree
  <2> QED
    BY <1>1, <1>2, <2>1, <2>2, <2>3, NewSettings
<1>3. CASE type = MVRTree
  <2>1. New(type, ps) = Taken(MVRTreeDefaults, ps, Names(MVRTree))
    BY <1>3, NamesOf DEF New, NewMVRTree, RTree, MVRTree, TPRTree
  <2>2. VariantFits(ps, Variants(MVRTree)) /\ NewFits(ps, Taken(MVRTreeDefaults, ps, Names(MVRTree)), 10)
    <3>1. MVRTreeAcceptsNew(ps)
      BY <1>3 DEF AcceptsNew, RTree, MVRTree, TPRTree
    <3>2. NewMVRTree(ps) = Taken(MVRTreeDefaults, ps, Names(MVRTree))
      BY NamesOf DEF NewMVRTree
    <3> QED
      BY <3>1, <3>2, NamesOf DEF MVRTreeAcceptsNew
  <2>3. MVRTreeDefaults \in [Names(MVRTree) -> Int] /\ MVRTreeDefaults["TreeVariant"] \in Variants(MVRTree)
        /\ Fits(MVRTree, MVRTreeDefaults) /\ MVRTree \in Types /\ MVRTree # TPRTree
    BY DefaultsType, DefaultsFit, NamesOf DEF Types, RTree, MVRTree, TPRTree
  <2>4. MVRTreeDefaults["NearMinimumOverlapFactor"] = RTreeDefaults["NearMinimumOverlapFactor"]
    BY DEF MVRTreeDefaults, Common
  <2> QED
    BY <1>1, <1>3, <2>1, <2>2, <2>3, <2>4, NewSettings
<1>4. CASE type = TPRTree
  <2>1. New(type, ps) = Taken(TPRTreeDefaults, ps, Names(TPRTree))
    BY <1>4, NamesOf DEF New, NewTPRTree, RTree, MVRTree, TPRTree
  <2>2. VariantFits(ps, Variants(TPRTree)) /\ NewFits(ps, Taken(TPRTreeDefaults, ps, Names(TPRTree)), 4)
        /\ AtLeast(ps, "Horizon", 1)
    <3>1. TPRTreeAcceptsNew(ps)
      BY <1>4 DEF AcceptsNew, RTree, MVRTree, TPRTree
    <3>2. NewTPRTree(ps) = Taken(TPRTreeDefaults, ps, Names(TPRTree))
      BY NamesOf DEF NewTPRTree
    <3> QED
      BY <3>1, <3>2, NamesOf DEF TPRTreeAcceptsNew
  <2>3. TPRTreeDefaults \in [Names(TPRTree) -> Int] /\ TPRTreeDefaults["TreeVariant"] \in Variants(TPRTree)
        /\ Fits(TPRTree, TPRTreeDefaults) /\ TPRTree \in Types
    BY DefaultsType, DefaultsFit, NamesOf DEF Types, RTree, MVRTree, TPRTree
  <2>4. TPRTreeDefaults["NearMinimumOverlapFactor"] = RTreeDefaults["NearMinimumOverlapFactor"]
    BY DEF TPRTreeDefaults, Common
  <2> QED
    BY <1>1, <1>4, <2>1, <2>2, <2>3, <2>4, NewSettings
<1> QED
  BY <1>2, <1>3, <1>4 DEF AcceptsNew

\* A bulk load passes five of the properties on, and the overlap factor is not
\* among them: an R-tree may keep the constructor's.
LEMMA BulkOK ==
    ASSUME NEW ps, PropertiesOK(ps), RTreeAcceptsNew(createNewRTree(ps))
    PROVE  SettingsOK(RTree, NewRTree(createNewRTree(ps)))
<1> PICK given : given = createNewRTree(ps)
  OBVIOUS
<1>1. \A name \in DOMAIN given : given[name] \in Int
  <2>1. \A name \in DOMAIN given : given[name] = getProperty(ps, name, RTreeDefaults[name])
    BY DEF createNewRTree
  <2>2. \A name \in DOMAIN given : name \in Common
    BY DEF createNewRTree, Common
  <2> QED
    BY <2>1, <2>2, DefaultsType DEF getProperty, PropertiesOK
<1>2. NewRTree(given) = Taken(RTreeDefaults, given, Names(RTree))
  BY NamesOf DEF NewRTree
<1>3. VariantFits(given, Variants(RTree)) /\ NewFits(given, Taken(RTreeDefaults, given, Names(RTree)), 4)
  BY NamesOf DEF RTreeAcceptsNew, NewRTree
<1>4. RTreeDefaults \in [Names(RTree) -> Int] /\ RTreeDefaults["TreeVariant"] \in Variants(RTree)
      /\ Fits(RTree, RTreeDefaults) /\ RTree \in Types /\ RTree # TPRTree
  BY DefaultsType, DefaultsFit, NamesOf DEF Types, RTree, MVRTree, TPRTree
<1> QED
  BY <1>1, <1>2, <1>3, <1>4, NewSettings

\* A header has every setting but the capacities of the pools, and they are what
\* the tree that is opened again starts from.
LEMMA Loaded ==
    ASSUME NEW type \in Types, NEW d \in [Names(type) -> Int], NEW h, HeaderOK(type, h)
    PROVE  /\ Taken(d, h, DOMAIN h) \in [Names(type) -> Int]
           /\ \A name \in Names(type) \ Pools : Taken(d, h, DOMAIN h)[name] = h[name]
<1>1. DOMAIN h = Names(type) \ Pools /\ \A name \in DOMAIN h : h[name] \in Int
  BY DEF HeaderOK
<1> QED
  BY <1>1, TakenType

\* The checks of a tree that is opened again are enough: the capacities, the fill
\* factor and the dimension are the header's, and what replaces the rest fits.
LEMMA OldSettings ==
    ASSUME NEW type \in Types, NEW d \in [Names(type) -> Int], NEW h, HeaderOK(type, h),
           NEW ps, \A name \in DOMAIN ps : ps[name] \in Int,
           "NearMinimumOverlapFactor" \in DOMAIN ps,
           VariantFits(ps, Variants(type)), OldFits(ps, Taken(d, h, DOMAIN h)),
           type = TPRTree => AtLeast(ps, "Horizon", 1),
           NEW names \in {Reopened, Reopened \cup {"Horizon"}}
    PROVE  SettingsOK(type, Taken(Taken(d, h, DOMAIN h), ps, names))
<1> DEFINE N == Names(type)
<1> DEFINE load == Taken(d, h, DOMAIN h)
<1> DEFINE s == Taken(load, ps, names)
<1>1. Common \subseteq N /\ ("Horizon" \in N \/ type # TPRTree)
  BY NamesOf
<1>2. load \in [N -> Int] /\ \A name \in N \ Pools : load[name] = h[name]
  BY Loaded
<1>3. OldFits(ps, load)
  OBVIOUS
<1> HIDE DEF load
<1>4. /\ s \in [N -> Int]
      /\ \A name \in N : name \in names /\ name \in DOMAIN ps => s[name] = ps[name]
      /\ \A name \in N : name \notin names \/ name \notin DOMAIN ps => s[name] = load[name]
  BY <1>2, TakenType
<1> HIDE DEF s, N
<1>5. /\ "FillFactor" \in N \ Pools /\ "SplitDistributionFactor" \in N \ Pools
      /\ "ReinsertFactor" \in N \ Pools /\ "IndexCapacity" \in N \ Pools /\ "LeafCapacity" \in N \ Pools
      /\ "NearMinimumOverlapFactor" \in N \ Pools /\ "Dimension" \in N \ Pools
      /\ "TreeVariant" \in N \ Pools /\ ("Horizon" \in N \ Pools \/ type # TPRTree)
  BY <1>1 DEF Common, Pools
<1>6. /\ "NearMinimumOverlapFactor" \in names /\ "FillFactor" \notin names
      /\ "IndexCapacity" \notin names /\ "LeafCapacity" \notin names /\ "Dimension" \notin names
  BY DEF Reopened
<1>7. /\ s["IndexCapacity"] = h["IndexCapacity"] /\ s["LeafCapacity"] = h["LeafCapacity"]
      /\ s["Dimension"] = h["Dimension"] /\ s["FillFactor"] = h["FillFactor"]
      /\ s["NearMinimumOverlapFactor"] = ps["NearMinimumOverlapFactor"]
      /\ load["IndexCapacity"] = h["IndexCapacity"] /\ load["LeafCapacity"] = h["LeafCapacity"]
  BY <1>2, <1>4, <1>5, <1>6
<1>8. Fits(type, h) /\ h["TreeVariant"] \in Variants(type)
  BY DEF HeaderOK
<1>9. s["TreeVariant"] \in Variants(type)
  BY <1>2, <1>4, <1>5, <1>8 DEF VariantFits
<1>10. s["IndexCapacity"] >= 4 /\ s["LeafCapacity"] >= 4 /\ s["Dimension"] >= 2
  BY <1>7, <1>8 DEF Fits
<1>11. \A name \in {"SplitDistributionFactor", "ReinsertFactor"} : s[name] > 0 /\ s[name] < 10
  <2> SUFFICES ASSUME NEW name \in {"SplitDistributionFactor", "ReinsertFactor"}
               PROVE  s[name] > 0 /\ s[name] < 10
    OBVIOUS
  <2>1. name \in N \ Pools /\ h[name] > 0 /\ h[name] < 10 /\ Proper(ps, name)
    BY <1>3, <1>5, <1>8 DEF Fits, OldFits
  <2> QED
    BY <2>1, <1>2, <1>4 DEF Proper
<1>12. s["FillFactor"] > 0 /\ s["FillFactor"] < 10
  BY <1>7, <1>8 DEF Fits
<1>13. type = TPRTree => s["Horizon"] > 0
  <2> SUFFICES ASSUME type = TPRTree PROVE s["Horizon"] > 0
    OBVIOUS
  <2>1. "Horizon" \in N \ Pools /\ h["Horizon"] > 0 /\ AtLeast(ps, "Horizon", 1)
    BY <1>5, <1>8 DEF Fits
  <2>2. s["Horizon"] = h["Horizon"] \/ ("Horizon" \in DOMAIN ps /\ s["Horizon"] = ps["Horizon"])
    BY <2>1, <1>2, <1>4
  <2> QED
    BY <2>1, <2>2 DEF AtLeast
<1>14. /\ s["NearMinimumOverlapFactor"] >= 1
       /\ s["NearMinimumOverlapFactor"] <= s["IndexCapacity"]
       /\ s["NearMinimumOverlapFactor"] <= s["LeafCapacity"]
  BY <1>3, <1>7 DEF OldFits, NearFits
<1>15. Fits(type, s)
  BY <1>10, <1>11, <1>12, <1>13, <1>14 DEF Fits
<1>16. SettingsOK(type, s)
  BY <1>4, <1>9, <1>15 DEF SettingsOK, N
<1> QED
  BY <1>16 DEF s, load

\* initOld of the three trees differs in the constructor's settings, in the variants
\* and in the horizon.
LEMMA OldIs ==
    ASSUME NEW type \in Types, NEW h, NEW ps
    PROVE  \E d \in [Names(type) -> Int], names \in {Reopened, Reopened \cup {"Horizon"}} :
              /\ Old(type, h, ps) = Taken(Taken(d, h, DOMAIN h), ps, names)
              /\ AcceptsOld(type, h, ps) <=>
                    /\ VariantFits(ps, Variants(type)) /\ OldFits(ps, Taken(d, h, DOMAIN h))
                    /\ type = TPRTree => AtLeast(ps, "Horizon", 1)
<1>1. CASE type = RTree
  <2>1. RTreeDefaults \in [Names(type) -> Int] /\ Reopened \in {Reopened, Reopened \cup {"Horizon"}}
    BY <1>1, DefaultsType, NamesOf
  <2>2. Old(type, h, ps) = Taken(Taken(RTreeDefaults, h, DOMAIN h), ps, Reopened)
    BY <1>1 DEF Old, OldRTree, LoadRTree, RTree, MVRTree, TPRTree
  <2>3. AcceptsOld(type, h, ps) <=>
            VariantFits(ps, Variants(type)) /\ OldFits(ps, Taken(RTreeDefaults, h, DOMAIN h))
    BY <1>1, NamesOf DEF AcceptsOld, RTreeAcceptsOld, LoadRTree, RTree, MVRTree, TPRTree
  <2> QED
    BY <1>1, <2>1, <2>2, <2>3 DEF RTree, TPRTree
<1>2. CASE type = MVRTree
  <2>1. MVRTreeDefaults \in [Names(type) -> Int] /\ Reopened \in {Reopened, Reopened \cup {"Horizon"}}
    BY <1>2, DefaultsType, NamesOf
  <2>2. Old(type, h, ps) = Taken(Taken(MVRTreeDefaults, h, DOMAIN h), ps, Reopened)
    BY <1>2 DEF Old, OldMVRTree, LoadMVRTree, RTree, MVRTree, TPRTree
  <2>3. AcceptsOld(type, h, ps) <=>
            VariantFits(ps, Variants(type)) /\ OldFits(ps, Taken(MVRTreeDefaults, h, DOMAIN h))
    BY <1>2, NamesOf DEF AcceptsOld, MVRTreeAcceptsOld, LoadMVRTree, RTree, MVRTree, TPRTree
  <2> QED
    BY <1>2, <2>1, <2>2, <2>3 DEF MVRTree, TPRTree
<1>3. CASE type = TPRTree
  <2>1. /\ TPRTreeDefaults \in [Names(type) -> Int]
        /\ Reopened \cup {"Horizon"} \in {Reopened, Reopened \cup {"Horizon"}}
    BY <1>3, DefaultsType, NamesOf
  <2>2. Old(type, h, ps) = Taken(Taken(TPRTreeDefaults, h, DOMAIN h), ps, Reopened \cup {"Horizon"})
    BY <1>3 DEF Old, OldTPRTree, LoadTPRTree, RTree, MVRTree, TPRTree
  <2>3. AcceptsOld(type, h, ps) <=>
            VariantFits(ps, Variants(type)) /\ OldFits(ps, Taken(TPRTreeDefaults, h, DOMAIN h))
            /\ AtLeast(ps, "Horizon", 1)
    BY <1>3, NamesOf DEF AcceptsOld, TPRTreeAcceptsOld, LoadTPRTree, RTree, MVRTree, TPRTree
  <2> QED
    BY <1>3, <2>1, <2>2, <2>3
<1> QED
  BY <1>1, <1>2, <1>3 DEF Types

\* A tree that is opened again has settings that fit.
LEMMA OldOK ==
    ASSUME NEW type, NEW h, HeaderOK(type, h), NEW ps, PropertiesOK(ps), AcceptsOld(type, h, ps)
    PROVE  SettingsOK(type, Old(type, h, ps))
<1>1. type \in Types
  BY DEF HeaderOK
<1>2. /\ \A name \in DOMAIN ps : ps[name] \in Int
      /\ "NearMinimumOverlapFactor" \in DOMAIN ps
  BY DEF PropertiesOK, Common
<1>3. PICK d \in [Names(type) -> Int], names \in {Reopened, Reopened \cup {"Horizon"}} :
          /\ Old(type, h, ps) = Taken(Taken(d, h, DOMAIN h), ps, names)
          /\ AcceptsOld(type, h, ps) <=>
                /\ VariantFits(ps, Variants(type)) /\ OldFits(ps, Taken(d, h, DOMAIN h))
                /\ type = TPRTree => AtLeast(ps, "Horizon", 1)
  BY <1>1, OldIs
<1>4. /\ VariantFits(ps, Variants(type)) /\ OldFits(ps, Taken(d, h, DOMAIN h))
      /\ type = TPRTree => AtLeast(ps, "Horizon", 1)
  BY <1>3
<1>5. SettingsOK(type, Taken(Taken(d, h, DOMAIN h), ps, names))
  BY <1>1, <1>2, <1>4, OldSettings
<1> QED
  BY <1>3, <1>5

\* The header of a tree is one it can be opened from.
LEMMA HeaderIs ==
    ASSUME NEW type, NEW s, SettingsOK(type, s)
    PROVE  /\ HeaderOK(type, Header(type, s))
           /\ \A name \in Names(type) \ Pools : Header(type, s)[name] = s[name]
<1>1. type \in Types /\ s \in [Names(type) -> Int] /\ Fits(type, s) /\ s["TreeVariant"] \in Variants(type)
  BY DEF SettingsOK
<1>2. Header(type, s) = [name \in Names(type) \ Pools |-> s[name]]
  BY <1>1, NamesOf DEF Header, RTreeHeader, MVRTreeHeader, TPRTreeHeader, Types, RTree, MVRTree, TPRTree
<1> DEFINE h == Header(type, s)
<1>3. h \in [Names(type) \ Pools -> Int] /\ \A name \in Names(type) \ Pools : h[name] = s[name]
  BY <1>1, <1>2
<1>4. /\ "FillFactor" \in Names(type) \ Pools /\ "SplitDistributionFactor" \in Names(type) \ Pools
      /\ "ReinsertFactor" \in Names(type) \ Pools /\ "IndexCapacity" \in Names(type) \ Pools
      /\ "LeafCapacity" \in Names(type) \ Pools /\ "NearMinimumOverlapFactor" \in Names(type) \ Pools
      /\ "Dimension" \in Names(type) \ Pools /\ "TreeVariant" \in Names(type) \ Pools
      /\ "Horizon" \in Names(type) \ Pools \/ type # TPRTree
  BY <1>1, NamesOf DEF Common, Pools
<1> HIDE DEF h
<1>5. Fits(type, h)
  BY <1>1, <1>3, <1>4 DEF Fits
<1>6. HeaderOK(type, h)
  BY <1>1, <1>3, <1>4, <1>5 DEF HeaderOK
<1> QED
  BY <1>3, <1>6 DEF h

\* A tree that is opened again with the properties it tells is the same tree.
LEMMA OpensAgain ==
    ASSUME NEW type, NEW s, SettingsOK(type, s), NearFits(s, s)
    PROVE  /\ AcceptsOld(type, Header(type, s), Properties(type, s))
           /\ Old(type, Header(type, s), Properties(type, s)) = s
<1>1. type \in Types /\ s \in [Names(type) -> Int] /\ Fits(type, s) /\ s["TreeVariant"] \in Variants(type)
  BY DEF SettingsOK
<1>2. Properties(type, s) = s
  BY <1>1, NamesOf DEF Properties, RTreeProperties, MVRTreeProperties, TPRTreeProperties, Types,
                       RTree, MVRTree, TPRTree
<1>3. PICK h : h = Header(type, s)
  OBVIOUS
<1>4. HeaderOK(type, h) /\ \A name \in Names(type) \ Pools : h[name] = s[name]
  BY <1>3, HeaderIs
<1>5. PICK d \in [Names(type) -> Int], names \in {Reopened, Reopened \cup {"Horizon"}} :
          /\ Old(type, h, s) = Taken(Taken(d, h, DOMAIN h), s, names)
          /\ AcceptsOld(type, h, s) <=>
                /\ VariantFits(s, Variants(type)) /\ OldFits(s, Taken(d, h, DOMAIN h))
                /\ type = TPRTree => AtLeast(s, "Horizon", 1)
  BY <1>1, OldIs
<1>6. PICK load : load = Taken(d, h, DOMAIN h)
  OBVIOUS
<1>7. load \in [Names(type) -> Int] /\ \A name \in Names(type) \ Pools : load[name] = h[name]
  BY <1>1, <1>4, <1>6, Loaded
<1>8. \A name \in Names(type) \ Pools : load[name] = s[name]
  BY <1>4, <1>7
<1>9. /\ "IndexCapacity" \in Names(type) \ Pools /\ "LeafCapacity" \in Names(type) \ Pools
  BY <1>1, NamesOf DEF Common, Pools
<1>10. OldFits(s, load)
  BY <1>1, <1>8, <1>9 DEF OldFits, NearFits, Proper, Fits
<1>11. VariantFits(s, Variants(type)) /\ (type = TPRTree => AtLeast(s, "Horizon", 1))
  BY <1>1, NamesOf DEF VariantFits, AtLeast, Fits
<1>12. Taken(load, s, names) = s
  <2>1. /\ Taken(load, s, names) \in [Names(type) -> Int]
        /\ \A name \in Names(type) : name \in names /\ name \in DOMAIN s => Taken(load, s, names)[name] = s[name]
        /\ \A name \in Names(type) : name \notin names \/ name \notin DOMAIN s
               => Taken(load, s, names)[name] = load[name]
    BY <1>1, <1>7, TakenType
  <2>2. \A name \in Names(type) : name \notin names => name \in Names(type) \ Pools
    BY DEF Pools, Reopened
  <2>3. \A name \in Names(type) : Taken(load, s, names)[name] = s[name]
    BY <1>1, <1>8, <2>1, <2>2
  <2> QED
    BY <1>1, <2>1, <2>3
<1> QED
  BY <1>2, <1>3, <1>5, <1>6, <1>10, <1>11, <1>12

-----------------------------------------------------------------------------
\* The first k trees are k trees.
LEMMA Interval ==
    ASSUME NEW k \in Nat
    PROVE  IsFiniteSet(1 .. k) /\ Cardinality(1 .. k) = k
  BY FS_Interval

\* A set of properties stays complete when one is set; the defaults are complete, and
\* so is what a tree tells.
LEMMA PutOK ==
    ASSUME NEW ps, PropertiesOK(ps), NEW name, NEW value \in Int
    PROVE  PropertiesOK(Put(ps, name, value))
  BY DEF PropertiesOK, Put

LEMMA DefaultsOK == PropertiesOK(GetDefaults)
  BY DefaultsType DEF PropertiesOK, GetDefaults, Common, RTree, RT_Disk

LEMMA ToldOK ==
    ASSUME NEW type, NEW s, SettingsOK(type, s)
    PROVE  PropertiesOK(Properties(type, s))
  BY NamesOf DEF SettingsOK, Properties, RTreeProperties, MVRTreeProperties, TPRTreeProperties, Types,
                 RTree, MVRTree, TPRTree, PropertiesOK

\* Emptied files have no trees, and every other storage has what it had.
LEMMA AfterOK ==
    ASSUME MediaOK(media), NEW ps
    PROVE  /\ MediaOK(After(ps))
           /\ After(ps)["custom"] = media["custom"]
           /\ After(ps)["disk"] = media["disk"] \/ Emptied(ps)
           /\ ~Emptied(ps) => After(ps) = media
<1>1. MediumOK(Medium("empty", NoTrees))
  <2>1. DOMAIN NoTrees = {} /\ Medium("empty", NoTrees).trees = NoTrees
    BY DEF NoTrees, Medium
  <2>2. IsFiniteSet({}) /\ Cardinality({}) = 0 /\ {} = 1 .. 0
    BY FS_EmptySet
  <2> QED
    BY <2>1, <2>2 DEF MediumOK
<1> QED
  BY <1>1 DEF MediaOK, After, Stored

\* The tree that stores its header is the next of its storage or one that is there;
\* every other tree stays as it is.
LEMMA WithOK ==
    ASSUME MediaOK(media), NEW m \in Stored, NEW n \in Nat \ {0},
           n <= Cardinality(DOMAIN media[m].trees) + 1,
           NEW type, NEW s, SettingsOK(type, s), NEW data \in SUBSET Ids
    PROVE  /\ MediaOK(With(m, n, type, s, data))
           /\ \A other \in Stored : other # m => With(m, n, type, s, data)[other] = media[other]
           /\ n \in DOMAIN With(m, n, type, s, data)[m].trees
           /\ With(m, n, type, s, data)[m].trees[n].data = data
           /\ \A k : k # n => (k \in DOMAIN With(m, n, type, s, data)[m].trees
                                  <=> k \in DOMAIN media[m].trees)
           /\ \A k \in DOMAIN media[m].trees :
                  k # n => With(m, n, type, s, data)[m].trees[k] = media[m].trees[k]
<1> PICK old : old = media[m].trees
  OBVIOUS
<1> PICK r : r = [type |-> type, header |-> Header(type, s), data |-> data]
  OBVIOUS
<1> PICK new : new = Put(old, n, r)
  OBVIOUS
<1> PICK md : md = With(m, n, type, s, data)
  OBVIOUS
<1>1. /\ md = [media EXCEPT ![m] = Medium("stored", new)]
      /\ Medium("stored", new).trees = new
  BY DEF With, Medium
<1>2. md[m].trees = new /\ \A other \in Stored : other # m => md[other] = media[other]
  BY <1>1 DEF MediaOK
<1>3. /\ DOMAIN new = {n} \cup DOMAIN old /\ new[n] = r
      /\ \A k \in DOMAIN old : k # n => new[k] = old[k]
  BY DEF Put
<1>4. /\ IsFiniteSet(DOMAIN old) /\ DOMAIN old = 1 .. Cardinality(DOMAIN old)
      /\ \A k \in DOMAIN old : HeaderOK(old[k].type, old[k].header) /\ old[k].data \subseteq Ids
  BY DEF MediaOK, MediumOK
<1>5. PICK k \in Nat : DOMAIN old = 1 .. k /\ n <= k + 1
  BY <1>4, FS_CardinalityType
<1>6. DOMAIN new = 1 .. k \/ DOMAIN new = 1 .. k + 1
  <2>1. DOMAIN new = {n} \cup 1 .. k
    BY <1>3, <1>5
  <2>2. CASE n <= k
    <3>1. \A j : j \in {n} \cup 1 .. k <=> j \in 1 .. k
      BY <2>2
    <3> QED
      BY <2>1, <3>1
  <2>3. CASE n = k + 1
    <3>1. \A j : j \in {n} \cup 1 .. k <=> j \in 1 .. k + 1
      BY <2>3
    <3> QED
      BY <2>1, <3>1
  <2> QED
    BY <1>5, <2>2, <2>3
<1>7. IsFiniteSet(DOMAIN new) /\ DOMAIN new = 1 .. Cardinality(DOMAIN new)
  BY <1>6, Interval
<1>8. r.type = type /\ HeaderOK(r.type, r.header) /\ r.data = data
  BY HeaderIs
<1>9. \A j \in DOMAIN new : HeaderOK(new[j].type, new[j].header) /\ new[j].data \subseteq Ids
  BY <1>3, <1>4, <1>8
<1>10. MediumOK(md[m])
  BY <1>2, <1>7, <1>9 DEF MediumOK
<1>11. MediaOK(md)
  BY <1>1, <1>2, <1>10 DEF MediaOK
<1> QED
  BY <1>2, <1>3, <1>8, <1>11

-----------------------------------------------------------------------------
\* What most calls do: they answer, and leave the index and the storages alone.
Harmless ==
    /\ errors' \in Nat
    /\ hProp' = hProp \/ hProp' = NULL \/ PropertiesOK(hProp')
    /\ UNCHANGED <<index, media>>
    /\ ret' = "RT_Failure" => errors' > errors /\ UNCHANGED <<hProp, items>>

\* What the results of a call do to the stack of errors.
LEMMA Answers ==
    ASSUME errors \in Nat
    PROVE  /\ Done => ret' = "RT_None" /\ errors' \in Nat
           /\ Fail => ret' = "RT_Failure" /\ errors' \in Nat /\ errors' > errors
           /\ FailVoid => ret' = "void" /\ errors' \in Nat
           /\ \A n \in Nat \ {0} : PushErrors(n) => errors' \in Nat /\ errors' > errors
  BY DEF Done, Fail, FailVoid, PushErrors

\* The setters and the getters of properties: all but one are setProperty and
\* tellProperty, and the one that sets the variant may push two errors.
LEMMA SetHarmless ==
    ASSUME InterfaceInv, NEW name \in PropertyNames, NEW allowed,
           setProperty(name, allowed) \/ tellProperty(name)
    PROVE  Harmless
<1>1. errors \in Nat /\ (hProp # NULL => PropertiesOK(hProp))
  BY DEF InterfaceInv
<1>2. CASE tellProperty(name)
  <2>1. Fail \/ Done
    BY <1>2 DEF tellProperty
  <2>2. UNCHANGED <<hProp, index, media, items>>
    BY <1>2 DEF tellProperty
  <2> QED
    BY <1>1, <2>1, <2>2, Answers DEF Harmless
<1>3. CASE setProperty(name, allowed)
  <2>1. PICK value \in Values[name] :
            IF hProp = NULL \/ value \notin allowed
            THEN Fail /\ UNCHANGED <<hProp, sets>>
            ELSE hProp' = Put(hProp, name, value) /\ Done
    BY <1>3 DEF setProperty
  <2>2. UNCHANGED <<index, media, items>>
    BY <1>3 DEF setProperty
  <2>3. value \in Int
    BY CallerAssumption
  <2>4. CASE hProp = NULL \/ value \notin allowed
    BY <1>1, <2>1, <2>2, <2>4, Answers DEF Harmless
  <2>5. CASE ~(hProp = NULL \/ value \notin allowed)
    <3>1. hProp' = Put(hProp, name, value) /\ Done
      BY <2>1, <2>5
    <3>2. PropertiesOK(Put(hProp, name, value))
      BY <1>1, <2>3, <2>5, PutOK
    <3>3. PropertiesOK(hProp')
      BY <3>1, <3>2
    <3> QED
      BY <1>1, <2>2, <3>1, <3>3, Answers DEF Harmless
  <2> QED
    BY <2>4, <2>5
<1> QED
  BY <1>2, <1>3

LEMMA VariantHarmless ==
    ASSUME InterfaceInv, IndexProperty_SetIndexVariant
    PROVE  Harmless
<1>1. errors \in Nat /\ (hProp # NULL => PropertiesOK(hProp))
  BY DEF InterfaceInv
<1>2. UNCHANGED <<index, media, items>>
  BY DEF IndexProperty_SetIndexVariant
<1>3. PICK value \in Values["TreeVariant"] :
          \/ Fail /\ UNCHANGED hProp
          \/ ret' = "RT_Failure" /\ PushErrors(2) /\ UNCHANGED hProp
          \/ hProp # NULL /\ hProp' = Put(hProp, "TreeVariant", value) /\ Done
  BY DEF IndexProperty_SetIndexVariant
<1>4. CASE UNCHANGED hProp /\ (Fail \/ (ret' = "RT_Failure" /\ PushErrors(2)))
  BY <1>1, <1>2, <1>4, Answers DEF Harmless
<1>5. CASE hProp # NULL /\ hProp' = Put(hProp, "TreeVariant", value) /\ Done
  <2>1. value \in Int
    BY CallerAssumption DEF PropertyNames, GetDefaults, Common
  <2>2. PropertiesOK(Put(hProp, "TreeVariant", value))
    BY <1>1, <1>5, <2>1, PutOK
  <2>3. PropertiesOK(hProp')
    BY <1>5, <2>2
  <2> QED
    BY <1>1, <1>2, <1>5, <2>3, Answers DEF Harmless
<1> QED
  BY <1>3, <1>4, <1>5

LEMMA PropertyHarmless ==
    ASSUME InterfaceInv, PropertyCall
    PROVE  Harmless
<1> SUFFICES ASSUME ~IndexProperty_SetIndexVariant
             PROVE  \E name \in PropertyNames : \E allowed : setProperty(name, allowed) \/ tellProperty(name)
  BY SetHarmless, VariantHarmless
<1>1. /\ {"IndexType", "Dimension", "IndexStorageType", "IndexCapacity", "LeafCapacity", "PageSize"} \subseteq PropertyNames
      /\ {"LeafPoolCapacity", "IndexPoolCapacity", "RegionPoolCapacity", "PointPoolCapacity",
          "NearMinimumOverlapFactor", "Capacity"} \subseteq PropertyNames
      /\ {"EnsureTightMBRs", "WriteThrough", "Overwrite", "FillFactor", "SplitDistributionFactor",
          "Horizon"} \subseteq PropertyNames
      /\ {"ReinsertFactor", "FileName", "FileNameDat", "FileNameIdx", "CustomStorageCallbacksSize",
          "IndexIdentifier", "CustomStorageCallbacks", "TreeVariant"} \subseteq PropertyNames
  BY DEF PropertyNames, GetDefaults, Common
<1>2. CASE IndexProperty_IndexType \/ IndexProperty_Dimension \/ IndexProperty_IndexStorage
            \/ IndexProperty_IndexCapacity \/ IndexProperty_LeafCapacity \/ IndexProperty_Pagesize
  BY <1>1, <1>2 DEF SetAndGet, Numbers,
       IndexProperty_IndexType, IndexProperty_Dimension, IndexProperty_IndexStorage,
       IndexProperty_IndexCapacity, IndexProperty_LeafCapacity, IndexProperty_Pagesize
<1>3. CASE IndexProperty_LeafPoolCapacity \/ IndexProperty_IndexPoolCapacity \/ IndexProperty_RegionPoolCapacity
            \/ IndexProperty_PointPoolCapacity \/ IndexProperty_NearMinimumOverlapFactor \/ IndexProperty_BufferingCapacity
  BY <1>1, <1>3 DEF SetAndGet, Numbers,
       IndexProperty_LeafPoolCapacity, IndexProperty_IndexPoolCapacity, IndexProperty_RegionPoolCapacity,
       IndexProperty_PointPoolCapacity, IndexProperty_NearMinimumOverlapFactor, IndexProperty_BufferingCapacity
<1>4. CASE IndexProperty_EnsureTightMBRs \/ IndexProperty_WriteThrough \/ IndexProperty_Overwrite
            \/ IndexProperty_FillFactor \/ IndexProperty_SplitDistributionFactor \/ IndexProperty_TPRHorizon
  BY <1>1, <1>4 DEF SetAndGet, Numbers,
       IndexProperty_EnsureTightMBRs, IndexProperty_WriteThrough, IndexProperty_Overwrite,
       IndexProperty_FillFactor, IndexProperty_SplitDistributionFactor, IndexProperty_TPRHorizon
<1>5. CASE IndexProperty_ReinsertFactor \/ IndexProperty_FileName \/ IndexProperty_FileNameExtensionDat
            \/ IndexProperty_FileNameExtensionIdx \/ IndexProperty_CustomStorageCallbacksSize \/ IndexProperty_IndexID
  BY <1>1, <1>5 DEF SetAndGet, Numbers,
       IndexProperty_ReinsertFactor, IndexProperty_FileName, IndexProperty_FileNameExtensionDat,
       IndexProperty_FileNameExtensionIdx, IndexProperty_CustomStorageCallbacksSize, IndexProperty_IndexID
<1>6. CASE IndexProperty_CustomStorageCallbacks \/ IndexProperty_GetIndexVariant
  BY <1>1, <1>6 DEF IndexProperty_CustomStorageCallbacks, IndexProperty_GetIndexVariant
<1> QED
  BY <1>2, <1>3, <1>4, <1>5, <1>6 DEF PropertyCall

\* The calls that change neither the index nor the storages.
Reading ==
    \/ Error_PushError \/ Error_Pop \/ Error_Reset
    \/ IndexProperty_Create \/ IndexProperty_Destroy \/ PropertyCall
    \/ Index_Intersects_obj \/ Index_Intersects_id \/ Index_Intersects_count
    \/ Index_NearestNeighbors_id \/ Index_NearestNeighbors_obj
    \/ Index_GetBounds \/ Index_IsValid \/ Index_GetLeaves
    \/ Index_GetProperties \/ Index_ClearBuffer
    \/ Index_DestroyObjResults \/ Index_Free
    \/ IndexItem_Destroy \/ IndexItem_GetData \/ IndexItem_GetID \/ IndexItem_GetBounds

\* Each of them answers, and tells of its failure.
LEMMA ReadingHarmless ==
    ASSUME InterfaceInv, Reading
    PROVE  Harmless
<1>1. errors \in Nat /\ (hProp # NULL => PropertiesOK(hProp))
  BY DEF InterfaceInv
<1>2. CASE Error_PushError \/ Error_Pop \/ Error_Reset
  <2>1. CASE Error_PushError
    BY <1>1, <2>1, Answers DEF Error_PushError, Harmless
  <2>2. CASE Error_Pop
    BY <1>1, <2>2 DEF Error_Pop, Harmless
  <2>3. CASE Error_Reset
    BY <1>1, <2>3 DEF Error_Reset, Harmless
  <2> QED
    BY <1>2, <2>1, <2>2, <2>3
<1>3. CASE IndexProperty_Create \/ IndexProperty_Destroy
  <2>1. CASE IndexProperty_Create
    <3>1. PropertiesOK(hProp')
      BY <2>1, DefaultsOK DEF IndexProperty_Create
    <3> QED
      BY <1>1, <2>1, <3>1, Answers DEF IndexProperty_Create, Harmless
  <2>2. CASE IndexProperty_Destroy
    BY <1>1, <2>2, Answers DEF IndexProperty_Destroy, Harmless
  <2> QED
    BY <1>3, <2>1, <2>2
<1>4. CASE PropertyCall
  BY <1>4, PropertyHarmless
<1>5. CASE Index_Intersects_obj \/ Index_Intersects_id \/ Index_Intersects_count
           \/ Index_NearestNeighbors_id \/ Index_NearestNeighbors_obj
           \/ Index_GetBounds \/ Index_IsValid \/ Index_GetLeaves
  <2>1. CASE Index_Intersects_obj \/ Index_NearestNeighbors_obj
    <3>1. UNCHANGED <<hProp, index, media>> /\ ((Fail /\ UNCHANGED items) \/ Done)
      BY <2>1 DEF Index_Intersects_obj, Index_NearestNeighbors_obj, OnIndex, Rejected
    <3> QED
      BY <1>1, <3>1, Answers DEF Harmless
  <2>2. CASE Index_Intersects_id \/ Index_Intersects_count \/ Index_NearestNeighbors_id
             \/ Index_GetBounds \/ Index_IsValid \/ Index_GetLeaves
    <3>1. UNCHANGED <<hProp, index, media, items>> /\ (Fail \/ Done)
      BY <2>2 DEF Index_Intersects_id, Index_Intersects_count, Index_NearestNeighbors_id, Index_GetBounds,
                  Index_IsValid, Index_GetLeaves, OnIndex, Rejected
    <3> QED
      BY <1>1, <3>1, Answers DEF Harmless
  <2> QED
    BY <1>5, <2>1, <2>2
<1>6. CASE Index_GetProperties
  <2>1. CASE index = NULL
    BY <1>1, <1>6, <2>1, Answers DEF Index_GetProperties, Harmless
  <2>2. CASE index # NULL
    <3>1. SettingsOK(index.tree.type, index.tree.s)
      BY <1>6, <2>2 DEF Index_GetProperties, Usable, InterfaceInv, IndexOK
    <3>2. PropertiesOK(Properties(index.tree.type, index.tree.s))
      BY <3>1, ToldOK
    <3>3. hProp' = Properties(index.tree.type, index.tree.s) /\ Done /\ UNCHANGED <<index, media>>
      BY <1>6, <2>2 DEF Index_GetProperties, tree
    <3>4. PropertiesOK(hProp')
      BY <3>2, <3>3
    <3> QED
      BY <1>1, <3>3, <3>4, Answers DEF Harmless
  <2> QED
    BY <2>1, <2>2
<1>7. CASE Index_ClearBuffer \/ Index_Free
  BY <1>1, <1>7, Answers DEF Index_ClearBuffer, Index_Free, Harmless
<1>8. CASE Index_DestroyObjResults \/ IndexItem_Destroy
           \/ IndexItem_GetData \/ IndexItem_GetID \/ IndexItem_GetBounds
  <2>1. CASE Index_DestroyObjResults \/ IndexItem_Destroy
    <3>1. UNCHANGED <<hProp, index, media>> /\ (FailVoid \/ (ret' = "void" /\ errors' = errors))
      BY <2>1 DEF Index_DestroyObjResults, IndexItem_Destroy, OnItems
    <3> QED
      BY <1>1, <3>1, Answers DEF Harmless
  <2>2. CASE IndexItem_GetData \/ IndexItem_GetID \/ IndexItem_GetBounds
    <3>1. UNCHANGED <<hProp, index, media, items>> /\ (Fail \/ (ret' = "RT_None" /\ errors' = errors))
      BY <2>2 DEF IndexItem_GetData, IndexItem_GetID, IndexItem_GetBounds, OnItems
    <3> QED
      BY <1>1, <3>1, Answers DEF Harmless
  <2> QED
    BY <1>8, <2>1, <2>2
<1> QED
  BY <1>2, <1>3, <1>4, <1>5, <1>6, <1>7, <1>8 DEF Reading

LEMMA HarmlessKeeps ==
    ASSUME InterfaceInv, Harmless
    PROVE  InterfaceInv' /\ DataKeptStep /\ FailuresToldStep
<1>1. InterfaceInv'
  BY DEF InterfaceInv, Harmless, IndexOK
<1>2. DataKeptStep
  BY DEF Harmless, DataKeptStep, Holds, Usable, tree
<1>3. FailuresToldStep
  BY DEF Harmless, FailuresToldStep
<1> QED
  BY <1>1, <1>2, <1>3

-----------------------------------------------------------------------------
\* A tree and an index are what they were made of, and not NULL.
LEMMA TreeIs ==
    ASSUME NEW type, NEW s, SettingsOK(type, s), NEW data \in SUBSET Ids
    PROVE  [type |-> type, s |-> s, data |-> data] \in TreeSet
  BY NamesOf DEF SettingsOK, TreeSet, Settings, Types

LEMMA IndexIs ==
    ASSUME NEW m \in {"disk", "custom", "memory"}, NEW n \in Nat,
           NEW type, NEW s, SettingsOK(type, s), NEW data \in SUBSET Ids
    PROVE  /\ Index(m, n, type, s, data) \in Indexes
           /\ Index(m, n, type, s, data) # NULL /\ Index(m, n, type, s, data).tree # NULL
           /\ Index(m, n, type, s, data).medium = m /\ Index(m, n, type, s, data).id = n
           /\ Index(m, n, type, s, data).tree.type = type /\ Index(m, n, type, s, data).tree.s = s
           /\ Index(m, n, type, s, data).tree.data = data
<1>1. PICK r : r = [type |-> type, s |-> s, data |-> data]
  OBVIOUS
<1>2. r \in TreeSet /\ r.type = type /\ r.s = s /\ r.data = data
  BY <1>1, TreeIs
<1>3. Index(m, n, type, s, data) = [medium |-> m, id |-> n, tree |-> r]
  BY <1>1 DEF Index
<1>4. [medium |-> m, id |-> n, tree |-> r] \in Indexes
  BY <1>2 DEF Indexes
<1> QED
  BY <1>2, <1>3, <1>4, CallerAssumption

\* A datum more, or less, in the tree of the index.
LEMMA ChangeKeeps ==
    ASSUME InterfaceInv, index # NULL, Usable, NEW id \in Ids, NEW data \in SUBSET Ids,
           index' = [index EXCEPT !.tree.data = data], data \ {id} = index.tree.data \ {id},
           Done, UNCHANGED <<hProp, media, items>>
    PROVE  InterfaceInv' /\ DataKeptStep /\ FailuresToldStep
<1>1. /\ errors \in Nat /\ IndexOK /\ index.tree # NULL
      /\ SettingsOK(index.tree.type, index.tree.s) /\ index.id # 0
  BY DEF InterfaceInv, IndexOK, Usable
<1>2. index \in Indexes /\ index.tree \in TreeSet
  BY <1>1 DEF IndexOK, Indexes
<1>3. index' = Index(index.medium, index.id, index.tree.type, index.tree.s, data)
  BY <1>2 DEF Indexes, Index, TreeSet
<1>4. index.medium \in {"disk", "custom", "memory"} /\ index.id \in Nat
  BY <1>2 DEF Indexes
<1>5. PICK new : new = Index(index.medium, index.id, index.tree.type, index.tree.s, data)
  OBVIOUS
<1>6. /\ new \in Indexes /\ new # NULL /\ new.tree # NULL /\ new.medium = index.medium /\ new.id = index.id
      /\ new.tree.type = index.tree.type /\ new.tree.s = index.tree.s /\ new.tree.data = data
  BY <1>1, <1>4, <1>5, IndexIs
<1>7. index' = new
  BY <1>3, <1>5
<1>8. errors' \in Nat /\ ret' = "RT_None"
  BY <1>1, Answers
<1>9. IndexOK'
  BY <1>1, <1>6, <1>7 DEF IndexOK
<1>10. InterfaceInv'
  BY <1>8, <1>9 DEF InterfaceInv
<1>11. FailuresToldStep
  BY <1>8 DEF FailuresToldStep
<1>12. DataKeptStep
  BY <1>1, <1>6, <1>7 DEF DataKeptStep, Holds, Usable, tree
<1> QED
  BY <1>10, <1>11, <1>12

\* Index_InsertData and Index_DeleteData.
LEMMA InsertDeleteKeep ==
    ASSUME InterfaceInv, Index_InsertData \/ Index_DeleteData
    PROVE  InterfaceInv' /\ DataKeptStep /\ FailuresToldStep
<1>1. CASE Fail /\ UNCHANGED <<hProp, index, media, items>>
  <2>1. Harmless
    BY <1>1, Answers DEF InterfaceInv, Harmless
  <2> QED
    BY <2>1, HarmlessKeeps
<1>2. CASE /\ index # NULL /\ Usable /\ Done /\ UNCHANGED <<hProp, media, items>>
           /\ \E id \in Ids :
                  \/ index' = [index EXCEPT !.tree.data = index.tree.data \cup {id}]
                  \/ index' = [index EXCEPT !.tree.data = index.tree.data \ {id}]
  <2>1. PICK id \in Ids :
            \/ index' = [index EXCEPT !.tree.data = index.tree.data \cup {id}]
            \/ index' = [index EXCEPT !.tree.data = index.tree.data \ {id}]
    BY <1>2
  <2>2. index.tree \in TreeSet
    BY <1>2 DEF InterfaceInv, IndexOK, Indexes, Usable
  <2>3. PICK data : /\ index' = [index EXCEPT !.tree.data = data]
                    /\ data \in {index.tree.data \cup {id}, index.tree.data \ {id}}
    BY <2>1
  <2>4. data \in SUBSET Ids /\ data \ {id} = index.tree.data \ {id}
    BY <2>2, <2>3 DEF TreeSet
  <2> QED
    BY <1>2, <2>3, <2>4, ChangeKeeps
<1>3. CASE Index_InsertData
  <2>1. PICK id \in Ids, dimension \in Values["Dimension"] :
            OnIndex(IF ~Takes(dimension) THEN Rejected
                    ELSE /\ id \notin tree.data
                         /\ index' = [index EXCEPT !.tree.data = @ \cup {id}]
                         /\ Done /\ UNCHANGED <<items, outside>>)
    BY <1>3 DEF Index_InsertData
  <2>2. CASE index = NULL \/ ~Takes(dimension)
    BY <1>1, <2>1, <2>2 DEF OnIndex, Rejected
  <2>3. CASE index # NULL /\ Takes(dimension)
    <3>1. /\ Usable /\ Done /\ UNCHANGED <<hProp, media, items>>
          /\ index' = [index EXCEPT !.tree.data = index.tree.data \cup {id}]
      BY <2>1, <2>3 DEF OnIndex
    <3> QED
      BY <1>2, <2>3, <3>1
  <2> QED
    BY <2>2, <2>3
<1>4. CASE Index_DeleteData
  <2>1. PICK id \in Ids, dimension \in Values["Dimension"] :
            OnIndex(IF ~Takes(dimension) THEN Rejected
                    ELSE /\ index' = [index EXCEPT !.tree.data = @ \ {id}]
                         /\ Done /\ UNCHANGED <<items, outside>>)
    BY <1>4 DEF Index_DeleteData
  <2>2. CASE index = NULL \/ ~Takes(dimension)
    BY <1>1, <2>1, <2>2 DEF OnIndex, Rejected
  <2>3. CASE index # NULL /\ Takes(dimension)
    <3>1. /\ Usable /\ Done /\ UNCHANGED <<hProp, media, items>>
          /\ index' = [index EXCEPT !.tree.data = index.tree.data \ {id}]
      BY <2>1, <2>3 DEF OnIndex
    <3> QED
      BY <1>2, <2>3, <3>1
  <2> QED
    BY <2>2, <2>3
<1> QED
  BY <1>3, <1>4

\* The destructors put the tree where the index was.
LEMMA DestroyKeeps ==
    ASSUME InterfaceInv, Index_Destroy
    PROVE  InterfaceInv' /\ DataKeptStep /\ FailuresToldStep
<1>1. errors \in Nat /\ MediaOK(media) /\ UNCHANGED <<hProp, items>>
  BY DEF InterfaceInv, Index_Destroy
<1>2. CASE index = NULL
  <2>1. Harmless
    BY <1>1, <1>2, Answers DEF Index_Destroy, Harmless
  <2> QED
    BY <2>1, HarmlessKeeps
<1>3. CASE index # NULL
  <2>1. ret' = "void" /\ errors' = errors /\ index' = NULL
    BY <1>3 DEF Index_Destroy
  <2>2. index \in Indexes
    BY <1>3 DEF InterfaceInv, IndexOK
  <2>3. FailuresToldStep
    BY <2>1 DEF FailuresToldStep
  <2>4. CASE index.medium = "memory"
    <3>1. UNCHANGED media
      BY <1>3, <2>4 DEF Index_Destroy
    <3>2. InterfaceInv'
      BY <1>1, <2>1, <3>1 DEF InterfaceInv
    <3>3. DataKeptStep
      BY <2>1, <2>4, <3>1 DEF DataKeptStep, Holds, Usable
    <3> QED
      BY <2>3, <3>2, <3>3
  <2>5. CASE index.medium # "memory" /\ index.tree = NULL
    <3>1. index.medium \in Stored
      BY <2>2, <2>5 DEF Indexes, Stored
    <3>2. media' = [media EXCEPT ![index.medium].state = "stored"]
      BY <1>3, <2>5 DEF Index_Destroy, tree
    <3>3. /\ media' = [m \in Stored |-> media'[m]]
          /\ \A m \in Stored : media'[m].trees = media[m].trees
      BY <1>1, <3>1, <3>2 DEF MediaOK
    <3>4. MediaOK(media')
      BY <1>1, <3>3 DEF MediaOK, MediumOK
    <3>5. InterfaceInv'
      BY <1>1, <2>1, <3>4 DEF InterfaceInv
    <3>6. DataKeptStep
      BY <2>1, <2>5, <3>3 DEF DataKeptStep, Holds, Usable, Stored
    <3> QED
      BY <2>3, <3>5, <3>6
  <2>6. CASE index.medium # "memory" /\ index.tree # NULL
    <3> PICK m : m = index.medium
      OBVIOUS
    <3> PICK n : n = index.id
      OBVIOUS
    <3> PICK tr : tr = index.tree
      OBVIOUS
    <3>1. m \in Stored /\ n \in Nat \ {0} /\ SettingsOK(tr.type, tr.s) /\ tr.data \in SUBSET Ids
          /\ n <= Cardinality(DOMAIN media[m].trees) + 1
      BY <1>3, <2>2, <2>6 DEF Indexes, Stored, TreeSet, InterfaceInv, IndexOK
    <3>2. media' = With(m, n, tr.type, tr.s, tr.data)
      BY <1>3, <2>6 DEF Index_Destroy, tree
    <3>3. PICK md : md = media'
      OBVIOUS
    <3>4. /\ MediaOK(md)
          /\ \A other \in Stored : other # m => md[other] = media[other]
          /\ n \in DOMAIN md[m].trees
          /\ md[m].trees[n].data = tr.data
          /\ \A k : k # n => (k \in DOMAIN md[m].trees <=> k \in DOMAIN media[m].trees)
          /\ \A k \in DOMAIN media[m].trees : k # n => md[m].trees[k] = media[m].trees[k]
      BY <1>1, <3>1, <3>2, <3>3, WithOK
    <3>5. InterfaceInv'
      BY <1>1, <2>1, <3>3, <3>4 DEF InterfaceInv
    <3>6. \A other \in Stored : \A k : Holds(other, k)' = Holds(other, k)
      <4> SUFFICES ASSUME NEW other \in Stored, NEW k
                   PROVE  Holds(other, k)' = Holds(other, k)
        OBVIOUS
      <4>1. Holds(other, k)' = IF k \in DOMAIN md[other].trees THEN {md[other].trees[k].data} ELSE {}
        BY <2>1, <3>3 DEF Holds, Usable
      <4>2. CASE other = m /\ k = n
        BY <1>3, <2>6, <3>4, <4>1, <4>2 DEF Holds, Usable, tree
      <4>3. CASE ~(other = m /\ k = n)
        <5>1. Holds(other, k) = IF k \in DOMAIN media[other].trees THEN {media[other].trees[k].data} ELSE {}
          BY <4>3 DEF Holds
        <5> QED
          BY <3>4, <4>1, <4>3, <5>1
      <4> QED
        BY <4>2, <4>3
    <3>7. DataKeptStep
      BY <3>6 DEF DataKeptStep, Stored
    <3> QED
      BY <2>3, <3>5, <3>7
  <2> QED
    BY <2>4, <2>5, <2>6
<1> QED
  BY <1>2, <1>3

-----------------------------------------------------------------------------
\* An index that is opened has the data of the tree it opens, or is that of a tree
\* its storage does not have yet.
LEMMA OpeningKeeps ==
    ASSUME InterfaceInv, index = NULL, hProp # NULL, UNCHANGED <<hProp, items>>, Done,
           media' = After(hProp), NEW m \in {"disk", "custom", "memory"}, NEW n \in Nat \ {0},
           NEW type, NEW s, SettingsOK(type, s), NEW data \in SUBSET Ids,
           index' = Index(m, n, type, s, data),
           m \in Stored =>
               /\ n <= Cardinality(DOMAIN After(hProp)[m].trees) + 1
               /\ n \in DOMAIN After(hProp)[m].trees => After(hProp)[m].trees[n].data = data
    PROVE  InterfaceInv' /\ DataKeptStep /\ FailuresToldStep
<1>1. errors \in Nat /\ MediaOK(media) /\ PropertiesOK(hProp)
  BY DEF InterfaceInv
<1>2. errors' \in Nat /\ ret' = "RT_None"
  BY <1>1, Answers
<1>3. PICK new : new = Index(m, n, type, s, data)
  OBVIOUS
<1>4. /\ new \in Indexes /\ new # NULL /\ new.tree # NULL /\ new.medium = m /\ new.id = n
      /\ new.tree.type = type /\ new.tree.s = s /\ new.tree.data = data
  BY <1>3, IndexIs
<1>5. PICK md : md = After(hProp)
  OBVIOUS
<1>6. /\ MediaOK(md) /\ md["custom"] = media["custom"]
      /\ md["disk"] = media["disk"] \/ Emptied(hProp)
  BY <1>1, <1>5, AfterOK
<1>7. index' = new /\ media' = md
  BY <1>3, <1>5
<1>8. IndexOK'
  BY <1>4, <1>5, <1>7 DEF IndexOK, Stored
<1>9. InterfaceInv'
  BY <1>1, <1>2, <1>6, <1>7, <1>8 DEF InterfaceInv
<1>10. FailuresToldStep
  BY <1>2 DEF FailuresToldStep
<1>11. ASSUME NEW other \in Stored, NEW k
       PROVE  \/ Holds(other, k)' = Holds(other, k) \/ Holds(other, k) = {}
              \/ other = "disk" /\ Emptied(hProp)
  <2>1. Holds(other, k) = IF k \in DOMAIN media[other].trees THEN {media[other].trees[k].data} ELSE {}
    BY DEF Holds
  <2>2. CASE other = "disk" /\ Emptied(hProp)
    BY <2>2
  <2>3. CASE ~(other = "disk" /\ Emptied(hProp))
    <3>1. md[other] = media[other]
      BY <1>6, <2>3 DEF Stored
    <3>2. CASE other = m /\ k = n
      <4>1. Holds(other, k)' = {data}
        BY <1>4, <1>7, <3>2 DEF Holds, Usable, tree
      <4>2. Holds(other, k) = {data} \/ Holds(other, k) = {}
        BY <1>5, <2>1, <3>1, <3>2
      <4> QED
        BY <4>1, <4>2
    <3>3. CASE ~(other = m /\ k = n)
      <4>1. Holds(other, k)' = IF k \in DOMAIN md[other].trees THEN {md[other].trees[k].data} ELSE {}
        BY <1>4, <1>7, <3>3 DEF Holds
      <4> QED
        BY <2>1, <3>1, <4>1
    <3> QED
      BY <3>2, <3>3
  <2> QED
    BY <2>2, <2>3
<1>12. DataKeptStep
  BY <1>11 DEF DataKeptStep, Stored
<1> QED
  BY <1>9, <1>10, <1>12

\* So does an index without a tree, and a call that fails after the files are open.
LEMMA NoTreeKeeps ==
    ASSUME InterfaceInv, index = NULL, hProp # NULL, UNCHANGED <<hProp, items>>,
           media' = After(hProp),
           \/ Fail /\ UNCHANGED index
           \/ /\ Done
              /\ \E m \in {"disk", "custom", "memory"} :
                     index' = [medium |-> m, id |-> 0, tree |-> NULL]
    PROVE  InterfaceInv' /\ DataKeptStep /\ FailuresToldStep
<1>1. errors \in Nat /\ MediaOK(media) /\ PropertiesOK(hProp)
  BY DEF InterfaceInv
<1>2. /\ errors' \in Nat
      /\ ret' = "RT_Failure" => errors' > errors /\ UNCHANGED index
  BY <1>1, Answers
<1>3. PICK md : md = After(hProp)
  OBVIOUS
<1>4. /\ MediaOK(md) /\ md["custom"] = media["custom"]
      /\ md["disk"] = media["disk"] \/ Emptied(hProp)
  BY <1>1, <1>3, AfterOK
<1>5. media' = md
  BY <1>3
<1>6. index' = NULL \/ (index' \in Indexes /\ index'.tree = NULL)
  BY DEF Indexes
<1>7. InterfaceInv'
  BY <1>1, <1>2, <1>4, <1>5, <1>6 DEF InterfaceInv, IndexOK
<1>8. FailuresToldStep
  BY <1>2, <1>4, <1>5 DEF FailuresToldStep
<1>9. \A other \in Stored : \A k : Holds(other, k)' = IF k \in DOMAIN md[other].trees
                                                THEN {md[other].trees[k].data} ELSE {}
  BY <1>5, <1>6 DEF Holds, Usable
<1>10. \A other \in Stored : \A k : Holds(other, k) = IF k \in DOMAIN media[other].trees
                                                THEN {media[other].trees[k].data} ELSE {}
  BY DEF Holds
<1>11. DataKeptStep
  BY <1>4, <1>9, <1>10 DEF DataKeptStep, Stored
<1> QED
  BY <1>7, <1>8, <1>11

\* The next tree of a storage is none of those it has.
LEMMA NextIsNew ==
    ASSUME NEW md, MediaOK(md), NEW m
    PROVE  /\ Cardinality(DOMAIN Trees(m, md)) + 1 \in Nat \ {0}
           /\ m \in Stored =>
                  /\ Trees(m, md) = md[m].trees
                  /\ Cardinality(DOMAIN Trees(m, md)) + 1 \notin DOMAIN md[m].trees
                  /\ \A n \in DOMAIN md[m].trees :
                         n \in Nat \ {0} /\ n <= Cardinality(DOMAIN md[m].trees) + 1
           /\ m \notin Stored => DOMAIN Trees(m, md) = {}
<1>1. DOMAIN md = Stored
  BY DEF MediaOK
<1>2. CASE m \in Stored
  <2> PICK held : held = DOMAIN md[m].trees
    OBVIOUS
  <2>1. Trees(m, md) = md[m].trees /\ IsFiniteSet(held) /\ held = 1 .. Cardinality(held)
    BY <1>1, <1>2 DEF Trees, MediaOK, MediumOK
  <2>2. Cardinality(held) \in Nat
    BY <2>1, FS_CardinalityType
  <2> QED
    BY <1>2, <2>1, <2>2
<1>3. CASE m \notin Stored
  <2>1. DOMAIN Trees(m, md) = {}
    BY <1>1, <1>3 DEF Trees, NoTrees
  <2> QED
    BY <1>3, <2>1, FS_EmptySet
<1> QED
  BY <1>2, <1>3

\* The storages the properties can name.
LEMMA StorageIs ==
    ASSUME NEW ps
    PROVE  CreateStorage(ps) \in {"disk", "custom", "memory", "none"}
  BY DEF CreateStorage

\* Index_Create: no storage, no type, a new tree, one opened again, or a refusal.
LEMMA CreateKeeps ==
    ASSUME InterfaceInv, Index_Create
    PROVE  InterfaceInv' /\ DataKeptStep /\ FailuresToldStep
<1>1. /\ errors \in Nat /\ MediaOK(media) /\ index = NULL /\ UNCHANGED <<hProp, items>>
      /\ hProp # NULL => PropertiesOK(hProp)
  BY DEF InterfaceInv, Index_Create
<1>2. CASE hProp = NULL
  <2>1. Harmless
    BY <1>1, <1>2, Answers DEF Index_Create, Harmless
  <2> QED
    BY <2>1, HarmlessKeeps
<1>3. CASE hProp # NULL
  <2> PICK m : m = CreateStorage(hProp)
    OBVIOUS
  <2> PICK md : md = After(hProp)
    OBVIOUS
  <2> PICK trees : trees = Trees(m, md)
    OBVIOUS
  <2> PICK type : type = GetIndexType(hProp)
    OBVIOUS
  <2> PICK new : new = Cardinality(DOMAIN trees) + 1
    OBVIOUS
  <2>1. /\ media' = md
        /\ CASE m = "none" -> Fail /\ UNCHANGED index
              [] m # "none" /\ type = RT_InvalidIndexType ->
                   index' = [medium |-> m, id |-> 0, tree |-> NULL] /\ Done
              [] m # "none" /\ type # RT_InvalidIndexType /\ "IndexIdentifier" \notin DOMAIN hProp ->
                   IF AcceptsNew(type, hProp)
                   THEN index' = Index(m, new, type, New(type, hProp), {}) /\ Done
                   ELSE Fail /\ UNCHANGED index
              [] OTHER ->
                   LET n == hProp["IndexIdentifier"]
                   IN  IF n \notin DOMAIN trees THEN Fail /\ UNCHANGED index
                       ELSE /\ trees[n].type = type
                            /\ IF AcceptsOld(type, trees[n].header, hProp)
                               THEN /\ index' = Index(m, n, type, Old(type, trees[n].header, hProp),
                                                      trees[n].data)
                                    /\ Done
                               ELSE Fail /\ UNCHANGED index
    BY <1>3 DEF Index_Create
  <2>2. MediaOK(md)
    BY <1>1, AfterOK
  <2>3. m \in {"disk", "custom", "memory", "none"}
    BY StorageIs
  <2>4. /\ new \in Nat \ {0}
        /\ m \in Stored =>
               /\ trees = md[m].trees /\ new \notin DOMAIN md[m].trees
               /\ \A n \in DOMAIN md[m].trees :
                      n \in Nat \ {0} /\ n <= Cardinality(DOMAIN md[m].trees) + 1
        /\ m \notin Stored => DOMAIN trees = {}
    BY <2>2, NextIsNew
  <2>5. CASE Fail /\ UNCHANGED index
    BY <1>1, <1>3, <2>1, <2>5, NoTreeKeeps
  <2>6. CASE m # "none" /\ index' = [medium |-> m, id |-> 0, tree |-> NULL] /\ Done
    BY <1>1, <1>3, <2>1, <2>3, <2>6, NoTreeKeeps
  <2>7. CASE /\ m # "none" /\ AcceptsNew(type, hProp) /\ Done
             /\ index' = Index(m, new, type, New(type, hProp), {})
    <3>1. SettingsOK(type, New(type, hProp))
      BY <1>1, <1>3, <2>7, NewOK
    <3>2. m \in Stored => new <= Cardinality(DOMAIN md[m].trees) + 1 /\ new \notin DOMAIN md[m].trees
      BY <2>4
    <3> QED
      BY <1>1, <1>3, <2>1, <2>3, <2>4, <2>7, <3>1, <3>2, OpeningKeeps
  <2>8. CASE /\ m # "none" /\ Done
             /\ \E n \in DOMAIN trees :
                    /\ trees[n].type = type /\ AcceptsOld(type, trees[n].header, hProp)
                    /\ index' = Index(m, n, type, Old(type, trees[n].header, hProp), trees[n].data)
    <3>1. PICK n \in DOMAIN trees :
              /\ trees[n].type = type /\ AcceptsOld(type, trees[n].header, hProp)
              /\ index' = Index(m, n, type, Old(type, trees[n].header, hProp), trees[n].data)
      BY <2>8
    <3> PICK r : r = trees[n]
      OBVIOUS
    <3>2. m \in Stored /\ trees = md[m].trees /\ n \in Nat \ {0}
          /\ n <= Cardinality(DOMAIN md[m].trees) + 1
      BY <2>4
    <3>3. HeaderOK(r.type, r.header) /\ r.data \in SUBSET Ids
      BY <2>2, <3>2 DEF MediaOK, MediumOK
    <3>4. SettingsOK(type, Old(type, r.header, hProp))
      BY <1>1, <1>3, <3>1, <3>3, OldOK
    <3>5. index' = Index(m, n, type, Old(type, r.header, hProp), r.data)
      BY <3>1
    <3>6. md[m].trees[n].data = r.data
      BY <3>2
    <3> QED
      BY <1>1, <1>3, <2>1, <2>3, <2>8, <3>2, <3>3, <3>4, <3>5, <3>6, OpeningKeeps
  <2> QED
    BY <2>1, <2>5, <2>6, <2>7, <2>8
<1> QED
  BY <1>2, <1>3

\* An empty stream leaves a tree behind in the caller's storage, where there was none.
LEMMA EmptyStreamKeeps ==
    ASSUME InterfaceInv, index = NULL, hProp # NULL, UNCHANGED <<hProp, index, items>>, Fail,
           NEW n \in Nat \ {0}, n <= Cardinality(DOMAIN media["custom"].trees) + 1,
           n \notin DOMAIN media["custom"].trees, NEW s, SettingsOK(RTree, s),
           media' = With("custom", n, RTree, s, {})
    PROVE  InterfaceInv' /\ DataKeptStep /\ FailuresToldStep
<1>1. errors \in Nat /\ MediaOK(media) /\ PropertiesOK(hProp)
  BY DEF InterfaceInv
<1>2. errors' \in Nat /\ errors' > errors
  BY <1>1, Answers
<1>3. PICK md : md = With("custom", n, RTree, s, {})
  OBVIOUS
<1>4. "custom" \in Stored /\ {} \in SUBSET Ids
  BY DEF Stored
<1>5. /\ MediaOK(md)
      /\ \A other \in Stored : other # "custom" => md[other] = media[other]
      /\ \A k : k # n => (k \in DOMAIN md["custom"].trees <=> k \in DOMAIN media["custom"].trees)
      /\ \A k \in DOMAIN media["custom"].trees : k # n => md["custom"].trees[k] = media["custom"].trees[k]
  BY <1>1, <1>3, <1>4, WithOK
<1>6. media' = md
  BY <1>3
<1>7. InterfaceInv'
  BY <1>1, <1>2, <1>5, <1>6 DEF InterfaceInv
<1>8. FailuresToldStep
  BY <1>2, <1>5, <1>6 DEF FailuresToldStep, Stored
<1>9. \A other \in Stored : \A k : Holds(other, k)' = Holds(other, k) \/ Holds(other, k) = {}
  <2> SUFFICES ASSUME NEW other \in Stored, NEW k
               PROVE  Holds(other, k)' = Holds(other, k) \/ Holds(other, k) = {}
    OBVIOUS
  <2>1. /\ Holds(other, k)' = IF k \in DOMAIN md[other].trees THEN {md[other].trees[k].data} ELSE {}
        /\ Holds(other, k) = IF k \in DOMAIN media[other].trees THEN {media[other].trees[k].data} ELSE {}
    BY <1>6 DEF Holds, Usable
  <2> QED
    BY <1>5, <2>1
<1>10. DataKeptStep
  BY <1>9 DEF DataKeptStep, Stored
<1> QED
  BY <1>7, <1>8, <1>10

\* Index_CreateWithStream: refused before the load, after it, or a new tree.
LEMMA StreamKeeps ==
    ASSUME InterfaceInv, Index_CreateWithStream
    PROVE  InterfaceInv' /\ DataKeptStep /\ FailuresToldStep
<1>1. /\ errors \in Nat /\ MediaOK(media) /\ index = NULL /\ UNCHANGED <<hProp, items>>
      /\ hProp # NULL => PropertiesOK(hProp)
  BY DEF InterfaceInv, Index_CreateWithStream
<1>2. CASE hProp = NULL
  <2>1. Harmless
    BY <1>1, <1>2, Answers DEF Index_CreateWithStream, Harmless
  <2> QED
    BY <2>1, HarmlessKeeps
<1>3. CASE hProp # NULL
  <2> PICK m : m = CreateStorage(hProp)
    OBVIOUS
  <2> PICK md : md = After(hProp)
    OBVIOUS
  <2> PICK trees : trees = Trees(m, md)
    OBVIOUS
  <2> PICK ps : ps = createNewRTree(hProp)
    OBVIOUS
  <2> PICK new : new = Cardinality(DOMAIN trees) + 1
    OBVIOUS
  <2>1. IF m = "none" \/ ~RTreeAcceptsNew(ps)
        THEN Fail /\ UNCHANGED index /\ media' = md
        ELSE \E data \in SUBSET Ids :
               IF data = {}
               THEN /\ Fail /\ UNCHANGED index
                    /\ media' = IF m = "custom" THEN With("custom", new, RTree, NewRTree(ps), {}) ELSE md
               ELSE /\ media' = md
                    /\ index' = Index(m, new, RTree, NewRTree(ps), data) /\ Done
    BY <1>3 DEF Index_CreateWithStream
  <2>2. MediaOK(md)
    BY <1>1, AfterOK
  <2>3. m \in {"disk", "custom", "memory", "none"}
    BY StorageIs
  <2>4. /\ new \in Nat \ {0}
        /\ m \in Stored =>
               /\ trees = md[m].trees /\ new \notin DOMAIN md[m].trees
               /\ new <= Cardinality(DOMAIN md[m].trees) + 1
    BY <2>2, NextIsNew
  <2>5. RTreeAcceptsNew(ps) => SettingsOK(RTree, NewRTree(ps))
    BY <1>1, <1>3, BulkOK
  <2>6. CASE Fail /\ UNCHANGED index /\ media' = md
    BY <1>1, <1>3, <2>6, NoTreeKeeps
  <2>7. CASE /\ m = "custom" /\ RTreeAcceptsNew(ps) /\ Fail /\ UNCHANGED index
             /\ media' = With("custom", new, RTree, NewRTree(ps), {})
    <3>1. ~Emptied(hProp)
      BY <2>7 DEF CreateStorage, Emptied, RT_Disk, RT_Memory, RT_Custom
    <3>2. md = media
      BY <1>1, <3>1, AfterOK
    <3>3. "custom" \in Stored
      BY DEF Stored
    <3>4. /\ new \notin DOMAIN media["custom"].trees
          /\ new <= Cardinality(DOMAIN media["custom"].trees) + 1
      BY <2>4, <2>7, <3>2, <3>3
    <3> QED
      BY <1>1, <1>3, <2>4, <2>5, <2>7, <3>4, EmptyStreamKeeps
  <2>8. CASE /\ m # "none" /\ RTreeAcceptsNew(ps) /\ media' = md /\ Done
             /\ \E data \in SUBSET Ids : index' = Index(m, new, RTree, NewRTree(ps), data)
    <3>1. PICK data \in SUBSET Ids : index' = Index(m, new, RTree, NewRTree(ps), data)
      BY <2>8
    <3>2. m \in Stored => new <= Cardinality(DOMAIN md[m].trees) + 1 /\ new \notin DOMAIN md[m].trees
      BY <2>4
    <3> QED
      BY <1>1, <1>3, <2>3, <2>4, <2>5, <2>8, <3>1, <3>2, OpeningKeeps
  <2> QED
    BY <2>1, <2>6, <2>7, <2>8
<1> QED
  BY <1>2, <1>3

-----------------------------------------------------------------------------
\* The caller starts from the defaults and what it has set over them, and from files
\* the library has written.
LEMMA InitInv == InterfaceInit => InterfaceInv
<1> SUFFICES ASSUME InterfaceInit PROVE InterfaceInv
  OBVIOUS
<1>1. PICK start \in Starts :
          /\ hProp = Over(start.set, GetDefaults)
          /\ media = [disk |-> start.files, custom |-> Medium("stored", NoTrees)]
  BY DEF InterfaceInit
<1>2. MediumOK(start.files) /\ \A name \in DOMAIN start.set : start.set[name] \in Int
  BY CallerAssumption
<1>3. PropertiesOK(hProp)
  BY <1>1, <1>2, DefaultsOK DEF Over, PropertiesOK
<1>4. MediumOK(Medium("stored", NoTrees))
  <2>1. DOMAIN NoTrees = {} /\ Medium("stored", NoTrees).trees = NoTrees
    BY DEF NoTrees, Medium
  <2>2. IsFiniteSet({}) /\ Cardinality({}) = 0 /\ {} = 1 .. 0
    BY FS_EmptySet
  <2> QED
    BY <2>1, <2>2 DEF MediumOK
<1>5. /\ media = [m \in Stored |-> media[m]]
      /\ media["disk"] = start.files /\ media["custom"] = Medium("stored", NoTrees)
  BY <1>1 DEF Stored
<1>6. MediaOK(media)
  BY <1>2, <1>4, <1>5 DEF MediaOK, Stored
<1> QED
  BY <1>3, <1>6 DEF InterfaceInv, InterfaceInit

\* Every call keeps the invariant, and with it the data and the caller's knowledge.
LEMMA StepKeeps ==
    ASSUME InterfaceInv, [InterfaceNext]_interfaceVars
    PROVE  InterfaceInv' /\ [DataKeptStep]_interfaceVars /\ [FailuresToldStep]_interfaceVars
<1>1. CASE Reading
  BY <1>1, ReadingHarmless, HarmlessKeeps
<1>2. CASE Index_InsertData \/ Index_DeleteData
  BY <1>2, InsertDeleteKeep
<1>3. CASE Index_Destroy
  BY <1>3, DestroyKeeps
<1>4. CASE Index_Create
  BY <1>4, CreateKeeps
<1>5. CASE Index_CreateWithStream
  BY <1>5, StreamKeeps
<1>6. CASE UNCHANGED interfaceVars
  <2>1. InterfaceInv'
    BY <1>6 DEF interfaceVars, InterfaceInv, IndexOK
  <2> QED
    BY <1>6, <2>1
<1> QED
  BY <1>1, <1>2, <1>3, <1>4, <1>5, <1>6 DEF InterfaceNext, Reading

\* In every state of the C interface the caller's properties are complete numbers,
\* the storages hold trees numbered without a gap whose headers fit, and an open
\* index holds a tree of its storage, or the next one, with settings that fit: what
\* initNew, initOld, storeHeader and the buffers of Index.cc rely on.
THEOREM InterfaceSound == InterfaceSpec => []InterfaceInv
<1>1. InterfaceInv /\ [InterfaceNext]_interfaceVars => InterfaceInv'
  BY StepKeeps
<1> QED
  BY InitInv, <1>1, PTL DEF InterfaceSpec

\* The data of a tree change one by one through the index that has it open; they
\* outlive the index, and no other tree of the file loses its own, unless a call asks
\* for the files to be overwritten (Index.cc, DiskStorageManager.cc).
THEOREM TreeDataKept == InterfaceSpec => DataKept
<1>1. InterfaceInv /\ [InterfaceNext]_interfaceVars => [DataKeptStep]_interfaceVars
  BY StepKeeps
<1> QED
  BY InterfaceSound, <1>1, PTL DEF InterfaceSpec, DataKept

\* A function of sidx_api.cc that returns RT_Failure has pushed an error, and has
\* left the properties, the index and the items as they were.
THEOREM EveryFailureTold == InterfaceSpec => FailuresTold
<1>1. InterfaceInv /\ [InterfaceNext]_interfaceVars => [FailuresToldStep]_interfaceVars
  BY StepKeeps
<1> QED
  BY InterfaceSound, <1>1, PTL DEF InterfaceSpec, FailuresTold

\* Every tree that initNew or initOld lets through has settings that fit, and is the
\* same tree when it is opened again with the properties it tells.
THEOREM OpenTreesFit == InterfaceSpec => []SettingsFit
<1>1. InterfaceInv => SettingsFit
  <2> SUFFICES ASSUME InterfaceInv, index # NULL, Usable PROVE
        /\ Fits(index.tree.type, index.tree.s)
        /\ NearFits(index.tree.s, index.tree.s) =>
              /\ AcceptsOld(index.tree.type, Header(index.tree.type, index.tree.s),
                            Properties(index.tree.type, index.tree.s))
              /\ Old(index.tree.type, Header(index.tree.type, index.tree.s),
                     Properties(index.tree.type, index.tree.s)) = index.tree.s
    BY DEF SettingsFit, tree
  <2>1. SettingsOK(index.tree.type, index.tree.s)
    BY DEF InterfaceInv, IndexOK, Usable
  <2> QED
    BY <2>1, OpensAgain DEF SettingsOK
<1> QED
  BY InterfaceSound, <1>1, PTL
=============================================================================
