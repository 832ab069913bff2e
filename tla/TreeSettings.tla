---------------------------- MODULE TreeSettings ----------------------------
(***************************************************************************)
(* How the three trees of the library take their settings: from a set of   *)
(* properties when a tree is new, and from its header and a few properties *)
(* when a stored tree is opened again.                                     *)
(*                                                                         *)
(* A set of properties is a function from the names that are present to    *)
(* their values.  The type a value carries is left out: every setter       *)
(* writes the type that the readers of the name ask for.  Factors are in   *)
(* tenths.                                                                 *)
(***************************************************************************)
EXTENDS Integers

RTree   == 0
MVRTree == 1
TPRTree == 2

RV_LINEAR    == 0
RV_QUADRATIC == 1
RV_RSTAR     == 2
TPRV_RSTAR   == 0

Common == {"TreeVariant", "FillFactor", "IndexCapacity", "LeafCapacity",
           "NearMinimumOverlapFactor", "SplitDistributionFactor", "ReinsertFactor", "Dimension",
           "EnsureTightMBRs", "IndexPoolCapacity", "LeafPoolCapacity", "RegionPoolCapacity",
           "PointPoolCapacity"}
VersionSettings == {"StrongVersionOverflow", "VersionUnderflow"}

\* getProperty: the value of a name, or the tree's own when the name is absent.
getProperty(ps, name, otherwise) == IF name \in DOMAIN ps THEN ps[name] ELSE otherwise

\* The settings s after the properties of the given names are taken over.
Taken(s, ps, names) ==
    [name \in DOMAIN s |-> IF name \in names THEN getProperty(ps, name, s[name]) ELSE s[name]]

\* What the constructors set before they look at the properties.
RTreeDefaults ==
    [name \in Common |->
        CASE name = "TreeVariant" -> RV_RSTAR
          [] name = "FillFactor" -> 7
          [] name \in {"IndexCapacity", "LeafCapacity", "IndexPoolCapacity", "LeafPoolCapacity"} -> 100
          [] name = "NearMinimumOverlapFactor" -> 32
          [] name = "SplitDistributionFactor" -> 4
          [] name = "ReinsertFactor" -> 3
          [] name = "Dimension" -> 2
          [] name = "EnsureTightMBRs" -> 1
          [] name = "RegionPoolCapacity" -> 1000
          [] name = "PointPoolCapacity" -> 500]

MVRTreeDefaults ==
    [name \in Common \cup VersionSettings |->
        CASE name \in Common -> RTreeDefaults[name]
          [] name = "StrongVersionOverflow" -> 8
          [] name = "VersionUnderflow" -> 3]

TPRTreeDefaults ==
    [name \in Common \cup {"Horizon"} |->
        CASE name = "TreeVariant" -> TPRV_RSTAR
          [] name = "Horizon" -> 200
          [] OTHER -> RTreeDefaults[name]]

-----------------------------------------------------------------------------
\* A property that is given must satisfy its condition; one that is absent is
\* not looked at.
Proper(ps, name)         == name \in DOMAIN ps => ps[name] > 0 /\ ps[name] < 10
AtLeast(ps, name, least) == name \in DOMAIN ps => ps[name] >= least

\* A mutant: only the index capacity is looked at.
NearFitsIndex(ps, s) ==
    "NearMinimumOverlapFactor" \in DOMAIN ps =>
        /\ ps["NearMinimumOverlapFactor"] >= 1
        /\ ps["NearMinimumOverlapFactor"] <= s["IndexCapacity"]

\* The factor is compared with the capacities the tree has.
NearFits(ps, s) ==
    "NearMinimumOverlapFactor" \in DOMAIN ps =>
        /\ ps["NearMinimumOverlapFactor"] >= 1
        /\ ps["NearMinimumOverlapFactor"] <= s["IndexCapacity"]
        /\ ps["NearMinimumOverlapFactor"] <= s["LeafCapacity"]

VariantFits(ps, variants) == "TreeVariant" \in DOMAIN ps => ps["TreeVariant"] \in variants

\* The checks initNew makes in all three trees.
NewFits(ps, s, least) ==
    /\ Proper(ps, "FillFactor")
    /\ AtLeast(ps, "IndexCapacity", least) /\ AtLeast(ps, "LeafCapacity", least)
    /\ NearFits(ps, s)
    /\ Proper(ps, "SplitDistributionFactor") /\ Proper(ps, "ReinsertFactor")
    /\ AtLeast(ps, "Dimension", 2)

\* The checks initOld makes in all three trees.
OldFits(ps, s) ==
    NearFits(ps, s) /\ Proper(ps, "SplitDistributionFactor") /\ Proper(ps, "ReinsertFactor")

\* What initOld takes over; the rest of the settings are the header's.
Reopened == {"TreeVariant", "NearMinimumOverlapFactor", "SplitDistributionFactor", "ReinsertFactor",
             "EnsureTightMBRs", "IndexPoolCapacity", "LeafPoolCapacity", "RegionPoolCapacity",
             "PointPoolCapacity"}

-----------------------------------------------------------------------------
\* initNew: the settings of a new tree, and whether the properties are accepted.
NewRTree(ps) == Taken(RTreeDefaults, ps, Common)

RTreeAcceptsNew(ps) ==
    /\ VariantFits(ps, {RV_LINEAR, RV_QUADRATIC, RV_RSTAR})
    /\ NewFits(ps, NewRTree(ps), 4)
    \* The linear and the quadratic split fill both nodes.
    /\ "FillFactor" \in DOMAIN ps /\ NewRTree(ps)["TreeVariant"] \in {RV_LINEAR, RV_QUADRATIC} =>
           ps["FillFactor"] <= 5

NewMVRTree(ps) == Taken(MVRTreeDefaults, ps, Common \cup VersionSettings)

MVRTreeAcceptsNew(ps) ==
    /\ VariantFits(ps, {RV_LINEAR, RV_QUADRATIC, RV_RSTAR})
    /\ NewFits(ps, NewMVRTree(ps), 10)
    /\ Proper(ps, "StrongVersionOverflow") /\ Proper(ps, "VersionUnderflow")

NewTPRTree(ps) == Taken(TPRTreeDefaults, ps, Common \cup {"Horizon"})

TPRTreeAcceptsNew(ps) ==
    /\ VariantFits(ps, {TPRV_RSTAR})
    /\ NewFits(ps, NewTPRTree(ps), 4)
    /\ AtLeast(ps, "Horizon", 1)

-----------------------------------------------------------------------------
\* storeHeader and loadHeader: the header keeps every setting but the capacities
\* of the pools, and the tree that is opened again starts from the constructor's.
Pools == {"IndexPoolCapacity", "LeafPoolCapacity", "RegionPoolCapacity", "PointPoolCapacity"}

RTreeHeader(s)   == [name \in Common \ Pools |-> s[name]]
MVRTreeHeader(s) == [name \in (Common \cup VersionSettings) \ Pools |-> s[name]]
TPRTreeHeader(s) == [name \in (Common \cup {"Horizon"}) \ Pools |-> s[name]]

LoadRTree(h)   == Taken(RTreeDefaults, h, DOMAIN h)
LoadMVRTree(h) == Taken(MVRTreeDefaults, h, DOMAIN h)
LoadTPRTree(h) == Taken(TPRTreeDefaults, h, DOMAIN h)

\* initOld: the settings of a tree opened again from header h, and whether the
\* properties are accepted.
OldRTree(h, ps)        == Taken(LoadRTree(h), ps, Reopened)
RTreeAcceptsOld(h, ps) ==
    /\ VariantFits(ps, {RV_LINEAR, RV_QUADRATIC, RV_RSTAR})
    /\ OldFits(ps, LoadRTree(h))

OldMVRTree(h, ps)        == Taken(LoadMVRTree(h), ps, Reopened)
MVRTreeAcceptsOld(h, ps) ==
    /\ VariantFits(ps, {RV_LINEAR, RV_QUADRATIC, RV_RSTAR})
    /\ OldFits(ps, LoadMVRTree(h))

OldTPRTree(h, ps)        == Taken(LoadTPRTree(h), ps, Reopened \cup {"Horizon"})
TPRTreeAcceptsOld(h, ps) ==
    /\ VariantFits(ps, {TPRV_RSTAR})
    /\ OldFits(ps, LoadTPRTree(h))
    /\ AtLeast(ps, "Horizon", 1)

\* getIndexProperties: a tree tells all its settings, and nothing of its header's
\* identifier or of its storage.
RTreeProperties(s)   == [name \in Common |-> s[name]]
MVRTreeProperties(s) == [name \in Common \cup VersionSettings |-> s[name]]
TPRTreeProperties(s) == [name \in Common \cup {"Horizon"} |-> s[name]]

-----------------------------------------------------------------------------
\* The tree of a type.
Header(type, s) ==
    CASE type = RTree -> RTreeHeader(s)
      [] type = MVRTree -> MVRTreeHeader(s)
      [] type = TPRTree -> TPRTreeHeader(s)

AcceptsNew(type, ps) ==
    \/ type = RTree /\ RTreeAcceptsNew(ps)
    \/ type = MVRTree /\ MVRTreeAcceptsNew(ps)
    \/ type = TPRTree /\ TPRTreeAcceptsNew(ps)

New(type, ps) ==
    CASE type = RTree -> NewRTree(ps)
      [] type = MVRTree -> NewMVRTree(ps)
      [] type = TPRTree -> NewTPRTree(ps)

AcceptsOld(type, h, ps) ==
    \/ type = RTree /\ RTreeAcceptsOld(h, ps)
    \/ type = MVRTree /\ MVRTreeAcceptsOld(h, ps)
    \/ type = TPRTree /\ TPRTreeAcceptsOld(h, ps)

Old(type, h, ps) ==
    CASE type = RTree -> OldRTree(h, ps)
      [] type = MVRTree -> OldMVRTree(h, ps)
      [] type = TPRTree -> OldTPRTree(h, ps)

Properties(type, s) ==
    CASE type = RTree -> RTreeProperties(s)
      [] type = MVRTree -> MVRTreeProperties(s)
      [] type = TPRTree -> TPRTreeProperties(s)
=============================================================================
