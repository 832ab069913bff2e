--------------------------- MODULE VersionedIndex ---------------------------
(***************************************************************************)
(* The life of a multi-version R-tree: time passes, data are inserted and  *)
(* deleted, and any time may be asked about.                               *)
(*                                                                         *)
(* An id is given to one datum only: deleteData takes the last entry of a  *)
(* leaf with the id, which may be that of a dead one.  deleteData does not *)
(* ask whether its time is before the current one; here it is not.         *)
(***************************************************************************)
EXTENDS MVRTree

CONSTANTS
    Config,         \* configurations of a tree that initNew accepts; bounds of the model in
                    \* each of them: its data, and maxDeletes of them out of turn
    Input,          \* the regions of the data; their ids are their numbers
    Burst,          \* so many are inserted at every time
    Window,         \* the regions of the queries
    Victims         \* the data that may be deleted out of turn

VARIABLES
    v,              \* the tree
    next,           \* the first of the data not inserted yet
    deletes,
    lives           \* the time each datum inserted lives, [from, until]

versionVars == <<v, next, deletes, lives>>

initNew(c) ==
    writeNode([page |-> [p \in {} |-> 0], m_roots |-> <<[id |-> 0, start |-> 0, end |-> Forever]>>,
               m_treeHeight |-> <<1>>, m_currentTime |-> 0, m_u64Data |-> 0, outside |-> FALSE] @@ c,
              [m_identifier |-> NewPage, m_level |-> 0, m_nodeMBR |-> makeInfinite,
               start |-> 0, end |-> Forever, entries |-> <<>>])

VersionInit ==
    /\ v \in {initNew(c) : c \in Config}
    /\ next = 1 /\ deletes = 0 /\ lives = <<>>

Alive == {k \in DOMAIN lives : lives[k].until = Forever}

now == v.m_currentTime

\* Time passes after every burst.
InsertData ==
    LET time == IF next % Burst = 0 THEN now + 1 ELSE now
    IN  /\ next <= v.data
        /\ v' = Inserted(v, Input[next], next, time)
        /\ lives' = Append(lives, [from |-> time, until |-> Forever])
        /\ next' = next + 1 /\ UNCHANGED deletes

Delete(k, time) ==
    /\ v' = Deleted(v, Input[k], k, time)
    /\ lives' = [j \in DOMAIN lives |->
                   IF j = k /\ j \in Alive THEN [lives[j] EXCEPT !.until = time] ELSE lives[j]]
    /\ UNCHANGED next

DeleteData ==
    /\ deletes < v.maxDeletes /\ deletes' = deletes + 1
    /\ \E k \in Alive \cap Victims, d \in 0 .. 1 : Delete(k, now + d)

\* When all were inserted they go again, the oldest first.
DeleteOldest ==
    /\ next > v.data /\ Alive # {}
    /\ Delete(Min(Alive), IF Cardinality(Alive) % Burst = 0 THEN now + 1 ELSE now)
    /\ UNCHANGED deletes

VersionNext == InsertData \/ DeleteData \/ DeleteOldest

VersionSpec == VersionInit /\ [][VersionNext]_versionVars

-----------------------------------------------------------------------------
\* What lives, from n down.
RECURSIVE Now(_)
Now(n) == {n} \cup IF n.m_level = 0 THEN {}
                   ELSE UNION {Now(v.page[e.id]) : e \in ToSet(Living(n))}

\* The roots take turns from the beginning to the end of time.
RootsInTurn ==
    /\ v.m_roots[1].start = 0 /\ lastRoot(v).end = Forever
    /\ \A k \in 1 .. Len(v.m_roots) - 1 : v.m_roots[k].end = v.m_roots[k + 1].start
    /\ \A k \in DOMAIN v.m_roots :
          /\ v.m_roots[k].start < v.m_roots[k].end
          /\ v.page[v.m_roots[k].id].m_level = v.m_treeHeight[k] - 1

\* In the tree of now every entry has the region of its node; nodes hold enough.
LivingValid ==
    \A n \in Now(root(v)) :
        /\ n # root(v) => Len(Living(n)) >= Of(v.versionUnderflow, n.m_level)
        /\ IF v.m_bTightMBRs /\ ~v.Far THEN n.m_nodeMBR = Around(n.entries)
           ELSE containsRegion(n.m_nodeMBR, Around(n.entries))
        /\ n.m_level > 0 => \A e \in ToSet(Living(n)) :
              /\ v.page[e.id].m_level = n.m_level - 1
              /\ v.page[e.id].m_nodeMBR = e.mbr

\* What lives, lives in one leaf.
LivingOnce ==
    LET leaves == {n \in Now(root(v)) : n.m_level = 0}
    IN  /\ \A k \in Alive : Cardinality({n \in leaves : \E e \in ToSet(Living(n)) : e.id = k}) = 1
        /\ \A n \in leaves : Len(Living(n)) = Cardinality({e.id : e \in ToSet(Living(n))})
        /\ UNION {{e.id : e \in ToSet(Living(n))} : n \in leaves} = Alive
        /\ v.m_u64Data = Cardinality(Alive)

\* After every operation the versions follow each other without a gap, the tree of now has
\* true bounds and levels and no node too empty, and every datum that lives is in exactly
\* one leaf of it (MVRTree::isIndexValid asks for the bounds only).
VersionValid == RootsInTurn /\ LivingValid /\ LivingOnce /\ ~v.outside

\* The data that live at some time from a until b, and those deleted when they were
\* inserted, which a version that ended at that time keeps.
AliveDuring(a, b) == {k \in DOMAIN lives : lives[k].from < Min({b, lives[k].until}) /\ a < lives[k].until}

Momentary(a, b) == {k \in DOMAIN lives : lives[k].from = lives[k].until /\ a < lives[k].from /\ lives[k].from < b}

Answer(type, r, a, b) == rangeQuery(v, type, r, a, b)

Expected(type, r, S) == {k \in S : R!Answers(type, r, Input[k])}

\* A query about any time, past or present, answers with the data that lived then, each
\* once: ending, splitting, copying and borrowing never changes the past.
VersionsExact ==
    \A r \in Window, type \in {"IntersectionQuery", "ContainmentQuery"} :
        /\ \A a \in 0 .. now :
              Answer(type, r, a, a + 1) = Expected(type, r, AliveDuring(a, a + 1))
        /\ \A i \in {<<0, now + 1>>, <<now \div 2, now + 1>>, <<now \div 3, (2 * now) \div 3 + 1>>} :
              /\ Expected(type, r, AliveDuring(i[1], i[2])) \subseteq Answer(type, r, i[1], i[2])
              /\ Answer(type, r, i[1], i[2]) \subseteq
                    Expected(type, r, AliveDuring(i[1], i[2]) \cup Momentary(i[1], i[2]))
=============================================================================
