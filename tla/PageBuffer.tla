------------------------------ MODULE PageBuffer ------------------------------
(***************************************************************************)
(* A RandomEvictionsBuffer over a DiskStorageManager: the storage of an    *)
(* index as its trees see it, from the making of the files over ends,      *)
(* failures and restarts of the program.                                   *)
(*                                                                         *)
(* The buffer holds m_capacity arrays.  When another must enter, any of    *)
(* them leaves, and is stored below first if it is dirty.  The trees load, *)
(* store and delete only ids they were given.                              *)
(***************************************************************************)
EXTENDS DiskStorage, FiniteSets

CONSTANT m_capacity

ASSUME CapacityAssumption == m_capacity \in Nat \ {0}

VARIABLES
    phase,          \* "up", "clearing" or "closing" the buffer, or "down"
    disk,           \* the DiskStorageManager
    m_buffer,       \* the buffered arrays: [array, m_bDirty] by id
    m_bWriteThrough,
    indexFile,
    safe,           \* history: arrays that a failure leaves alone
    touched         \* history: ids stored or deleted since the last end

bufferVars == <<phase, disk, m_buffer, m_bWriteThrough, indexFile, safe, touched>>

BufferInit ==
    /\ phase = "up"
    /\ disk = Fresh
    /\ m_buffer = <<>>
    /\ m_bWriteThrough \in BOOLEAN
    /\ indexFile = NoFile
    /\ safe = <<>> /\ touched = {}

\* The arrays as the trees see them: those of the buffer hide those of the disk.
View(d, buf) ==
    [id \in DOMAIN d.m_pageIndex \cup DOMAIN buf |->
        IF id \in DOMAIN buf THEN buf[id].array ELSE Contents(d)[id]]

\* Ids of S are touched.
Touched(S) ==
    /\ touched' = touched \cup S
    /\ safe' = [id \in DOMAIN safe \ S |-> safe[id]]

Entry(a, dirty) == [array |-> a, m_bDirty |-> dirty]

\* A store below, of an array that is there: it overwrites, and fails when a write
\* does or when the id is not there any more.
CanOverwrite(d, id) == ~d.fail /\ id \in DOMAIN d.m_pageIndex
Overwrite(d, id, a) == Put(d, OldPages(d, id), a)
OverwriteFails(d, id, a) ==
    IF id \in DOMAIN d.m_pageIndex
    THEN {PutFails(d, OldPages(d, id), a, n) : n \in FailAt(d, a)}
    ELSE {d}

-----------------------------------------------------------------------------
(* addEntry and removeEntry                                                *)

\* Mutant: the entry leaves without being stored.
AddEntryDrops(d, id, e, S) ==
    \/ /\ Cardinality(DOMAIN m_buffer) < m_capacity
       /\ disk' = d /\ m_buffer' = With(m_buffer, id, e)
       /\ Touched(S)
    \/ /\ Cardinality(DOMAIN m_buffer) = m_capacity
       /\ \E out \in DOMAIN m_buffer :
            /\ disk' = d /\ m_buffer' = With(Without(m_buffer, out), id, e)
            /\ Touched(S \cup {out})

\* The entry e comes in under id, with the disk at d and the ids S touched before.  A full buffer gives up
\* any other entry, and when its store fails, e does not come in.
AddEntry(d, id, e, S) ==
    \/ /\ Cardinality(DOMAIN m_buffer) < m_capacity
       /\ disk' = d /\ m_buffer' = With(m_buffer, id, e)
       /\ Touched(S)
    \/ /\ Cardinality(DOMAIN m_buffer) = m_capacity
       /\ \E out \in DOMAIN m_buffer :
            \/ /\ ~m_buffer[out].m_bDirty
               /\ disk' = d /\ m_buffer' = With(Without(m_buffer, out), id, e)
               /\ Touched(S)
            \/ /\ m_buffer[out].m_bDirty /\ CanOverwrite(d, out)
               /\ disk' = Overwrite(d, out, m_buffer[out].array)
               /\ m_buffer' = With(Without(m_buffer, out), id, e)
               /\ Touched(S \cup {out})
            \/ /\ m_buffer[out].m_bDirty
               /\ disk' \in OverwriteFails(d, out, m_buffer[out].array)
               /\ UNCHANGED m_buffer
               /\ Touched(S \cup {out})

Bounded == disk'.m_nextPage <= MaxPage

\* loadByteArray; one that hits changes nothing.
Load(id) ==
    /\ phase = "up" /\ ~disk.fail
    /\ id \in DOMAIN disk.m_pageIndex \ DOMAIN m_buffer
    /\ AddEntry(disk, id, Entry(Contents(disk)[id], FALSE), {})
    /\ Bounded /\ UNCHANGED <<phase, m_bWriteThrough, indexFile>>

\* storeByteArray under NewPage goes through to the disk.
StoreNew(a) ==
    /\ phase = "up" /\ ~disk.fail
    /\ LET id == Pages(disk, <<>>, Len(a))[1]
       IN  AddEntry(Put(disk, <<>>, a), id, Entry(a, FALSE), {id})
    /\ Bounded /\ UNCHANGED <<phase, m_bWriteThrough, indexFile>>

StoreNewFails(a) ==
    /\ phase = "up"
    /\ \E n \in FailAt(disk, a) : disk' = PutFails(disk, <<>>, a, n)
    /\ Bounded /\ UNCHANGED <<phase, m_buffer, m_bWriteThrough, indexFile, safe, touched>>

\* storeByteArray under an id in use, which goes through or makes the entry dirty.
Store(id, a) ==
    /\ phase = "up" /\ id \in DOMAIN View(disk, m_buffer)
    /\ m_bWriteThrough => CanOverwrite(disk, id)
    /\ LET d == IF m_bWriteThrough THEN Overwrite(disk, id, a) ELSE disk
           e == Entry(a, ~m_bWriteThrough)
       IN  IF id \in DOMAIN m_buffer
           THEN disk' = d /\ m_buffer' = With(m_buffer, id, e) /\ Touched({id})
           ELSE AddEntry(d, id, e, {id})
    /\ Bounded /\ UNCHANGED <<phase, m_bWriteThrough, indexFile>>

\* The buffer keeps the array it has.
StoreFails(id, a) ==
    /\ phase = "up" /\ m_bWriteThrough /\ id \in DOMAIN View(disk, m_buffer)
    /\ disk' \in OverwriteFails(disk, id, a)
    /\ Touched({id})
    /\ Bounded /\ UNCHANGED <<phase, m_buffer, m_bWriteThrough, indexFile>>

\* deleteByteArray: the buffer forgets the array first, the disk throws when it does
\* not have it.
Delete(id) ==
    /\ phase = "up" /\ id \in DOMAIN View(disk, m_buffer)
    /\ m_buffer' = Without(m_buffer, id)
    /\ disk' = IF id \in DOMAIN disk.m_pageIndex THEN Erase(disk, id) ELSE disk
    /\ Touched({id})
    /\ UNCHANGED <<phase, m_bWriteThrough, indexFile>>

-----------------------------------------------------------------------------
(* clear, the destructors, failures and constructors                       *)

\* clear, or the end of the program, which destroys the buffer before the manager.
Clear ==
    /\ phase = "up" /\ phase' \in {"clearing", "closing"}
    /\ UNCHANGED <<disk, m_buffer, m_bWriteThrough, indexFile, safe, touched>>

\* Both store the dirty arrays in the order of the ids.
FirstToWrite(id) ==
    /\ phase \in {"clearing", "closing"}
    /\ id \in DOMAIN m_buffer /\ m_buffer[id].m_bDirty
    /\ \A other \in DOMAIN m_buffer : m_buffer[other].m_bDirty => id <= other

WriteBack(id) ==
    /\ FirstToWrite(id) /\ CanOverwrite(disk, id)
    /\ disk' = Overwrite(disk, id, m_buffer[id].array)
    /\ m_buffer' = Without(m_buffer, id)
    /\ Touched({id})
    /\ Bounded /\ UNCHANGED <<phase, m_bWriteThrough, indexFile>>

AllWritten == \A id \in DOMAIN m_buffer : ~m_buffer[id].m_bDirty

Cleared ==
    /\ phase = "clearing" /\ AllWritten
    /\ phase' = "up" /\ m_buffer' = <<>>
    /\ UNCHANGED <<disk, m_bWriteThrough, indexFile, safe, touched>>

\* The manager's destructor writes the index file.
Close ==
    /\ phase = "closing" /\ AllWritten
    /\ phase' = "down" /\ m_buffer' = <<>>
    /\ indexFile' = IndexFile(disk)
    /\ disk' = Gone(disk.data)
    /\ IF disk.fail THEN UNCHANGED <<safe, touched>>
       ELSE safe' = Contents(disk) /\ touched' = {}
    /\ UNCHANGED m_bWriteThrough

\* A store throws out of clear, which leaves freed entries in the buffer, or out of the
\* destructor: the program does not go on.
WriteBackFails(id) ==
    /\ FirstToWrite(id)
    /\ \E d \in OverwriteFails(disk, id, m_buffer[id].array) :
          d.m_nextPage <= MaxPage /\ disk' = Gone(d.data)
    /\ phase' = "down" /\ m_buffer' = <<>>
    /\ Touched({id})
    /\ UNCHANGED <<m_bWriteThrough, indexFile>>

\* The program is killed, with the last page written or not.  A kill while the index
\* file is being written is left out.
Crash ==
    /\ phase # "down" /\ phase' = "down"
    /\ \E lost \in SUBSET disk.behind :
          disk' = Gone([p \in Page |-> IF p \in lost THEN NULL ELSE disk.data[p]])
    /\ m_buffer' = <<>>
    /\ UNCHANGED <<m_bWriteThrough, indexFile, safe, touched>>

\* The constructor fails on an index file that was never written.
Open ==
    /\ phase = "down" /\ indexFile.valid
    /\ phase' = "up"
    /\ disk' = Opened(indexFile, disk.data)
    /\ m_bWriteThrough' \in BOOLEAN
    /\ UNCHANGED <<m_buffer, indexFile, safe, touched>>

Create ==
    /\ phase = "down" /\ phase' = "up"
    /\ disk' = Fresh /\ indexFile' = NoFile
    /\ m_bWriteThrough' \in BOOLEAN
    /\ safe' = <<>> /\ touched' = {}
    /\ UNCHANGED m_buffer

-----------------------------------------------------------------------------
BufferNext ==
    \/ \E a \in Array :
          \/ StoreNew(a) \/ StoreNewFails(a)
          \/ \E id \in Page : Store(id, a) \/ StoreFails(id, a)
    \/ \E id \in Page : Load(id) \/ Delete(id) \/ WriteBack(id) \/ WriteBackFails(id)
    \/ Clear \/ Cleared \/ Close \/ Crash \/ Open \/ Create

BufferSpec == BufferInit /\ [][BufferNext]_bufferVars

-----------------------------------------------------------------------------
\* Type correctness.
BufferTypeOK ==
    /\ phase \in {"up", "clearing", "closing", "down"}
    /\ m_bWriteThrough \in BOOLEAN
    /\ DOMAIN m_buffer \subseteq Page /\ Cardinality(DOMAIN m_buffer) <= m_capacity
    /\ \A id \in DOMAIN m_buffer :
          m_buffer[id].array \in Seq(Block \cup {NULL}) /\ m_buffer[id].m_bDirty \in BOOLEAN
    /\ disk.m_nextPage \in 0 .. MaxPage
    /\ disk.data \in [Page -> Block \cup {NULL}]
    /\ touched \subseteq Page

\* Through all reuse of pages, and after every failure and restart, no page belongs to
\* two arrays, nor to an array and to the empty ones; nor in what the index file has for
\* the next start.
PagesApart ==
    /\ phase # "down" => Apart(disk)
    /\ indexFile.valid => Apart(Opened(indexFile, disk.data))

\* Pages of a file in use get lost only by a write that failed.
LostByFailureOnly ==
    [][phase # "down" /\ phase' # "down" /\ ~disk.fail' => Lost(disk') \subseteq Lost(disk)]_bufferVars

Arrays == IF phase # "down" THEN View(disk, m_buffer)
          ELSE IF indexFile.valid THEN Contents(Opened(indexFile, disk.data))
          ELSE <<>>

\* Arrays that only the buffer has.
BufferOnly == DOMAIN m_buffer \ DOMAIN disk.m_pageIndex

Running == IF phase = "down" THEN "down" ELSE IF disk.fail THEN "broken" ELSE "up"

Store0 == INSTANCE PageStore WITH
    Id <- Page, state <- Running, stored <- Arrays, failed <- BufferOnly

Seen == View(disk, m_buffer)

\* A store leaves the array it was given under its id, and a new one gets an id that
\* none has.
StoresWhatItIsGiven ==
    [][\A a \in Array :
          /\ StoreNew(a) => \/ disk'.fail
                            \/ \E id \in DOMAIN Seen' \ DOMAIN Seen : Seen'[id] = a
          /\ \A id \in Page : Store(id, a) => disk'.fail \/ Seen'[id] = a]_bufferVars

\* Buffer and manager together implement the abstract store: through every eviction and
\* reuse of pages each id has the array stored under it last, and a failure harms no
\* array but those touched since the program last ended.
ImplementsStore == Store0!Spec /\ StoresWhatItIsGiven
=============================================================================
