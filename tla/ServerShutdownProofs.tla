------------------------ MODULE ServerShutdownProofs ------------------------
(***************************************************************************)
(* The limit on served connections, the bookkeeping it rests on and the    *)
(* registration of every child hold for every set of process ids, limit    *)
(* and chunk size, and for every interleaving of the SIGCHLD handler with  *)
(* the main loop.  And whatever a shutdown interrupts and whatever         *)
(* interrupts it, every child that is registered is told, for every grace  *)
(* period too.                                                             *)
(*                                                                         *)
(* The second half rests on the first: until the shutdown starts, the      *)
(* invariant of ClientTable holds and every child has a slot of the table  *)
(* its loop will walk.  From then on no child is added, and one that has   *)
(* not been told yet still has a slot that the loop has not reached.       *)
(***************************************************************************)
EXTENDS ServerShutdown, FiniteSetTheorems, SequenceTheorems, TLAPS

-----------------------------------------------------------------------------
\* Admission and registration (ClientTable).

RegisteringPC == {"scan", "copy", "free", "swap", "place", "load", "store"}

\* The locals of addClient and appendClient: a client is at hand, the scan
\* stopped behind the last slot, the copy agrees with the table but for the
\* slots the handler emptied, and the slot chosen for the client is empty.
LocalsOK ==
    /\ mpc \in RegisteringPC => pT \in Pid
    /\ mpc \in {"copy", "free", "swap"} => i = Len(g_clients) + 1
    /\ mpc \in {"free", "swap"} =>
          /\ Len(ppNew) = Len(g_clients) + Chunk
          /\ ppNew[i] = NULL
          /\ \A k \in 1 .. Len(g_clients) : g_clients[k] # NULL => ppNew[k] = g_clients[k]
    /\ mpc = "place" => i <= Len(g_clients) /\ g_clients[i] = NULL

\* While a client is being registered the count, or the value about to be
\* stored in it, may lag behind the children by that one client; a decrement
\* in the meantime goes with a child that was collected.
CountOK ==
    /\ NeverUndercounts
    /\ mpc \in RegisteringPC \ {"store"} => curClientCounts + 1 >= Cardinality(Unreaped)
    /\ mpc = "store" => tmp + 1 >= Cardinality(Unreaped)

\* Children that serve, or that will when they look at their count.
Admitted == {p \in Pid : \/ child[p] = "serving"
                         \/ child[p] = "forked" /\ snap[p] < MaxClients}

AdmitOK == Admitted # {} => Cardinality(Admitted) <= MaxClients

IInv == TypeOK /\ LocalsOK /\ CountOK /\ AdmitOK /\ LiveRegistered

LEMMA PCSets ==
    /\ MainPC = {"select", "scan", "copy", "free", "swap", "place", "load", "store", "crashed"}
    /\ RegisteringPC = {"scan", "copy", "free", "swap", "place", "load", "store"}
BY DEF MainPC, RegisteringPC

\* Sets of pids are finite and their sizes are natural numbers.
LEMMA PidSets ==
    ASSUME NEW S \in SUBSET Pid
    PROVE  IsFiniteSet(S) /\ Cardinality(S) \in Nat
BY PidAssumption, FS_Subset, FS_CardinalityType

LEMMA PidSubset ==
    ASSUME NEW S \in SUBSET Pid, NEW T \in SUBSET S
    PROVE  Cardinality(T) <= Cardinality(S)
BY PidSets, FS_Subset

LEMMA EmptySlotsType ==
    /\ EmptySlots \in Seq(Entry) /\ Len(EmptySlots) = Chunk
    /\ \A k \in 1 .. Chunk : EmptySlots[k] = NULL
<1>1. EmptySlots \in [1 .. Chunk -> Entry] /\ Chunk \in Nat
    BY LimitAssumption DEF EmptySlots, Entry
<1> QED
    BY <1>1 DEF EmptySlots

LEMMA InitIInv == Init => IInv
<1> SUFFICES ASSUME Init PROVE IInv
    OBVIOUS
<1> USE DEF Init
<1>1. TypeOK
  <2>1. Len(g_clients) \in Nat /\ g_clients \in Seq(Entry) /\ ppNew \in Seq(Entry)
    BY EmptySlotsType
  <2>2. i \in 1 .. Len(g_clients) + 1
    BY <2>1
  <2>3. child \in [Pid -> {"none", "forked", "serving", "zombie"}] /\ snap \in [Pid -> Int]
    OBVIOUS
  <2>4. mpc \in MainPC /\ pT \in Pid \cup {NULL} /\ tmp \in Int /\ curClientCounts \in Int
    BY PCSets
  <2>5. sigchld \in BOOLEAN /\ handling \in BOOLEAN
    OBVIOUS
  <2> QED
    BY ONLY <2>1, <2>2, <2>3, <2>4, <2>5 DEF TypeOK
<1>2. LocalsOK
    BY DEF LocalsOK, RegisteringPC
<1>3. Unreaped = {} /\ Admitted = {}
    BY DEF Unreaped, Admitted
<1>4. CountOK /\ AdmitOK /\ LiveRegistered
    BY <1>3, FS_EmptySet DEF CountOK, NeverUndercounts, RegisteringPC, AdmitOK, LiveRegistered
<1> QED
    BY <1>1, <1>2, <1>4 DEF IInv

-----------------------------------------------------------------------------
(* The count and the admissions *)

\* A new child is admitted only if the count, which covers all children, is
\* below the limit.
LEMMA ForkCount ==
    ASSUME TypeOK, CountOK, AdmitOK, NEW p \in Pid, Fork(p)
    PROVE  CountOK' /\ AdmitOK'
<1> USE DEF Fork
<1>1. /\ child \in [Pid -> {"none", "forked", "serving", "zombie"}]
      /\ snap \in [Pid -> Int] /\ curClientCounts \in Int
    BY DEF TypeOK
<1>2. /\ Unreaped \in SUBSET Pid /\ p \notin Unreaped
      /\ Unreaped' = Unreaped \cup {p}
    BY <1>1 DEF Unreaped
<1>3. Cardinality(Unreaped') = Cardinality(Unreaped) + 1 /\ Cardinality(Unreaped) \in Nat
    BY <1>2, PidSets, FS_AddElement
<1>4. curClientCounts >= Cardinality(Unreaped)
    BY DEF CountOK, NeverUndercounts
<1>5. CountOK'
    BY <1>1, <1>3, <1>4 DEF CountOK, NeverUndercounts, tableVars
<1>6. CASE curClientCounts < MaxClients
  <2>1. /\ Admitted' = Admitted \cup {p} /\ Admitted \in SUBSET Unreaped
        /\ Admitted \in SUBSET Pid /\ p \notin Admitted
    BY <1>1, <1>2, <1>6 DEF Admitted, Unreaped
  <2>2. /\ Cardinality(Admitted') = Cardinality(Admitted) + 1
        /\ Cardinality(Admitted) <= Cardinality(Unreaped)
        /\ Cardinality(Admitted) \in Nat
    BY <2>1, <1>2, PidSets, PidSubset, FS_AddElement
  <2>3. Cardinality(Admitted') <= MaxClients
    BY ONLY <2>2, <1>1, <1>3, <1>4, <1>6, LimitAssumption
  <2> QED
    BY ONLY <2>3, <1>5 DEF AdmitOK
<1>7. CASE ~(curClientCounts < MaxClients)
  <2>1. Admitted' = Admitted
    BY <1>1, <1>7 DEF Admitted
  <2>2. AdmitOK
    OBVIOUS
  <2> QED
    BY ONLY <2>1, <2>2, <1>5 DEF AdmitOK
<1> QED
    BY <1>5, <1>6, <1>7

\* The steps of addClient other than the increment leave count and children.
LEMMA RegisterCount ==
    ASSUME TypeOK, CountOK, AdmitOK, MainStep
    PROVE  CountOK' /\ AdmitOK'
<1> USE DEF MainStep, ScanTaken, ScanEmpty, ScanFull, Copy, FreeOld, Swap, Place,
            Load, Store, tableVars
<1>1. Unreaped' = Unreaped /\ Admitted' = Admitted
    BY DEF Unreaped, Admitted
<1>2. Cardinality(Unreaped) \in Nat /\ curClientCounts \in Int /\ tmp \in Int
    BY PidSets DEF Unreaped, TypeOK
<1>3. CountOK'
    BY <1>1, <1>2, PCSets DEF CountOK, NeverUndercounts
<1> QED
    BY <1>1, <1>3 DEF AdmitOK

\* A child that starts to serve was admitted already; one that ends leaves.
LEMMA ChildCount ==
    ASSUME TypeOK, CountOK, AdmitOK, NEW p \in Pid, Start(p) \/ ChildExit(p)
    PROVE  CountOK' /\ AdmitOK'
<1> USE DEF Start, ChildExit, tableVars, mainVars
<1>1. child \in [Pid -> {"none", "forked", "serving", "zombie"}]
    BY DEF TypeOK
<1>2. Unreaped' = Unreaped /\ Admitted' \in SUBSET Admitted /\ Admitted \in SUBSET Pid
    BY <1>1 DEF Unreaped, Admitted
<1>3. CountOK'
    BY <1>2 DEF CountOK, NeverUndercounts
<1>4. AdmitOK'
    BY <1>2, PidSubset, PidSets, LimitAssumption DEF AdmitOK
<1> QED
    BY <1>3, <1>4

\* Collecting a child takes one from the children and at most one from the
\* count.
LEMMA ReapCount ==
    ASSUME TypeOK, CountOK, AdmitOK, NEW p \in Pid, Reap(p)
    PROVE  CountOK' /\ AdmitOK'
<1> USE DEF Reap
<1>1. /\ child \in [Pid -> {"none", "forked", "serving", "zombie"}]
      /\ curClientCounts \in Int /\ tmp \in Int
    BY DEF TypeOK
<1>2. /\ Unreaped \in SUBSET Pid /\ p \in Unreaped
      /\ Unreaped' = Unreaped \ {p} /\ Admitted' = Admitted
    BY <1>1 DEF Unreaped, Admitted
<1>3. /\ Cardinality(Unreaped') = Cardinality(Unreaped) - 1
      /\ Cardinality(Unreaped) \in Nat
    BY <1>2, PidSets, FS_RemoveElement
<1>4. /\ curClientCounts' \in {curClientCounts, curClientCounts - 1}
      /\ mpc' \in {mpc, "crashed"} /\ tmp' = tmp
    BY DEF CloseFound, CloseNotFound, CloseCrash, CloseSlot, tableVars
<1>5. CountOK'
  <2>1. NeverUndercounts'
    BY <1>1, <1>3, <1>4 DEF CountOK, NeverUndercounts
  <2>2. (mpc \in RegisteringPC \ {"store"} => curClientCounts + 1 >= Cardinality(Unreaped))'
    BY <1>1, <1>3, <1>4, PCSets DEF CountOK
  <2>3. (mpc = "store" => tmp + 1 >= Cardinality(Unreaped))'
    BY <1>1, <1>3, <1>4 DEF CountOK
  <2> QED
    BY <2>1, <2>2, <2>3 DEF CountOK
<1> QED
    BY <1>2, <1>5 DEF AdmitOK

LEMMA OtherCount ==
    ASSUME TypeOK, CountOK, AdmitOK, Deliver \/ HandlerReturn \/ UNCHANGED vars
    PROVE  CountOK' /\ AdmitOK'
BY DEF Deliver, HandlerReturn, vars, tableVars, mainVars, CountOK, AdmitOK,
       NeverUndercounts, Unreaped, Admitted

LEMMA NextCount ==
    ASSUME TypeOK, CountOK, AdmitOK, [Next]_vars
    PROVE  CountOK' /\ AdmitOK'
BY ForkCount, RegisterCount, ChildCount, ReapCount, OtherCount DEF Next, HandlerStep

-----------------------------------------------------------------------------
(* The table and the registrations *)

RegInv == TypeOK /\ LocalsOK /\ LiveRegistered

\* A sequence of slots with one slot replaced.
LEMMA SlotReplaced ==
    ASSUME NEW s \in Seq(Entry), NEW k \in 1 .. Len(s), NEW e \in Entry
    PROVE  /\ [s EXCEPT ![k] = e] \in Seq(Entry)
           /\ Len([s EXCEPT ![k] = e]) = Len(s)
           /\ \A j \in 1 .. Len(s) : [s EXCEPT ![k] = e][j] = IF j = k THEN e ELSE s[j]
BY ExceptSeq

\* A child is forked: every other child keeps its slot.
LEMMA ForkReg == ASSUME RegInv, NEW p \in Pid, Fork(p) PROVE RegInv'
<1> USE DEF Fork, tableVars
<1>1. TypeOK'
  <2>1. Len(g_clients) \in Nat
    BY DEF RegInv, TypeOK
  <2> QED
    BY <2>1, PCSets DEF RegInv, TypeOK
<1>2. LocalsOK'
    BY PCSets DEF LocalsOK
<1>3. LiveRegistered'
  <2>1. Unreaped' \ Unregistered' \subseteq Unreaped \ Unregistered
    BY DEF RegInv, TypeOK, Unreaped, Unregistered
  <2>2. Table' = Table
    BY DEF Table
  <2> QED
    BY <2>1, <2>2 DEF RegInv, LiveRegistered
<1> QED
    BY <1>1, <1>2, <1>3 DEF RegInv

\* The steps that change neither the table nor the children.
LEMMA QuietReg ==
    ASSUME RegInv,
           \/ ScanTaken \/ ScanFull \/ Load \/ Store
           \/ \E p \in Pid : Start(p) \/ ChildExit(p)
           \/ Deliver \/ HandlerReturn \/ UNCHANGED vars
    PROVE  RegInv'
<1> USE DEF ScanTaken, ScanFull, Load, Store, Start, ChildExit, Deliver, HandlerReturn,
            tableVars, mainVars, vars
<1>0. Len(g_clients) \in Nat /\ i \in 1 .. Len(g_clients) + 1
    BY DEF RegInv, TypeOK
<1>1. TypeOK'
  <2>1. (sigchld \in BOOLEAN /\ handling \in BOOLEAN)'
    BY DEF RegInv, TypeOK
  <2>2. child' \in [Pid -> {"none", "forked", "serving", "zombie"}]
    BY DEF RegInv, TypeOK
  <2>3. /\ i' \in 1 .. Len(g_clients') + 1 /\ mpc' \in MainPC /\ pT' \in Pid \cup {NULL}
        /\ tmp' \in Int /\ curClientCounts' \in Int
    BY <1>0, PCSets DEF RegInv, TypeOK
  <2>4. UNCHANGED <<snap, g_clients, ppNew>>
    OBVIOUS
  <2> QED
    BY <2>1, <2>2, <2>3, <2>4 DEF RegInv, TypeOK
<1>2. LocalsOK'
    BY <1>0, PCSets DEF RegInv, LocalsOK
<1>3. LiveRegistered'
  <2>1. Unreaped' \ Unregistered' \subseteq Unreaped \ Unregistered
    BY DEF RegInv, TypeOK, Unreaped, Unregistered
  <2>2. Table' = Table /\ (mpc' # "crashed" => mpc # "crashed")
    BY DEF Table
  <2> QED
    BY <2>1, <2>2 DEF RegInv, LiveRegistered
<1> QED
    BY <1>1, <1>2, <1>3 DEF RegInv

\* The client gets an empty slot, of the old table or of the larger one.
LEMMA PlaceReg == ASSUME RegInv, ScanEmpty \/ Place PROVE RegInv'
<1> USE DEF ScanEmpty, Place
<1>0. /\ g_clients \in Seq(Entry) /\ i \in 1 .. Len(g_clients) /\ Len(g_clients) \in Nat
      /\ g_clients[i] = NULL /\ pT \in Pid /\ pT \in Entry
      /\ g_clients' = [g_clients EXCEPT ![i] = pT]
    BY PCSets DEF RegInv, TypeOK, LocalsOK, Entry
<1>a. /\ g_clients' \in Seq(Entry) /\ Len(g_clients') = Len(g_clients)
      /\ \A j \in 1 .. Len(g_clients) :
            g_clients'[j] = IF j = i THEN pT ELSE g_clients[j]
    BY <1>0, SlotReplaced
<1>1. TypeOK'
    BY <1>a, PCSets DEF RegInv, TypeOK
<1>2. LocalsOK'
    BY <1>0, PCSets DEF LocalsOK
<1>3. LiveRegistered'
  <2>1. Unreaped' = Unreaped /\ Unregistered = {pT} /\ Table = g_clients /\ Table' = g_clients'
    BY DEF Unreaped, Unregistered, Table
  <2> SUFFICES ASSUME NEW q \in Unreaped
               PROVE  \E k \in 1 .. Len(g_clients') : g_clients'[k] = q
    BY <2>1 DEF LiveRegistered
  <2>2. CASE q = pT
    BY <2>2, <1>0, <1>a
  <2>3. CASE q # pT
    <3>1. PICK k \in 1 .. Len(g_clients) : g_clients[k] = q
        BY <2>1, <2>3 DEF RegInv, LiveRegistered
    <3>2. q # NULL
        BY PidAssumption DEF Unreaped
    <3> QED
        BY <3>1, <3>2, <1>0, <1>a
  <2> QED
    BY <2>2, <2>3
<1> QED
    BY <1>1, <1>2, <1>3 DEF RegInv

\* appendClient: the copy has every client of the old table.
LEMMA CopyReg == ASSUME RegInv, Copy PROVE RegInv'
<1> USE DEF Copy
<1>0. /\ g_clients \in Seq(Entry) /\ Len(g_clients) \in Nat /\ i = Len(g_clients) + 1
      /\ Chunk \in Nat \ {0} /\ pT \in Pid
    BY LimitAssumption, PCSets DEF RegInv, TypeOK, LocalsOK
<1>a. /\ ppNew' \in Seq(Entry) /\ Len(ppNew') = Len(g_clients) + Chunk
      /\ \A j \in 1 .. Len(g_clients) + Chunk :
            ppNew'[j] = IF j <= Len(g_clients) THEN g_clients[j]
                        ELSE EmptySlots[j - Len(g_clients)]
    BY <1>0, EmptySlotsType, ConcatProperties
<1>b. ppNew'[i] = NULL
  <2>1. i \in 1 .. Len(g_clients) + Chunk /\ i - Len(g_clients) = 1 /\ 1 \in 1 .. Chunk
        /\ ~(i <= Len(g_clients))
    BY <1>0
  <2> QED
    BY <2>1, <1>a, EmptySlotsType
<1>c. \A j \in 1 .. Len(g_clients) :
         j \in 1 .. Len(g_clients) + Chunk /\ ppNew'[j] = g_clients[j]
    BY <1>0, <1>a
<1>1. TypeOK'
    BY <1>a, PCSets DEF RegInv, TypeOK
<1>2. LocalsOK'
    BY <1>0, <1>a, <1>b, <1>c, PCSets DEF LocalsOK
<1>3. LiveRegistered'
  <2>1. /\ Unreaped' = Unreaped /\ Unregistered' = Unregistered
        /\ Table = g_clients /\ Table' = ppNew'
    BY DEF Unreaped, Unregistered, Table
  <2> QED
    BY <2>1, <1>a, <1>c DEF RegInv, LiveRegistered
<1> QED
    BY <1>1, <1>2, <1>3 DEF RegInv

\* The old table is freed, and the copy becomes the table.
LEMMA SwapReg == ASSUME RegInv, FreeOld \/ Swap PROVE RegInv'
<1> USE DEF FreeOld, Swap, tableVars
<1>0. /\ g_clients \in Seq(Entry) /\ Len(g_clients) \in Nat /\ i = Len(g_clients) + 1
      /\ Chunk \in Nat \ {0} /\ pT \in Pid /\ ppNew \in Seq(Entry)
      /\ Len(ppNew) = Len(g_clients) + Chunk /\ ppNew[i] = NULL
    BY LimitAssumption, PCSets DEF RegInv, TypeOK, LocalsOK
<1>1. TypeOK'
  <2>1. (sigchld \in BOOLEAN /\ handling \in BOOLEAN)'
    BY DEF RegInv, TypeOK
  <2>2. /\ i' \in 1 .. Len(g_clients') + 1 /\ mpc' \in MainPC
        /\ g_clients' \in Seq(Entry) /\ ppNew' \in Seq(Entry)
    <3>1. <<>> \in Seq(Entry)
        OBVIOUS
    <3>2. i \in 1 .. Len(g_clients) + 1 /\ i \in 1 .. Len(ppNew) + 1
        BY <1>0
    <3>3. CASE FreeOld
        BY <3>3, <3>2, <1>0, PCSets
    <3>4. CASE Swap
        BY <3>4, <3>1, <3>2, <1>0, PCSets
    <3> QED
        BY <3>3, <3>4
  <2>3. UNCHANGED <<child, snap, curClientCounts, pT, tmp>>
    OBVIOUS
  <2> QED
    BY <2>1, <2>2, <2>3 DEF RegInv, TypeOK
<1>2. LocalsOK'
    BY <1>0, PCSets DEF RegInv, LocalsOK
<1>3. LiveRegistered'
  <2>1. Unreaped' = Unreaped /\ Unregistered' = Unregistered /\ Table' = Table
    BY DEF Unreaped, Unregistered, Table
  <2> QED
    BY <2>1 DEF RegInv, LiveRegistered
<1> QED
    BY <1>1, <1>2, <1>3 DEF RegInv

\* The handler empties a slot of the collected child or a dangling one: the
\* other children keep theirs, in the table and in its copy.
LEMMA CloseSlotReg ==
    ASSUME RegInv, NEW p \in Pid, Reap(p), CloseFound(p)
    PROVE  RegInv'
<1> PICK k \in 1 .. Len(g_clients) : g_clients[k] \in {p, Dangling} /\ CloseSlot(k)
    BY DEF CloseFound
<1> USE DEF Reap, CloseSlot
<1>0. /\ g_clients \in Seq(Entry) /\ ppNew \in Seq(Entry) /\ Len(g_clients) \in Nat
      /\ NULL \in Entry /\ Dangling \in Entry /\ g_clients[k] # NULL
      /\ Chunk \in Nat \ {0}
    BY LimitAssumption, PidAssumption DEF RegInv, TypeOK, Entry
<1>a. /\ g_clients' \in Seq(Entry) /\ Len(g_clients') = Len(g_clients)
      /\ \A j \in 1 .. Len(g_clients) :
            g_clients'[j] = IF j = k THEN NULL ELSE g_clients[j]
    BY <1>0, SlotReplaced
<1>b. ASSUME mpc \in {"free", "swap"}
      PROVE  /\ ppNew' \in Seq(Entry) /\ Len(ppNew') = Len(ppNew)
             /\ k \in 1 .. Len(ppNew) /\ ppNew[k] = g_clients[k] /\ i # k
             /\ \A j \in 1 .. Len(ppNew) :
                   ppNew'[j] = IF j = k THEN Dangling ELSE ppNew[j]
  <2>1. /\ k \in 1 .. Len(ppNew) /\ ppNew[k] = g_clients[k] /\ i # k
        /\ ppNew' = [ppNew EXCEPT ![k] = Dangling]
    BY <1>b, <1>0 DEF RegInv, LocalsOK
  <2> QED
    BY <2>1, <1>0, SlotReplaced
<1>c. mpc \notin {"free", "swap"} => ppNew' = ppNew
    OBVIOUS
<1>1. TypeOK'
  <2>1. ppNew' \in Seq(Entry)
    BY <1>b, <1>c, <1>0
  <2> QED
    BY <2>1, <1>a DEF RegInv, TypeOK
<1>2. LocalsOK'
  <2>1. CASE mpc \in {"free", "swap"}
    <3>1. i \in 1 .. Len(ppNew) /\ Len(ppNew) = Len(g_clients) + Chunk /\ i = Len(g_clients) + 1
        BY <2>1, <1>0 DEF RegInv, LocalsOK
    <3>2. ppNew'[i] = NULL
        BY <2>1, <3>1, <1>b DEF RegInv, LocalsOK
    <3>3. ASSUME NEW j \in 1 .. Len(g_clients), g_clients'[j] # NULL
          PROVE  ppNew'[j] = g_clients'[j]
      <4>1. j # k /\ g_clients'[j] = g_clients[j] /\ j \in 1 .. Len(ppNew)
          BY <3>3, <3>1, <1>0, <1>a
      <4> QED
          BY <4>1, <3>3, <2>1, <1>b DEF RegInv, LocalsOK
    <3> QED
        BY <2>1, <3>1, <3>2, <3>3, <1>a, <1>b, PCSets DEF RegInv, LocalsOK
  <2>2. CASE mpc \notin {"free", "swap"}
    BY <2>2, <1>a, <1>0 DEF RegInv, LocalsOK
  <2> QED
    BY <2>1, <2>2
<1>3. LiveRegistered'
  <2>1. /\ Unreaped' = Unreaped \ {p} /\ Unregistered' = Unregistered
    BY DEF RegInv, TypeOK, Unreaped, Unregistered
  <2> SUFFICES ASSUME NEW q \in Unreaped \ Unregistered, q # p, mpc # "crashed"
               PROVE  \E j \in 1 .. Len(Table') : Table'[j] = q
    BY <2>1 DEF LiveRegistered
  <2>2. PICK j \in 1 .. Len(Table) : Table[j] = q
    BY DEF RegInv, LiveRegistered
  <2>3. q # NULL /\ q # Dangling
    BY PidAssumption DEF Unreaped
  <2>4. CASE mpc \in {"free", "swap"}
    BY <2>2, <2>3, <2>4, <1>b DEF Table
  <2>5. CASE mpc \notin {"free", "swap"}
    BY <2>2, <2>3, <2>5, <1>a DEF Table
  <2> QED
    BY <2>4, <2>5
<1> QED
    BY <1>1, <1>2, <1>3 DEF RegInv

LEMMA ReapReg == ASSUME RegInv, NEW p \in Pid, Reap(p) PROVE RegInv'
<1>1. CASE CloseFound(p)
    BY <1>1, CloseSlotReg
<1>2. CASE CloseNotFound(p) \/ CloseCrash
  <2> USE DEF Reap, CloseNotFound, CloseCrash, tableVars
  <2>1. TypeOK'
    BY <1>2, PCSets DEF RegInv, TypeOK
  <2>2. LocalsOK'
    BY <1>2, PCSets DEF RegInv, LocalsOK
  <2>3. LiveRegistered'
    <3>1. CASE mpc' = "crashed"
        BY <3>1 DEF LiveRegistered
    <3>2. CASE mpc' # "crashed"
      <4>1. /\ Unreaped' \subseteq Unreaped /\ Unregistered' = Unregistered /\ Table' = Table
          BY <1>2, <3>2 DEF RegInv, TypeOK, Unreaped, Unregistered, Table
      <4> QED
          BY <4>1, <1>2, <3>2 DEF RegInv, LiveRegistered
    <3> QED
        BY <3>1, <3>2
  <2> QED
    BY <2>1, <2>2, <2>3 DEF RegInv
<1> QED
    BY <1>1, <1>2 DEF Reap

LEMMA NextReg == ASSUME RegInv, [Next]_vars PROVE RegInv'
BY ForkReg, QuietReg, PlaceReg, CopyReg, SwapReg, ReapReg DEF Next, MainStep, HandlerStep

-----------------------------------------------------------------------------
\* In every execution the inductive invariant holds.
THEOREM Inductive == SafetySpec => []IInv
<1>1. IInv /\ [Next]_vars => IInv'
    BY NextCount, NextReg DEF IInv, RegInv
<1> QED
    BY InitIInv, <1>1, PTL DEF SafetySpec

\* Every variable keeps its type and the scan of addClient its range.
THEOREM TypeCorrect == SafetySpec => []TypeOK
<1>1. IInv => TypeOK
    BY DEF IInv
<1> QED
    BY <1>1, Inductive, PTL

\* The limit of do_accept (-m, max-clients) is respected whatever the old
\* copies of the count and the races of the signal handler.
THEOREM LimitRespected == SafetySpec => []ServingLimit
<1>1. IInv => ServingLimit
  <2> SUFFICES ASSUME IInv, Serving # {} PROVE Cardinality(Serving) <= MaxClients
    BY DEF ServingLimit
  <2>1. Serving \in SUBSET Admitted /\ Admitted \in SUBSET Pid /\ Admitted # {}
    BY DEF Serving, Admitted
  <2>2. Cardinality(Serving) <= Cardinality(Admitted)
    BY <2>1, PidSubset
  <2>3. Cardinality(Serving) \in Nat /\ Cardinality(Admitted) \in Nat
    BY <2>1, PidSets
  <2> QED
    BY <2>1, <2>2, <2>3, LimitAssumption DEF IInv, AdmitOK
<1> QED
    BY <1>1, Inductive, PTL

\* The count of do_accept never falls behind the children when it is copied
\* by fork.
THEOREM CountCovers == SafetySpec => []NeverUndercounts
<1>1. IInv => NeverUndercounts
    BY DEF IInv, CountOK
<1> QED
    BY <1>1, Inductive, PTL

\* No child is forgotten by the table while it lives, through every append
\* and every interruption.
THEOREM ChildrenRegistered == SafetySpec => []LiveRegistered
<1>1. IInv => LiveRegistered
    BY DEF IInv
<1> QED
    BY <1>1, Inductive, PTL

-----------------------------------------------------------------------------
\* Shutdown (ServerShutdown).

\* The old table keeps every child while appendClient holds a copy of it.
OldReg ==
    mpc = "free" =>
        \A p \in Unreaped \ Unregistered :
            \E k \in 1 .. Len(g_clients) : g_clients[k] = p

IdleInv == RegInv /\ OldReg /\ slot = 1 /\ array = "valid"

Live(p) == child[p] \in {"forked", "serving"}

\* A child in a slot that the loop of sendSignalToAllClients has still to reach.
Ahead(p) ==
    /\ spc = "send" /\ array = "valid"
    /\ \E k \in slot .. Len(g_clients) : g_clients[k] = p

ToldInv ==
    (spc \notin {"idle", "killed"} /\ mpc \notin {"swap", "crashed"}) =>
        \A p \in Pid \ Unregistered : Live(p) => p \in told \cup hungUp \/ Ahead(p)

Types ==
    /\ ShutdownTypeOK
    /\ child \in [Pid -> {"none", "forked", "serving", "zombie"}]
    /\ g_clients \in Seq(Entry)
    /\ spc = "clear" => slot <= Len(g_clients)

SInv == Types /\ (spc = "idle" => IdleInv) /\ ToldInv

USE TimerAssumption

LEMMA InitSInv == ShutdownInit => SInv
<1> SUFFICES ASSUME ShutdownInit PROVE SInv
    OBVIOUS
<1>1. RegInv
    BY InitIInv DEF ShutdownInit, IInv, RegInv
<1>2. mpc = "select" /\ Len(g_clients) \in Nat
    BY <1>1 DEF ShutdownInit, Init, RegInv, TypeOK
<1>3. Types
  <2>1. child \in [Pid -> {"none", "forked", "serving", "zombie"}] /\ g_clients \in Seq(Entry)
    BY <1>1 DEF RegInv, TypeOK
  <2>2. 1 \in 1 .. Len(g_clients) + 1 /\ Timer \in 0 .. Timer
    BY <1>2
  <2> QED
    BY <2>1, <2>2 DEF Types, ShutdownTypeOK, ShutdownInit
<1> QED
    BY <1>1, <1>2, <1>3 DEF SInv, IdleInv, OldReg, ToldInv, ShutdownInit

-----------------------------------------------------------------------------
(* Before the shutdown *)

\* A step of the main loop, of the children or of the SIGCHLD handler.
LEMMA IdleStep ==
    ASSUME SInv, spc = "idle", [Next]_vars, UNCHANGED <<slot, array>>
    PROVE  IdleInv'
<1>1. RegInv /\ RegInv'
    BY NextReg DEF SInv, IdleInv
<1>2. OldReg'
  <2> SUFFICES ASSUME mpc' = "free", NEW p \in Unreaped' \ Unregistered'
               PROVE  \E k \in 1 .. Len(g_clients') : g_clients'[k] = p
    BY DEF OldReg
  <2>1. CASE Copy
    BY <2>1, <1>1 DEF Copy, RegInv, LiveRegistered, Unreaped, Unregistered, Table
  <2>2. CASE \E q \in Pid : Reap(q)
    <3>1. PICK q \in Pid : Reap(q)
        BY <2>2
    <3>2. mpc = "free"
        BY <3>1 DEF Reap, CloseFound, CloseSlot, CloseNotFound, CloseCrash
    <3>3. p \in Unreaped \ Unregistered /\ p # q /\ p # NULL /\ p # Dangling
        BY <3>1, <3>2, <1>1, PidAssumption DEF Reap, RegInv, TypeOK, Unreaped, Unregistered
    <3>4. PICK k \in 1 .. Len(g_clients) : g_clients[k] = p
        BY <3>2, <3>3 DEF SInv, IdleInv, OldReg
    <3>5. CASE CloseFound(q)
      <4>1. PICK j \in 1 .. Len(g_clients) :
                g_clients[j] \in {q, Dangling} /\ g_clients' = [g_clients EXCEPT ![j] = NULL]
          BY <3>5 DEF CloseFound, CloseSlot
      <4>2. j # k /\ g_clients \in Seq(Entry) /\ NULL \in Entry
          BY <4>1, <3>3, <3>4, <1>1 DEF RegInv, TypeOK, Entry
      <4> QED
          BY <4>1, <4>2, <3>4, SlotReplaced
    <3>6. CASE CloseNotFound(q) \/ CloseCrash
        BY <3>4, <3>6 DEF CloseNotFound, CloseCrash, tableVars
    <3> QED
        BY <3>1, <3>5, <3>6 DEF Reap
  <2>3. CASE /\ ~Copy /\ ~(\E q \in Pid : Reap(q))
    <3>1. mpc = "free" /\ g_clients' = g_clients
        BY <2>3 DEF Next, MainStep, HandlerStep, Fork, Start, ChildExit, ScanTaken, ScanEmpty,
            ScanFull, FreeOld, Swap, Place, Load, Store, Deliver, HandlerReturn, vars, tableVars,
            mainVars
    <3>2. Unreaped' \ Unregistered' \subseteq Unreaped \ Unregistered
        BY <2>3, <3>1, <1>1 DEF Next, MainStep, HandlerStep, Fork, Start, ChildExit, ScanTaken,
            ScanEmpty, ScanFull, FreeOld, Swap, Place, Load, Store, Deliver, HandlerReturn, vars,
            tableVars, mainVars, RegInv, TypeOK, Unreaped, Unregistered
    <3> QED
        BY <3>1, <3>2 DEF SInv, IdleInv, OldReg
  <2> QED
    BY <2>1, <2>2, <2>3
<1> QED
    BY <1>1, <1>2 DEF SInv, IdleInv

\* At its start every live child but the one being registered lies ahead.
LEMMA AllAhead ==
    ASSUME IdleInv, mpc \notin {"swap", "crashed"}, NEW p \in Pid \ Unregistered, Live(p)
    PROVE  \E k \in 1 .. Len(g_clients) : g_clients[k] = p
<1>1. p \in Unreaped \ Unregistered
    BY DEF Live, Unreaped
<1> QED
    BY <1>1 DEF IdleInv, RegInv, OldReg, LiveRegistered, Table

\* Types, of the parts that a step changes.
LEMMA IdleTypes ==
    ASSUME Types, IdleInv', spc' = spc, spc = "idle", UNCHANGED <<timer, array, inTerm, masked, destroyed>>,
           told' \in SUBSET Pid, hungUp' \in SUBSET Pid
    PROVE  Types'
<1>1. Len(g_clients') \in Nat /\ g_clients' \in Seq(Entry) /\ slot' = 1
    BY DEF IdleInv, RegInv, TypeOK
<1> QED
    BY <1>1 DEF Types, ShutdownTypeOK, IdleInv, RegInv, TypeOK

-----------------------------------------------------------------------------
(* Children *)

LEMMA ChildInv ==
    ASSUME SInv, NEW p \in Pid, ChildStart(p) \/ HangUp(p) \/ ChildEnd(p)
    PROVE  SInv'
<1> USE DEF ChildStart, HangUp, ChildEnd, shutdownVars, childVars
<1>0. [Next]_vars /\ spc' = spc /\ UNCHANGED <<slot, array, timer, inTerm, masked, destroyed>>
    BY DEF Next
<1>1. /\ UNCHANGED <<g_clients, mpc, pT>> /\ Unregistered' = Unregistered
      /\ told' \in SUBSET Pid /\ hungUp' \in SUBSET Pid
      /\ child' \in [Pid -> {"none", "forked", "serving", "zombie"}]
    BY DEF Start, ChildExit, vars, tableVars, mainVars, Unregistered, SInv, Types, ShutdownTypeOK
<1>2. Types'
    BY <1>0, <1>1 DEF SInv, Types, ShutdownTypeOK
<1>3. (spc = "idle" => IdleInv)'
    BY <1>0, IdleStep
<1>4. ToldInv'
  <2> SUFFICES ASSUME spc \notin {"idle", "killed"}, mpc \notin {"swap", "crashed"},
                      NEW q \in Pid \ Unregistered, Live(q)'
               PROVE  q \in told' \cup hungUp' \/ Ahead(q)'
    BY <1>0, <1>1 DEF ToldInv
  <2>1. Live(q) /\ (ChildEnd(p) => q # p)
    BY DEF Live, Start, ChildExit, vars, SInv, Types
  <2>2. q \in told \cup hungUp \/ Ahead(q)
    BY <2>1 DEF SInv, ToldInv
  <2>3. Ahead(q) => Ahead(q)'
    BY <1>0, <1>1 DEF Ahead
  <2> QED
    BY <2>1, <2>2, <2>3
<1> QED
    BY <1>2, <1>3, <1>4 DEF SInv

-----------------------------------------------------------------------------
(* The SIGCHLD handler *)

\* The handler empties slots only of children that are gone.
LEMMA CollectInv == ASSUME SInv, Collect PROVE SInv'
<1>0. /\ UNCHANGED <<spc, slot, timer, array, inTerm, masked, destroyed, told, hungUp>>
    BY DEF Collect, shutdownVars, childVars
<1>1. PICK q \in Pid \cup {NULL} :
         /\ q \in Pid => child' = [child EXCEPT ![q] = "none"] /\ child[q] = "zombie"
         /\ q = NULL => child' = child
         /\ pT' = pT /\ mpc' \in {mpc, "crashed"}
         /\ \/ g_clients' = g_clients
            \/ \E k \in 1 .. Len(g_clients) :
                  g_clients[k] \in {q, Dangling} /\ g_clients' = [g_clients EXCEPT ![k] = NULL]
  <2>1. CASE Deliver \/ HandlerReturn
    <3>1. UNCHANGED <<child, g_clients, pT, mpc>> /\ NULL \notin Pid
        BY <2>1, PidAssumption DEF Deliver, HandlerReturn, tableVars, mainVars
    <3> QED
        BY <3>1
  <2>2. ASSUME NEW p \in Pid, Reap(p) \/ ReapReleased(p)
        PROVE  /\ child' = [child EXCEPT ![p] = "none"] /\ child[p] = "zombie"
               /\ pT' = pT /\ mpc' \in {mpc, "crashed"}
               /\ \/ g_clients' = g_clients
                  \/ \E k \in 1 .. Len(g_clients) :
                        /\ g_clients[k] \in {p, Dangling}
                        /\ g_clients' = [g_clients EXCEPT ![k] = NULL]
    BY <2>2 DEF Reap, ReapReleased, CloseFound, CloseSlot, CloseNotFound, CloseCrash, tableVars
  <2> QED
    BY <2>1, <2>2, PidAssumption DEF Collect
<1>2. g_clients' \in Seq(Entry) /\ Len(g_clients') = Len(g_clients)
      /\ child' \in [Pid -> {"none", "forked", "serving", "zombie"}]
    BY <1>1, SlotReplaced, PidAssumption DEF SInv, Types, Entry
<1>3. Types'
    BY <1>0, <1>2 DEF SInv, Types, ShutdownTypeOK
<1>4. (spc = "idle" => IdleInv)'
  <2> SUFFICES ASSUME spc = "idle" PROVE IdleInv'
    BY <1>0
  <2>1. [Next]_vars
    BY DEF Collect, Next, HandlerStep, SInv, IdleInv
  <2> QED
    BY <2>1, <1>0, IdleStep
<1>5. ToldInv'
  <2> SUFFICES ASSUME spc \notin {"idle", "killed"}, mpc' \notin {"swap", "crashed"},
                      NEW p \in Pid \ Unregistered', Live(p)'
               PROVE  p \in told \cup hungUp \/ Ahead(p)'
    BY <1>0 DEF ToldInv
  <2>1. mpc' = mpc /\ Unregistered' = Unregistered
    BY <1>1 DEF Unregistered
  <2>2. Live(p) /\ p # q /\ p # Dangling
    BY <1>1, PidAssumption DEF Live, SInv, Types
  <2>3. CASE Ahead(p)
    <3>1. PICK k \in slot .. Len(g_clients) : g_clients[k] = p
        BY <2>3 DEF Ahead
    <3>2. k \in 1 .. Len(g_clients)
        BY <3>1 DEF SInv, Types, ShutdownTypeOK
    <3>3. g_clients'[k] = p
        BY <1>1, <2>2, <3>1, <3>2, SlotReplaced DEF SInv, Types, Entry
    <3> QED
        BY <3>1, <3>3, <1>0, <1>2, <2>3 DEF Ahead
  <2> QED
    BY <2>1, <2>2, <2>3 DEF SInv, ToldInv
<1> QED
    BY <1>3, <1>4, <1>5 DEF SInv

-----------------------------------------------------------------------------
(* The shutdown *)

LEMMA BeginInv == ASSUME SInv, SigTerm \/ AdminShutdown PROVE SInv'
<1> USE DEF SigTerm, AdminShutdown, Begin, tableVars, mainVars, vars, childVars
<1>1. /\ spc' = "send" /\ slot' = 1 /\ UNCHANGED <<child, g_clients, mpc, pT, array, told, hungUp>>
      /\ Unregistered' = Unregistered
    BY DEF Unregistered
<1>2. Types'
  <2>1. UNCHANGED <<timer, destroyed>>
    OBVIOUS
  <2>2. inTerm' \in BOOLEAN /\ masked' \in BOOLEAN
    BY DEF SInv, Types, ShutdownTypeOK, IdleInv, RegInv, TypeOK
  <2>3. Len(g_clients) \in Nat
    BY DEF SInv, Types
  <2> QED
    BY <1>1, <2>1, <2>2, <2>3 DEF SInv, Types, ShutdownTypeOK
<1>3. ToldInv'
  <2> SUFFICES ASSUME mpc \notin {"swap", "crashed"}, NEW p \in Pid \ Unregistered, Live(p)
               PROVE  p \in told \cup hungUp \/ Ahead(p)'
    BY <1>1 DEF ToldInv, Live
  <2>1. CASE spc = "idle"
    BY <2>1, <1>1, AllAhead DEF SInv, IdleInv, Ahead
  <2>2. CASE spc \notin {"idle", "killed"}
    <3>1. p \in told \cup hungUp \/ Ahead(p)
        BY <2>2 DEF SInv, ToldInv
    <3>2. Ahead(p) => Ahead(p)'
        BY <1>1 DEF Ahead, SInv, Types, ShutdownTypeOK
    <3> QED
        BY <3>1, <3>2
  <2> QED
    BY <2>1, <2>2 DEF Alive
<1> QED
    BY <1>1, <1>2, <1>3 DEF SInv

\* A slot passed: its child, if it had one, is told.
LEMMA SendInv == ASSUME SInv, Send PROVE SInv'
<1> USE DEF Send, Runs, Crash, tableVars, childVars
<1>0. /\ slot \in 1 .. Len(g_clients) + 1 /\ Len(g_clients) \in Nat
      /\ g_clients \in Seq(Entry)
    BY DEF SInv, Types, ShutdownTypeOK
<1>a. slot <= Len(g_clients)
    BY <1>0 DEF Size
<1>1. UNCHANGED <<child, g_clients, pT, array, hungUp, timer, inTerm, masked, destroyed>>
      /\ spc = "send" /\ mpc' \in {mpc, "crashed"} /\ spc' \in {"send", "killed"}
    OBVIOUS
<1>2. slot' \in {slot, slot + 1} /\ told' \in SUBSET Pid /\ told \subseteq told'
    BY DEF SInv, Types, ShutdownTypeOK
<1>3. Types'
    BY <1>0, <1>a, <1>1, <1>2 DEF SInv, Types, ShutdownTypeOK
<1>4. ToldInv'
  <2> SUFFICES ASSUME spc' # "killed", mpc' \notin {"swap", "crashed"},
                      NEW p \in Pid \ Unregistered', Live(p)'
               PROVE  p \in told' \cup hungUp \/ Ahead(p)'
    BY <1>1 DEF ToldInv
  <2>1. mpc' = mpc /\ Unregistered' = Unregistered /\ Live(p)
    BY <1>1 DEF Unregistered, Live
  <2>2. CASE Ahead(p) /\ p \notin told \cup hungUp
    <3>1. PICK k \in slot .. Len(g_clients) : g_clients[k] = p /\ array = "valid"
        BY <2>2 DEF Ahead
    <3>2. CASE k = slot
      <4>1. g_clients[slot] = p /\ p # NULL /\ p # Dangling /\ ~Stray /\ ~Broken(p)
          BY <3>1, <3>2, <2>1, <2>2, PidAssumption DEF Stray, Live, Broken
      <4> QED
          BY <4>1, <3>1, <2>1
    <3>3. CASE k # slot
      <4>1. k \in slot' .. Len(g_clients') /\ spc' = "send"
          BY <3>1, <3>3, <1>0, <1>1, <1>2
      <4> QED
          BY <4>1, <3>1, <1>1 DEF Ahead
    <3> QED
        BY <3>2, <3>3
  <2> QED
    BY <2>1, <2>2, <1>2 DEF SInv, ToldInv
<1> QED
    BY <1>1, <1>3, <1>4 DEF SInv

\* The steps after the messages change neither children nor what they were told.
LEMMA LaterInv == ASSUME SInv, ShutdownStep, ~Send PROVE SInv'
<1> USE DEF ShutdownStep, SendDone, Tick, WaitDone, Close, ClearSlot, CloseDone, DestroyServices,
            Release, ExitMain, Runs, Crash, vars, tableVars, mainVars, childVars
<1>0. slot \in 1 .. Len(g_clients) + 1 /\ Len(g_clients) \in Nat /\ g_clients \in Seq(Entry)
    BY DEF SInv, Types, ShutdownTypeOK
<1>1. /\ spc # "idle" /\ spc' # "idle" /\ spc' # "send"
      /\ UNCHANGED <<child, pT, inTerm, masked, told, hungUp>>
      /\ mpc' \in {mpc, "crashed"}
  <2>1. CASE spc = "send"
    BY <2>1
  <2>2. CASE spc # "send"
    BY <2>2
  <2> QED
    BY <2>1, <2>2
<1>a. slot <= Size => slot \in 1 .. Len(g_clients)
    BY <1>0 DEF Size
<1>2. g_clients' \in Seq(Entry) /\ Len(g_clients') = Len(g_clients)
  <2>1. ASSUME NEW v \in Entry, NEW k \in 1 .. Len(g_clients),
               g_clients' = [g_clients EXCEPT ![k] = v]
        PROVE  g_clients' \in Seq(Entry) /\ Len(g_clients') = Len(g_clients)
    BY <2>1, <1>0, SlotReplaced
  <2>2. NULL \in Entry /\ Dangling \in Entry
    BY DEF Entry
  <2>3. CASE Close
    BY <2>1, <2>2, <2>3, <1>0, <1>a
  <2>4. CASE ClearSlot
    <3>1. slot \in 1 .. Len(g_clients)
        BY <2>4, <1>0 DEF SInv, Types
    <3> QED
        BY <2>1, <2>2, <2>4, <3>1
  <2> QED
    BY <2>3, <2>4, <1>0
<1>3. slot' \in 1 .. Len(g_clients) + 1 /\ (spc' = "clear" => slot' <= Len(g_clients))
  <2>1. CASE ClearSlot
    BY <2>1, <1>0 DEF SInv, Types
  <2>2. CASE ~ClearSlot
    BY <2>2, <1>0, <1>a
  <2> QED
    BY <2>1, <2>2
<1>4. Types'
  <2>1. timer' \in 0 .. Timer
    BY DEF SInv, Types, ShutdownTypeOK
  <2>2. array' \in {"valid", "freed", "null", "gone"}
    BY DEF SInv, Types, ShutdownTypeOK
  <2>3. spc' \in {"wait", "close", "clear", "destroy", "release", "exited"}
        /\ destroyed' \in BOOLEAN
    BY DEF SInv, Types, ShutdownTypeOK
  <2> QED
    BY <1>1, <1>2, <1>3, <2>1, <2>2, <2>3 DEF SInv, Types, ShutdownTypeOK
<1>5. ToldInv'
  <2> SUFFICES ASSUME mpc' \notin {"swap", "crashed"}, NEW p \in Pid \ Unregistered', Live(p)'
               PROVE  p \in told \cup hungUp
    BY <1>1 DEF ToldInv
  <2>1. mpc' = mpc /\ p \in Pid \ Unregistered /\ Live(p) /\ spc \notin {"idle", "killed"}
    BY <1>1 DEF Unregistered, Live, Alive
  <2>2. ~Ahead(p)
    BY <1>0 DEF Ahead, Size
  <2> QED
    BY <2>1, <2>2 DEF SInv, ToldInv
<1> QED
    BY <1>1, <1>4, <1>5 DEF SInv

-----------------------------------------------------------------------------
(* Before it *)

LEMMA ServeInv == ASSUME SInv, Serve PROVE SInv'
<1>1. [Next]_vars /\ spc = "idle" /\ spc' = spc
      /\ UNCHANGED <<slot, array, timer, inTerm, masked, destroyed, told, hungUp>>
    BY DEF Serve, Next, shutdownVars, childVars
<1>2. IdleInv'
    BY <1>1, IdleStep
<1>3. told' \in SUBSET Pid /\ hungUp' \in SUBSET Pid /\ Types
    BY <1>1 DEF SInv, Types, ShutdownTypeOK
<1>4. Types'
    BY <1>1, <1>2, <1>3, IdleTypes
<1> QED
    BY <1>1, <1>2, <1>4 DEF SInv, ToldInv

LEMMA ShutdownInductive == ASSUME SInv, [ShutdownNext]_allVars PROVE SInv'
<1>1. CASE UNCHANGED allVars
    BY <1>1 DEF allVars, vars, tableVars, mainVars, shutdownVars, childVars, SInv, Types,
        ShutdownTypeOK, IdleInv, RegInv, TypeOK, LocalsOK, LiveRegistered, Unreaped,
        Unregistered, Table, OldReg, ToldInv, Live, Ahead
<1> QED
    BY <1>1, ServeInv, ChildInv, CollectInv, BeginInv, SendInv, LaterInv
       DEF ShutdownNext, ShutdownStep

\* Type correctness: whatever SIGTERM interrupts, the shutdown's loops stay
\* inside the table they walk, and one slot past its end.
THEOREM ShutdownTyped == ShutdownSafety => []ShutdownTypeOK
<1>1. SInv => ShutdownTypeOK
    BY DEF SInv, Types
<1> QED
    BY <1>1, InitSInv, ShutdownInductive, PTL DEF ShutdownSafety

\* sendSignalToAllClients misses nobody: when the messages are sent, every child
\* the main process has registered has its tg://1003/, or has hung up already,
\* whichever step of addClient, appendClient or the SIGCHLD handler the shutdown
\* interrupted; the replacement of the table is the exception.
THEOREM EveryoneTold == ShutdownSafety => []AllTold
<1>1. SInv => AllTold
    BY DEF SInv, ToldInv, AllTold, Past, Live, Ahead
<1> QED
    BY <1>1, InitSInv, ShutdownInductive, PTL DEF ShutdownSafety
=============================================================================
