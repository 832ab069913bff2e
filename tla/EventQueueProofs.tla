------------------------- MODULE EventQueueProofs -------------------------
(***************************************************************************)
(* The event queue is correct for every number of nodes and every set of   *)
(* events: IInv is inductive, it implies the invariants the run checks,    *)
(* and every step of EventQueue is a step or a stutter of EventFifo.       *)
(***************************************************************************)
EXTENDS EventQueue, SequenceTheorems, TLAPS

\* What the program counters say of the locals: the response thread that
\* found the list empty, or not empty, still finds it so, because it holds
\* the mutex; a thread inside an operation has a real event in its local.
LocalsOK ==
    /\ rpc \notin {"idle"} => rEvent \in Event
    /\ cpc = "advance" => pHead # NULL /\ pEv = pHead
    /\ cpc = "empty" => pHead = NULL
    /\ cpc \in HoldingPC => pEv \in Node

\* Queued events have contents (NULL is only the content of unused memory).
DataOK == \A n \in allocated : data[n] \in Event

IInv == /\ TypeOK /\ MutexOK /\ ChainOK /\ TailOK /\ MemoryOK
        /\ NoLostWakeup /\ LocalsOK /\ DataOK

\* The state tests on the program counters, as one definition to expand.
LEMMA PCSets ==
    /\ HoldingPC = {"taken", "handle", "free"}
    /\ LockedPC = {"head", "advance", "taken", "empty", "retry"}
    /\ ResponsePC = {"head", "advance", "taken", "empty", "retry",
                     "handle", "free", "lock", "wait", "woken"}
BY DEF HoldingPC, LockedPC, ResponsePC

LEMMA InitIInv == Init => IInv
<1> SUFFICES ASSUME Init PROVE IInv
    OBVIOUS
<1> USE NULLAssumption DEF Init
<1>1. TypeOK
    BY DEF TypeOK, ReaderPC, ResponsePC, LockedPC, HoldingPC
<1>2. MutexOK /\ ChainOK /\ TailOK /\ NoLostWakeup /\ LocalsOK /\ DataOK
    BY DEF MutexOK, ChainOK, TailOK, NoLostWakeup, LocalsOK, DataOK, LockedPC, HoldingPC
<1>3. MemoryOK
    BY DEF MemoryOK, Linked, Held, HoldingPC
<1> QED
    BY <1>1, <1>2, <1>3 DEF IInv

\* A push that links a fresh node behind the last one keeps the invariant.
LEMMA PushLinkIInv == IInv /\ PushLink => IInv'
<1> SUFFICES ASSUME IInv, PushLink PROVE IInv'
    OBVIOUS
<1> USE NULLAssumption DEF IInv, PushLink
<1> PICK n \in Node \ allocated :
          /\ allocated' = allocated \cup {n}
          /\ data' = [data EXCEPT ![n] = rEvent]
          /\ rNew' = n
          /\ listed' = Append(listed, n)
          /\ \/ /\ pHead = NULL
                /\ pHead' = n
                /\ pNext' = [pNext EXCEPT ![n] = NULL]
             \/ /\ pHead # NULL
                /\ pNext' = [pNext EXCEPT ![n] = NULL, ![pTail] = n]
                /\ UNCHANGED pHead
    OBVIOUS
<1>1. /\ \A k \in 1 .. Len(listed) : listed[k] \in allocated /\ listed[k] # n
      /\ listed \in Seq(Node)
      /\ Len(listed') = Len(listed) + 1
      /\ \A k \in 1 .. Len(listed) : listed'[k] = listed[k]
      /\ listed'[Len(listed) + 1] = n
    BY DEF TypeOK, MemoryOK, Linked
<1>2. TypeOK'
    BY DEF TypeOK, ReaderPC
<1>3. MutexOK'
    BY DEF MutexOK
<1>4. pHead = NULL <=> listed = <<>>
    BY <1>1 DEF ChainOK, TypeOK
<1>5. ChainOK'
  <2>1. (pHead = IF listed = <<>> THEN NULL ELSE listed[1])'
    BY <1>1, <1>4 DEF ChainOK
  <2>2. (\A j, k \in 1 .. Len(listed) : listed[j] = listed[k] => j = k)'
    BY <1>1 DEF ChainOK
  <2>3. ASSUME NEW k \in 1 .. Len(listed')
        PROVE  pNext'[listed'[k]] = IF k = Len(listed') THEN NULL ELSE listed'[k + 1]
    <3>1. CASE listed = <<>>
        BY <3>1, <1>1, <1>4 DEF TypeOK
    <3>2. CASE listed # <<>>
      <4>1. /\ pNext' = [pNext EXCEPT ![n] = NULL, ![pTail] = n]
            /\ pTail = listed[Len(listed)]
            /\ Len(listed) \in Nat /\ Len(listed) > 0
            /\ pTail # n
        BY <3>2, <1>1, <1>4 DEF TailOK
      <4>2. CASE k = Len(listed) + 1
        BY <4>1, <4>2, <1>1 DEF TypeOK
      <4>3. CASE k = Len(listed)
        BY <4>1, <4>3, <1>1 DEF TypeOK
      <4>4. CASE k < Len(listed)
        <5>1. /\ k \in 1 .. Len(listed) /\ k + 1 \in 1 .. Len(listed)
              /\ listed[k] # listed[Len(listed)]
            BY <4>4, <4>1 DEF ChainOK
        <5> QED
            BY <5>1, <4>1, <4>4, <1>1 DEF ChainOK, TypeOK
      <4> QED
        BY <4>1, <4>2, <4>3, <4>4, <1>1
    <3> QED
        BY <3>1, <3>2
  <2> QED
    BY <2>1, <2>2, <2>3 DEF ChainOK
<1>6. TailOK'
    BY <1>1 DEF TailOK
<1>7. MemoryOK'
  <2>1. Linked' = Linked \cup {n}
    BY <1>1 DEF Linked
  <2>2. Held' = Held /\ n \notin Held
    BY DEF Held, MemoryOK
  <2> QED
    BY <2>1, <2>2 DEF MemoryOK
<1>8. NoLostWakeup'
    BY DEF NoLostWakeup
<1>9. LocalsOK'
    BY PCSets DEF LocalsOK, MutexOK
<1>10. DataOK'
    BY DEF DataOK, LocalsOK, TypeOK
<1> QED
    BY <1>2, <1>3, <1>5, <1>6, <1>7, <1>8, <1>9, <1>10

\* Finishing a push makes the tail and the count agree with the list again.
LEMMA PushTailIInv == IInv /\ PushTail => IInv'
<1> SUFFICES ASSUME IInv, PushTail PROVE IInv'
    OBVIOUS
<1> USE NULLAssumption DEF IInv, PushTail
<1>1. /\ listed # <<>> /\ listed \in Seq(Node) /\ Len(listed) \in Nat /\ Len(listed) > 0
      /\ rNew = listed[Len(listed)] /\ rNew \in Node
    BY DEF TailOK, TypeOK
<1>2. TypeOK'
    BY <1>1 DEF TypeOK, ReaderPC
<1>3. pNext' = pNext
  <2>1. pNext[rNew] = NULL
    BY <1>1 DEF ChainOK
  <2> QED
    BY <2>1, <1>1 DEF TypeOK
<1>4. ChainOK'
    BY <1>3 DEF ChainOK
<1>5. TailOK'
    BY <1>1 DEF TailOK
<1>6. MemoryOK'
    BY DEF MemoryOK, Linked, Held
<1>7. MutexOK' /\ NoLostWakeup' /\ LocalsOK' /\ DataOK'
    BY DEF MutexOK, NoLostWakeup, LocalsOK, DataOK
<1> QED
    BY <1>2, <1>4, <1>5, <1>6, <1>7

\* Unlinking the first node keeps the chain and hands the node over.
LEMMA HeadAdvanceIInv == IInv /\ HeadAdvance => IInv'
<1> SUFFICES ASSUME IInv, HeadAdvance PROVE IInv'
    OBVIOUS
<1> USE NULLAssumption
<1>inv. /\ TypeOK /\ MutexOK /\ ChainOK /\ TailOK /\ MemoryOK
        /\ NoLostWakeup /\ LocalsOK /\ DataOK
    BY DEF IInv
<1>act. /\ cpc = "advance" /\ cpc' = "taken"
        /\ pHead' = pNext[pHead]
        /\ pTail' = IF pNext[pHead] = NULL THEN NULL ELSE pTail
        /\ queueCount' = queueCount - 1
        /\ listed' = Tail(listed)
        /\ UNCHANGED <<mutex, rpc, rEvent, rNew, pEv, pNext, data, allocated>>
    BY DEF HeadAdvance
<1> USE <1>act
<1>1. /\ pHead # NULL /\ pEv = pHead /\ rpc = "idle" /\ mutex = "response"
    BY <1>inv, PCSets DEF LocalsOK, MutexOK, TypeOK
<1>2. /\ listed # <<>> /\ listed \in Seq(Node) /\ Len(listed) \in Nat /\ Len(listed) > 0
      /\ pHead = listed[1] /\ pHead \in Node
      /\ \A k \in 1 .. Len(listed) : listed[k] \in Node
    BY <1>inv, <1>1 DEF ChainOK, TypeOK
<1>3. /\ listed' \in Seq(Node) /\ Len(listed') = Len(listed) - 1
      /\ \A k \in 1 .. Len(listed') : listed'[k] = listed[k + 1]
      /\ listed' = <<>> <=> Len(listed) = 1
  <2>1. /\ Tail(listed) \in Seq(Node) /\ Len(Tail(listed)) = Len(listed) - 1
        /\ \A k \in 1 .. Len(Tail(listed)) : Tail(listed)[k] = listed[k + 1]
    BY <1>2, HeadTailProperties
  <2>2. Tail(listed) = <<>> <=> Len(Tail(listed)) = 0
    BY <2>1, EmptySeq
  <2> QED
    BY <1>2, <2>1, <2>2
<1>a. Len(listed) = 1 \/ Len(listed) > 1
  <2>1. Len(listed) \in Nat /\ Len(listed) > 0
    BY <1>2
  <2>2. \A m \in Nat : m > 0 => m = 1 \/ m > 1
    OBVIOUS
  <2> QED
    BY ONLY <2>1, <2>2
<1>4. pNext[pHead] = IF Len(listed) = 1 THEN NULL ELSE listed[2]
  <2>1. 1 \in 1 .. Len(listed) /\ 1 + 1 = 2
    BY <1>2
  <2>2. pNext[listed[1]] = IF 1 = Len(listed) THEN NULL ELSE listed[1 + 1]
    BY <1>inv, <2>1 DEF ChainOK
  <2> QED
    BY <1>2, <2>1, <2>2
<1>5. TypeOK'
  <2>1. pNext[pHead] \in Node \cup {NULL}
    BY <1>inv, <1>2 DEF TypeOK
  <2>2. listed' \in Seq(Node) /\ cpc' \in ResponsePC /\ queueCount' \in Nat
    BY <1>inv, <1>1, <1>2, <1>3, PCSets DEF TailOK
  <2> QED
    BY <1>inv, <2>1, <2>2 DEF TypeOK
<1>6. MutexOK'
    BY <1>inv, <1>1, PCSets DEF MutexOK
<1>7. ChainOK'
  <2>1. (pHead = IF listed = <<>> THEN NULL ELSE listed[1])'
    <3>1. CASE Len(listed) = 1
        BY <3>1, <1>3, <1>4
    <3>2. CASE Len(listed) > 1
      <4>1. 1 \in 1 .. Len(listed') /\ 1 + 1 = 2 /\ listed' # <<>> /\ Len(listed) # 1
          BY <3>2, <1>2, <1>3
      <4>2. listed'[1] = listed[2] /\ pHead' = listed[2]
          BY <4>1, <1>3, <1>4
      <4> QED
          BY <4>1, <4>2
    <3> QED
        BY <3>1, <3>2, <1>a
  <2>2. ASSUME NEW k \in 1 .. Len(listed')
        PROVE  pNext'[listed'[k]] = IF k = Len(listed') THEN NULL ELSE listed'[k + 1]
    <3>4. Len(listed') = Len(listed) - 1 /\ Len(listed) \in Nat /\ k \in 1 .. Len(listed')
        BY <1>2, <1>3
    <3>1. /\ k + 1 \in 1 .. Len(listed)
          /\ k = Len(listed') <=> k + 1 = Len(listed)
          /\ k # Len(listed') => k + 1 \in 1 .. Len(listed')
          /\ listed'[k] = listed[k + 1]
      <4>1. \A l, m \in Int : /\ m = l - 1 /\ l \in Nat /\ k \in 1 .. m
              => /\ k + 1 \in 1 .. l
                 /\ k = m <=> k + 1 = l
                 /\ k # m => k + 1 \in 1 .. m
          OBVIOUS
      <4>2. Len(listed) \in Int /\ Len(listed') \in Int
          BY <3>4
      <4> QED
          BY ONLY <4>1, <4>2, <3>4, <1>3
    <3>3. k # Len(listed') => listed'[k + 1] = listed[(k + 1) + 1]
        BY <3>1, <1>3
    <3>2. pNext[listed[k + 1]] = IF k + 1 = Len(listed) THEN NULL ELSE listed[(k + 1) + 1]
        BY <1>inv, <3>1 DEF ChainOK
    <3> QED
        BY <3>1, <3>2, <3>3
  <2>3. ASSUME NEW j \in 1 .. Len(listed'), NEW k \in 1 .. Len(listed'),
               listed'[j] = listed'[k]
        PROVE  j = k
    <3>1. /\ j + 1 \in 1 .. Len(listed) /\ k + 1 \in 1 .. Len(listed)
          /\ listed[j + 1] = listed[k + 1]
        BY <2>3, <1>2, <1>3
    <3>2. j + 1 = k + 1
        BY <1>inv, <3>1 DEF ChainOK
    <3> QED
        BY <3>2
  <2> QED
    BY <1>inv, <2>1, <2>2, <2>3 DEF ChainOK
<1>8. TailOK'
  <2>1. CASE Len(listed) = 1
    BY <1>inv, <2>1, <1>1, <1>2, <1>3, <1>4 DEF TailOK
  <2>2. CASE Len(listed) > 1
    <3>1. listed[2] \in Node /\ pNext[pHead] # NULL
        BY <2>2, <1>2, <1>4
    <3> QED
        BY <1>inv, <2>2, <3>1, <1>1, <1>2, <1>3 DEF TailOK
  <2> QED
    BY <2>1, <2>2, <1>a
<1>9. MemoryOK'
  <2>1. Linked' = Linked \ {pHead}
    <3>1. ASSUME NEW k \in 1 .. Len(listed')
          PROVE  listed'[k] \in Linked \ {pHead}
      <4>1. k + 1 \in 1 .. Len(listed) /\ 1 \in 1 .. Len(listed) /\ k + 1 # 1
          BY <1>2, <1>3
      <4>2. listed[k + 1] # listed[1]
          BY <1>inv, <4>1 DEF ChainOK
      <4> QED
          BY <4>1, <4>2, <1>2, <1>3 DEF Linked
    <3>2. ASSUME NEW k \in 1 .. Len(listed), listed[k] # pHead
          PROVE  listed[k] \in Linked'
      <4>1. k - 1 \in 1 .. Len(listed') /\ (k - 1) + 1 = k
          BY <3>2, <1>2, <1>3
      <4>2. listed'[k - 1] = listed[(k - 1) + 1]
          BY <4>1, <1>3
      <4> QED
          BY <4>1, <4>2 DEF Linked
    <3> QED
        BY <3>1, <3>2 DEF Linked
  <2>2. /\ Held = {} /\ cpc' \in HoldingPC /\ pEv' = pHead
        /\ 1 \in 1 .. Len(listed)
    BY <1>1, <1>2, PCSets DEF Held
  <2>3. Held = {} /\ Held' = {pHead} /\ pHead \in Linked
    BY <2>2, <1>2 DEF Held, Linked
  <2> QED
    BY <1>inv, <2>1, <2>3 DEF MemoryOK
<1>10. NoLostWakeup' /\ LocalsOK' /\ DataOK'
    BY <1>inv, <1>1, <1>2, PCSets DEF NoLostWakeup, LocalsOK, DataOK
<1> QED
    BY <1>5, <1>6, <1>7, <1>8, <1>9, <1>10 DEF IInv

\* Freeing the held node takes it, and no queued node, from the heap.
LEMMA FreeIInv == IInv /\ FreeTGEvent => IInv'
<1> SUFFICES ASSUME IInv, FreeTGEvent PROVE IInv'
    OBVIOUS
<1> USE NULLAssumption DEF IInv, FreeTGEvent
<1>1. TypeOK' /\ MutexOK' /\ ChainOK' /\ TailOK'
    BY PCSets DEF TypeOK, MutexOK, ChainOK, TailOK
<1>2. MemoryOK'
    BY PCSets DEF MemoryOK, Linked, Held
<1>3. NoLostWakeup' /\ LocalsOK' /\ DataOK'
    BY PCSets DEF NoLostWakeup, LocalsOK, DataOK
<1> QED
    BY <1>1, <1>2, <1>3

\* The steps that leave the list and the heap alone only move the mutex, the
\* program counters and the locals.
LEMMA ControlIInv ==
    ASSUME IInv,
           \/ \E e \in Event : ReaderLock(e)
           \/ CondSignal \/ ReaderUnlock
           \/ ResponseLock \/ CondReturn \/ SpuriousWakeup
           \/ HeadRead \/ ResponseUnlock \/ HandleResponse
           \/ CondWait \/ RetryUnlock
    PROVE  IInv'
<1> USE NULLAssumption, PCSets
    DEF IInv, ReaderLock, CondSignal, ReaderUnlock, ResponseLock, CondReturn,
        SpuriousWakeup, HeadRead, ResponseUnlock, HandleResponse, CondWait,
        RetryUnlock, listVars
<1>1. TypeOK'
    BY DEF TypeOK, ReaderPC
<1>2. MutexOK'
    BY DEF MutexOK
<1>3. ChainOK'
    BY DEF ChainOK
<1>4. TailOK'
    BY DEF TailOK
<1>5. MemoryOK'
    BY DEF MemoryOK, Linked, Held
<1>6. NoLostWakeup'
    BY DEF NoLostWakeup, LocalsOK
<1>7. LocalsOK'
    BY DEF LocalsOK, TypeOK
<1>8. DataOK'
    BY DEF DataOK
<1> QED
    BY <1>1, <1>2, <1>3, <1>4, <1>5, <1>6, <1>7, <1>8

LEMMA NextIInv == IInv /\ [Next]_vars => IInv'
<1>1. ASSUME IInv, UNCHANGED vars PROVE IInv'
    BY <1>1 DEF IInv, vars, threadVars, listVars, TypeOK, MutexOK, ChainOK, TailOK,
        MemoryOK, Linked, Held, NoLostWakeup, LocalsOK, DataOK
<1> QED
    BY <1>1, PushLinkIInv, PushTailIInv, HeadAdvanceIInv, FreeIInv, ControlIInv
    DEF Next, ReaderStep, ResponseStep

\* In every execution the inductive invariant holds.
THEOREM Inductive == SafetySpec => []IInv
BY InitIInv, NextIInv, PTL DEF SafetySpec

\* Every variable keeps its type: no dereference of a NULL or foreign pointer
\* in pushEventToQueue, head or freeTGEvent.
THEOREM TypeCorrect == SafetySpec => []TypeOK
<1>1. IInv => TypeOK
    BY DEF IInv
<1> QED
    BY <1>1, Inductive, PTL

\* The list is well formed whatever the interleaving of the two threads and
\* whatever the addresses malloc reuses.
THEOREM ListCorrect == SafetySpec => []ListOK
<1>1. IInv => ListOK
    BY DEF IInv, ListOK
<1> QED
    BY <1>1, Inductive, PTL

\* No event is leaked, freed twice, freed while queued, or handled while the
\* reader can still reach it.
THEOREM MemoryCorrect == SafetySpec => []MemoryOK
<1>1. IInv => MemoryOK
    BY DEF IInv
<1> QED
    BY <1>1, Inductive, PTL

\* The response thread never sleeps on a queue that has an event, except in
\* the short while before the signal of the push.
THEOREM WakeupCorrect == SafetySpec => []NoLostWakeup
<1>1. IInv => NoLostWakeup
    BY DEF IInv
<1> QED
    BY <1>1, Inductive, PTL

-----------------------------------------------------------------------------
(* Refinement of EventFifo *)

LEMMA QueuedType ==
    ASSUME IInv
    PROVE  /\ QueuedEvents \in Seq(Event)
           /\ Len(QueuedEvents) = Len(listed)
           /\ \A k \in 1 .. Len(listed) : QueuedEvents[k] = data[listed[k]]
<1>1. Len(listed) \in Nat
    BY DEF IInv, TypeOK
<1>2. \A k \in 1 .. Len(listed) : data[listed[k]] \in Event
    BY DEF IInv, MemoryOK, Linked, DataOK
<1>3. QueuedEvents \in [1 .. Len(listed) -> Event]
    BY <1>2 DEF QueuedEvents
<1> QED
    BY <1>1, <1>3 DEF QueuedEvents

\* Linking a node puts its event at the end of the queue.
LEMMA PushLinkPuts == IInv /\ IInv' /\ PushLink => Fifo!Put(rEvent)
<1> SUFFICES ASSUME IInv, IInv', PushLink PROVE Fifo!Put(rEvent)
    OBVIOUS
<1> PICK n \in Node \ allocated :
          /\ allocated' = allocated \cup {n}
          /\ data' = [data EXCEPT ![n] = rEvent]
          /\ listed' = Append(listed, n)
    BY DEF PushLink
<1>1. /\ listed \in Seq(Node) /\ data \in [Node -> Event \cup {NULL}]
      /\ rEvent \in Event /\ cpc' = cpc /\ pEv' = pEv
    BY DEF IInv, TypeOK, LocalsOK, PushLink
<1>2. /\ Linked \subseteq allocated /\ Held \subseteq allocated
    BY DEF IInv, MemoryOK
<1>3. /\ QueuedEvents' \in Seq(Event)
      /\ Len(QueuedEvents') = Len(listed')
      /\ \A k \in 1 .. Len(listed') : QueuedEvents'[k] = data'[listed'[k]]
  <2>1. Len(listed') \in Nat
    BY <1>1
  <2>2. \A k \in 1 .. Len(listed') : data'[listed'[k]] \in Event
    BY DEF IInv, MemoryOK, Linked, DataOK
  <2> QED
    BY <2>1, <2>2 DEF QueuedEvents
<1>4. \A k \in 1 .. Len(listed) : data'[listed[k]] = data[listed[k]]
    BY <1>1, <1>2 DEF Linked
<1>5. QueuedEvents' = Append(QueuedEvents, rEvent)
  <2>1. Append(QueuedEvents, rEvent) \in Seq(Event)
    BY QueuedType, <1>1
  <2>2. Len(QueuedEvents') = Len(Append(QueuedEvents, rEvent))
    BY QueuedType, <1>1, <1>3
  <2>3. ASSUME NEW k \in 1 .. Len(listed')
        PROVE  QueuedEvents'[k] = Append(QueuedEvents, rEvent)[k]
    <3>1. CASE k = Len(listed')
        BY <3>1, <1>1, <1>3, QueuedType
    <3>2. CASE k # Len(listed')
      <4>1. k \in 1 .. Len(listed) /\ listed'[k] = listed[k]
          BY <3>2, <1>1
      <4> QED
          BY <4>1, <1>1, <1>3, <1>4, QueuedType
    <3> QED
        BY <3>1, <3>2
  <2> QED
    BY <2>1, <2>2, <2>3, <1>3, SeqEqual
<1>6. TakenEvent' = TakenEvent
    BY <1>1, <1>2 DEF TakenEvent, Held
<1> QED
    BY <1>5, <1>6 DEF Fifo!Put

\* Unlinking the first node takes the oldest event.
LEMMA HeadAdvanceTakes == IInv /\ IInv' /\ HeadAdvance => Fifo!Take
<1> SUFFICES ASSUME IInv, IInv', HeadAdvance PROVE Fifo!Take
    OBVIOUS
<1>1. /\ listed \in Seq(Node) /\ listed # <<>> /\ Len(listed) \in Nat /\ Len(listed) > 0
      /\ pEv = listed[1] /\ pEv' = pEv /\ data' = data /\ listed' = Tail(listed)
      /\ cpc = "advance" /\ cpc' = "taken"
    BY DEF IInv, TypeOK, LocalsOK, ChainOK, HeadAdvance
<1>2. TakenEvent = NULL /\ TakenEvent' = data[listed[1]]
    BY <1>1, PCSets DEF TakenEvent
<1>3. /\ QueuedEvents \in Seq(Event) /\ QueuedEvents # <<>>
      /\ Head(QueuedEvents) = data[listed[1]]
    BY <1>1, QueuedType
<1>4. QueuedEvents' = Tail(QueuedEvents)
  <2>1. /\ Tail(QueuedEvents) \in Seq(Event)
        /\ Len(Tail(QueuedEvents)) = Len(QueuedEvents) - 1
        /\ \A k \in 1 .. Len(Tail(QueuedEvents)) : Tail(QueuedEvents)[k] = QueuedEvents[k + 1]
    BY <1>3, HeadTailProperties
  <2>2. /\ Len(listed') = Len(listed) - 1 /\ listed' \in Seq(Node)
        /\ \A k \in 1 .. Len(listed') : listed'[k] = listed[k + 1]
    BY <1>1, HeadTailProperties
  <2>3. Len(QueuedEvents) = Len(listed)
    BY QueuedType
  <2>4. /\ QueuedEvents' \in Seq(Event) /\ Len(QueuedEvents') = Len(listed')
        /\ \A k \in 1 .. Len(listed') : QueuedEvents'[k] = data'[listed'[k]]
    <3>1. Len(listed') \in Nat
        BY <2>2
    <3>2. \A k \in 1 .. Len(listed') : data'[listed'[k]] \in Event
        BY DEF IInv, MemoryOK, Linked, DataOK
    <3> QED
        BY <3>1, <3>2 DEF QueuedEvents
  <2>5. ASSUME NEW k \in 1 .. Len(listed')
        PROVE  QueuedEvents'[k] = Tail(QueuedEvents)[k]
    <3>1. QueuedEvents'[k] = data[listed[k + 1]]
        BY <2>2, <2>4, <1>1
    <3>2. k + 1 \in 1 .. Len(listed)
        BY <2>2, <1>1
    <3>3. QueuedEvents[k + 1] = data[listed[k + 1]]
        BY <3>2, QueuedType
    <3> QED
        BY <3>1, <3>3, <2>1, <2>2, <2>3
  <2> QED
    BY <2>1, <2>2, <2>3, <2>4, <2>5, SeqEqual
<1> QED
    BY <1>2, <1>3, <1>4 DEF Fifo!Take

\* Freeing the held node finishes the event.
LEMMA FreeDone == IInv /\ FreeTGEvent => Fifo!Done
<1> SUFFICES ASSUME IInv, FreeTGEvent PROVE Fifo!Done
    OBVIOUS
<1>1. cpc = "free" /\ cpc' = "lock" /\ pEv \in allocated /\ data' = data /\ listed' = listed
    BY PCSets DEF IInv, MemoryOK, Held, FreeTGEvent
<1>2. TakenEvent # NULL /\ TakenEvent' = NULL
    BY <1>1, PCSets, NULLAssumption DEF IInv, DataOK, TakenEvent
<1>3. QueuedEvents' = QueuedEvents
    BY <1>1 DEF QueuedEvents
<1> QED
    BY <1>2, <1>3 DEF Fifo!Done

\* Every step of the two threads is a step of the abstract queue or changes
\* neither its contents nor the event in hand.
LEMMA StepRefines == IInv /\ IInv' /\ [Next]_vars => [Fifo!Next]_(Fifo!vars)
<1> SUFFICES ASSUME IInv, IInv', [Next]_vars PROVE [Fifo!Next]_(Fifo!vars)
    OBVIOUS
<1>1. CASE PushLink
  <2>1. rEvent \in Event
    BY <1>1 DEF IInv, LocalsOK, PushLink
  <2> QED
    BY <2>1, <1>1, PushLinkPuts DEF Fifo!Next
<1>2. CASE HeadAdvance
    BY <1>2, HeadAdvanceTakes DEF Fifo!Next
<1>3. CASE FreeTGEvent
    BY <1>3, FreeDone DEF Fifo!Next
<1>4. ASSUME UNCHANGED <<listed, data, pEv>>,
             cpc \in HoldingPC <=> cpc' \in HoldingPC
      PROVE  UNCHANGED Fifo!vars
    BY <1>4 DEF Fifo!vars, QueuedEvents, TakenEvent
<1>5. CASE HeadRead
  <2>1. cpc \notin HoldingPC /\ cpc' \notin HoldingPC /\ UNCHANGED <<listed, data>>
    BY <1>5, PCSets DEF HeadRead, listVars
  <2> QED
    BY <2>1 DEF Fifo!vars, QueuedEvents, TakenEvent
<1>6. CASE \/ \E e \in Event : ReaderLock(e)
           \/ PushTail \/ CondSignal \/ ReaderUnlock
           \/ ResponseLock \/ CondReturn \/ SpuriousWakeup
           \/ ResponseUnlock \/ HandleResponse \/ CondWait \/ RetryUnlock
           \/ UNCHANGED vars
  <2>1. /\ UNCHANGED <<listed, data, pEv>>
        /\ cpc \in HoldingPC <=> cpc' \in HoldingPC
    BY <1>6, PCSets DEF ReaderLock, PushTail, CondSignal, ReaderUnlock, ResponseLock,
        CondReturn, SpuriousWakeup, ResponseUnlock, HandleResponse, CondWait,
        RetryUnlock, vars, threadVars, listVars
  <2> QED
    BY <2>1, <1>4
<1> QED
    BY <1>1, <1>2, <1>3, <1>5, <1>6 DEF Next, ReaderStep, ResponseStep

\* The mutex, the condition variable and the linked list implement the
\* first-in first-out queue (its safety part; the liveness part is checked by
\* TLC).
THEOREM QueueRefines == SafetySpec => Fifo!SafetySpec
<1>1. Init => Fifo!Init
    BY DEF Init, Fifo!Init, QueuedEvents, TakenEvent, HoldingPC
<1> QED
    BY <1>1, Inductive, StepRefines, PTL DEF SafetySpec, Fifo!SafetySpec
=============================================================================
