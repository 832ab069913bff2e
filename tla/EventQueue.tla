----------------------------- MODULE EventQueue -----------------------------
(***************************************************************************)
(* The event queue of one client process: the linked list of tg_event.c,   *)
(* the mutex and the condition variable of tg_process.c, the reader thread *)
(* that pushes (__send_thread_signal) and the response thread that pops,   *)
(* handles and frees (__deamon_response).                                  *)
(*                                                                         *)
(* An action is the code between two points at which the other thread can  *)
(* run and see a difference; the list operations are several actions each, *)
(* so that it is the mutex, and not the grain of the model, that keeps the *)
(* threads apart.  What a handler does is the subject of ClientProcess:    *)
(* here it only takes time.                                                *)
(***************************************************************************)
EXTENDS Integers, Sequences

CONSTANTS
    Node,       \* addresses malloc can return for a struct TGEvent: their
                \* number is the bound on the length of the queue
    Event,      \* contents of an event (type and data)
    NULL

ASSUME NULLAssumption == NULL \notin Node \cup Event

VARIABLES
    mutex,      \* event_mutex: "free" or the thread that holds it
    rpc,        \* where the reader thread is
    rEvent,     \* the event it is pushing
    rNew,       \* pEv of pushEventToQueue
    cpc,        \* where the response thread is; "wait": inside
                \* pthread_cond_wait, "woken": leaving it
    pEv,        \* pEv of head() and of __deamon_response
    pHead, pTail, queueCount,
    pNext,      \* the pNext field of every node
    data,       \* the type and data fields of every node
    allocated,  \* nodes malloc gave out and free did not take back
    listed      \* ghost: the nodes that are in the queue, in push order

threadVars == <<mutex, rpc, rEvent, rNew, cpc, pEv>>
listVars   == <<pHead, pTail, queueCount, pNext, data, allocated, listed>>
vars       == <<threadVars, listVars>>

Init ==
    /\ mutex = "free"
    /\ rpc = "idle" /\ rEvent = NULL /\ rNew = NULL
    /\ cpc = "lock" /\ pEv = NULL
    /\ pHead = NULL /\ pTail = NULL /\ queueCount = 0
    /\ pNext = [n \in Node |-> NULL]
    /\ data = [n \in Node |-> NULL]
    /\ allocated = {}
    /\ listed = <<>>

-----------------------------------------------------------------------------
(* The reader thread: __send_thread_signal                                 *)

\* Mutant: the push does not take the mutex.
ReaderNoLock(e) ==
    /\ rpc = "idle"
    /\ allocated # Node
    /\ rpc' = "push"
    /\ rEvent' = e
    /\ UNCHANGED <<mutex, rNew, cpc, pEv, listVars>>

\* It has an event to send and gets the mutex.  The second conjunct is the
\* bound on memory: a push starts only while malloc has a node left.
ReaderLock(e) ==
    /\ rpc = "idle"
    /\ allocated # Node
    /\ mutex = "free"
    /\ mutex' = "reader"
    /\ rpc' = "push"
    /\ rEvent' = e
    /\ UNCHANGED <<rNew, cpc, pEv, listVars>>

\* malloc, memset and the field assignments, then the new node becomes the
\* head of an empty queue or the successor of the old tail.
PushLink ==
    /\ rpc = "push"
    /\ \E n \in Node \ allocated :
          /\ allocated' = allocated \cup {n}
          /\ data' = [data EXCEPT ![n] = rEvent]
          /\ rNew' = n
          /\ listed' = Append(listed, n)
          /\ \/ /\ pHead = NULL
                /\ pHead' = n
                /\ pNext' = [pNext EXCEPT ![n] = NULL]
             \/ /\ pHead # NULL
                /\ pNext' = [pNext EXCEPT ![n] = NULL, ![pTail] = n]
                /\ UNCHANGED pHead
    /\ rpc' = "tail"
    /\ UNCHANGED <<mutex, rEvent, cpc, pEv, pTail, queueCount>>

\* pTail = pEv on both branches, pTail->pNext = NULL, queueCount++.
PushTail ==
    /\ rpc = "tail"
    /\ pTail' = rNew
    /\ pNext' = [pNext EXCEPT ![rNew] = NULL]
    /\ queueCount' = queueCount + 1
    /\ rpc' = "signal"
    /\ UNCHANGED <<mutex, rEvent, rNew, cpc, pEv, pHead, data, allocated, listed>>

\* Mutant: only a push to an empty queue signals, tested after the link.
CondSignalFirstOnly ==
    /\ rpc = "signal"
    /\ cpc' = IF cpc = "wait" /\ queueCount = 0 THEN "woken" ELSE cpc
    /\ rpc' = "unlock"
    /\ UNCHANGED <<mutex, rEvent, rNew, pEv, listVars>>

\* pthread_cond_signal: wakes the response thread if it waits, else nothing.
CondSignal ==
    /\ rpc = "signal"
    /\ cpc' = IF cpc = "wait" THEN "woken" ELSE cpc
    /\ rpc' = "unlock"
    /\ UNCHANGED <<mutex, rEvent, rNew, pEv, listVars>>

ReaderUnlock ==
    /\ rpc = "unlock"
    /\ mutex' = "free"
    /\ rpc' = "idle"
    /\ UNCHANGED <<rEvent, rNew, cpc, pEv, listVars>>

ReaderStep == PushLink \/ PushTail \/ CondSignal \/ ReaderUnlock

-----------------------------------------------------------------------------
(* The response thread: __deamon_response                                  *)

ResponseLock ==
    /\ cpc = "lock"
    /\ mutex = "free"
    /\ mutex' = "response"
    /\ cpc' = "head"
    /\ UNCHANGED <<rpc, rEvent, rNew, pEv, listVars>>

\* Mutant: queueCount-- also when the queue is empty.
HeadReadCounts ==
    /\ cpc = "head"
    /\ pEv' = pHead
    /\ cpc' = IF pHead = NULL THEN "empty" ELSE "advance"
    /\ queueCount' = IF pHead = NULL THEN queueCount - 1 ELSE queueCount
    /\ UNCHANGED <<mutex, rpc, rEvent, rNew,
                   pHead, pTail, pNext, data, allocated, listed>>

\* head(): pEv = pHead.
HeadRead ==
    /\ cpc = "head"
    /\ pEv' = pHead
    /\ cpc' = IF pHead = NULL THEN "empty" ELSE "advance"
    /\ UNCHANGED <<mutex, rpc, rEvent, rNew, listVars>>

\* Mutant: pTail keeps pointing to the last node that was removed.
HeadKeepsTail ==
    /\ cpc = "advance"
    /\ pHead' = pNext[pHead]
    /\ queueCount' = queueCount - 1
    /\ listed' = Tail(listed)
    /\ cpc' = "taken"
    /\ UNCHANGED <<mutex, rpc, rEvent, rNew, pEv, pTail, pNext, data, allocated>>

\* head(), queue not empty: unlink the first node.
HeadAdvance ==
    /\ cpc = "advance"
    /\ pHead' = pNext[pHead]
    /\ pTail' = IF pNext[pHead] = NULL THEN NULL ELSE pTail
    /\ queueCount' = queueCount - 1
    /\ listed' = Tail(listed)
    /\ cpc' = "taken"
    /\ UNCHANGED <<mutex, rpc, rEvent, rNew, pEv, pNext, data, allocated>>

ResponseUnlock ==
    /\ cpc = "taken"
    /\ mutex' = "free"
    /\ cpc' = "handle"
    /\ UNCHANGED <<rpc, rEvent, rNew, pEv, listVars>>

\* handle_response returned.
HandleResponse ==
    /\ cpc = "handle"
    /\ cpc' = "free"
    /\ UNCHANGED <<mutex, rpc, rEvent, rNew, pEv, listVars>>

\* Mutant: the event is not freed after it was handled.
NoFree ==
    /\ cpc = "free"
    /\ pEv' = NULL
    /\ cpc' = "lock"
    /\ UNCHANGED <<mutex, rpc, rEvent, rNew, listVars>>

\* freeTGEvent, then the loop starts again.
FreeTGEvent ==
    /\ cpc = "free"
    /\ allocated' = allocated \ {pEv}
    /\ pEv' = NULL
    /\ cpc' = "lock"
    /\ UNCHANGED <<mutex, rpc, rEvent, rNew,
                   pHead, pTail, queueCount, pNext, data, listed>>

\* Queue empty: pthread_cond_wait gives the mutex back and starts to wait in
\* one step.
CondWait ==
    /\ cpc = "empty"
    /\ mutex' = "free"
    /\ cpc' = "wait"
    /\ UNCHANGED <<rpc, rEvent, rNew, pEv, listVars>>

\* POSIX lets pthread_cond_wait return with no signal.
SpuriousWakeup ==
    /\ cpc = "wait"
    /\ cpc' = "woken"
    /\ UNCHANGED <<mutex, rpc, rEvent, rNew, pEv, listVars>>

\* pthread_cond_wait takes the mutex again before it returns.
CondReturn ==
    /\ cpc = "woken"
    /\ mutex = "free"
    /\ mutex' = "response"
    /\ cpc' = "retry"
    /\ UNCHANGED <<rpc, rEvent, rNew, pEv, listVars>>

\* The unlock and the continue after the wait.
RetryUnlock ==
    /\ cpc = "retry"
    /\ mutex' = "free"
    /\ cpc' = "lock"
    /\ UNCHANGED <<rpc, rEvent, rNew, pEv, listVars>>

ResponseStep ==
    \/ HeadRead \/ HeadAdvance \/ ResponseUnlock \/ HandleResponse
    \/ FreeTGEvent \/ CondWait \/ RetryUnlock

-----------------------------------------------------------------------------
Next ==
    \/ \E e \in Event : ReaderLock(e)
    \/ ReaderStep
    \/ ResponseLock \/ CondReturn \/ SpuriousWakeup
    \/ ResponseStep

\* Threads that can run do run (weak fairness); the mutex goes to a thread
\* that competes for it infinitely often (strong fairness).  Whether another
\* message arrives and whether a wait ends spuriously is left open.
Fairness ==
    /\ WF_vars(ReaderStep)
    /\ WF_vars(ResponseStep)
    /\ SF_vars(ResponseLock)
    /\ SF_vars(CondReturn)

SafetySpec == Init /\ [][Next]_vars

Spec == SafetySpec /\ Fairness

-----------------------------------------------------------------------------
ReaderPC   == {"idle", "push", "tail", "signal", "unlock"}
LockedPC   == {"head", "advance", "taken", "empty", "retry"}
HoldingPC  == {"taken", "handle", "free"}
ResponsePC == LockedPC \cup HoldingPC \cup {"lock", "wait", "woken"}

Linked == {listed[k] : k \in 1 .. Len(listed)}
Held   == IF cpc \in HoldingPC THEN {pEv} ELSE {}

\* Type correctness of every variable.
TypeOK ==
    /\ mutex \in {"free", "reader", "response"}
    /\ rpc \in ReaderPC
    /\ rEvent \in Event \cup {NULL}
    /\ rNew \in Node \cup {NULL}
    /\ cpc \in ResponsePC
    /\ pEv \in Node \cup {NULL}
    /\ pHead \in Node \cup {NULL}
    /\ pTail \in Node \cup {NULL}
    /\ queueCount \in Nat
    /\ pNext \in [Node -> Node \cup {NULL}]
    /\ data \in [Node -> Event \cup {NULL}]
    /\ allocated \in SUBSET Node
    /\ listed \in Seq(Node)

\* The mutex is held exactly by a thread that is between its lock and its
\* unlock, so the two are never inside the list code together.
MutexOK ==
    /\ mutex = "reader" <=> rpc # "idle"
    /\ mutex = "response" <=> cpc \in LockedPC

\* Following pHead and pNext visits the queued events in push order and ends
\* with NULL: no push or pop loses, repeats or reorders an event, whatever
\* the addresses malloc reuses (pushEventToQueue, head).
ChainOK ==
    /\ pHead = IF listed = <<>> THEN NULL ELSE listed[1]
    /\ \A k \in 1 .. Len(listed) :
          pNext[listed[k]] = IF k = Len(listed) THEN NULL ELSE listed[k + 1]
    /\ \A j, k \in 1 .. Len(listed) : listed[j] = listed[k] => j = k

\* Outside the middle of a push, pTail is the last node (NULL when there is
\* none, which head() has to restore) and queueCount is the length.
TailOK ==
    IF rpc = "tail"
    THEN /\ listed # <<>>
         /\ rNew = listed[Len(listed)]
         /\ queueCount = Len(listed) - 1
    ELSE /\ pTail = IF listed = <<>> THEN NULL ELSE listed[Len(listed)]
         /\ queueCount = Len(listed)

\* The list is well formed at both ends and in between, in every state the
\* response thread can look at it.
ListOK == ChainOK /\ TailOK

\* The allocated events are those in the queue and the one the response
\* thread holds, which is no longer in the queue: nothing leaks, no event is
\* freed while it is still linked, and the event a handler works on is its own.
MemoryOK ==
    /\ allocated = Linked \cup Held
    /\ Held \cap Linked = {}

\* The response thread sleeps in pthread_cond_wait only while the queue is
\* empty or the reader that filled it has not signalled yet.
NoLostWakeup ==
    cpc = "wait" => pHead = NULL \/ rpc \in {"tail", "signal"}

-----------------------------------------------------------------------------
\* Refinement mapping: the contents of the linked nodes, and of the node
\* between its removal from the list and its free.
QueuedEvents == [k \in 1 .. Len(listed) |-> data[listed[k]]]
TakenEvent   == IF cpc \in HoldingPC THEN data[pEv] ELSE NULL

Fifo == INSTANCE EventFifo
          WITH Idle <- NULL, queue <- QueuedEvents, taken <- TakenEvent

\* The two threads and the linked list implement the first-in first-out queue,
\* including that every event pushed is eventually taken and finished with.
FifoSpec == Fifo!Spec
=============================================================================
